---------------------------- MODULE DiskManager ----------------------------
(***************************************************************************)
(* services/storage/src/disk_manager.cpp, one action per flush.            *)
(*                                                                         *)
(* Every public operation holds db_io_lck_ from its first line to its      *)
(* return, so at most one operation is in flight; what can fall between    *)
(* two of its flushes is the death of the process.  A flush reaches the    *)
(* operating system as a whole and survives that death; everything in      *)
(* memory does not.                                                        *)
(***************************************************************************)
EXTENDS DiskPages, FiniteSets

CONSTANTS
    Values,         \* the contents callers write: a subset of Word
    CallerPages,    \* the page ids callers pass to WritePage
    MaxCrashes      \* bound on the crashes of a behaviour

ASSUME CallerAssumption ==
    /\ Values \subseteq Word
    /\ CallerPages \subseteq PageIds
    /\ MaxCrashes \in Nat

VARIABLES
    disk,        \* the file and the metadata cache (DiskPages)
    mode,        \* the life of the DiskManager object and of its file
    pc,          \* where the operation that holds db_io_lck_ stands
    target,      \* the page that operation works on
    live,        \* history: pages callers were given and did not give back
    freeChain,   \* history: the free list, top of the stack last
    written,     \* history: what callers last wrote to every page
    crashes      \* history: crashes so far

vars == <<disk, mode, pc, target, live, freeChain, written, crashes>>

Unwritten == INVALID_PAGE_ID + 1

Modes == {"absent", "created", "open", "down", "failed"}
Steps == {"idle", "growBlank", "return", "deallocHead"}

TypeOK ==
    /\ disk \in DiskType
    /\ mode \in Modes
    /\ pc \in Steps
    /\ target \in PageIds
    /\ live \subseteq PageIds
    /\ freeChain \in Seq(PageIds)
    /\ written \in [PageIds -> Word \union {Unwritten}]
    /\ crashes \in 0 .. MaxCrashes

Init ==
    /\ disk = EmptyFile
    /\ mode = "absent"
    /\ pc = "idle"
    /\ target = 0
    /\ live = {}
    /\ freeChain = <<>>
    /\ written = [p \in PageIds |-> Unwritten]
    /\ crashes = 0

Idle == mode = "open" /\ pc = "idle"

-----------------------------------------------------------------------------
(***************************************************************************)
(* The constructor and Close.                                              *)
(***************************************************************************)
\* The file is missing: open with trunc creates it with no byte in it.
CreateFile ==
    /\ mode = "absent"
    /\ mode' = "created"
    /\ disk' = EmptyFile
    /\ UNCHANGED <<pc, target, live, freeChain, written, crashes>>

\* Page 0 is written and flushed, the constructor returns.
WritePageZero ==
    /\ mode = "created"
    /\ mode' = "open"
    /\ disk' = InitializeFile(disk)
    /\ UNCHANGED <<pc, target, live, freeChain, written, crashes>>

\* The file exists and holds the two words of the metadata.
OpenExisting ==
    /\ mode = "down"
    /\ disk.extent > 0
    /\ mode' = "open"
    /\ disk' = ReadMetadata(disk)
    /\ UNCHANGED <<pc, target, live, freeChain, written, crashes>>

\* The file exists but ReadMetadata runs off its end: the constructor throws.
OpenThrows ==
    /\ mode \in {"down", "failed"}
    /\ disk.extent = 0
    /\ mode' = "failed"
    /\ UNCHANGED <<disk, pc, target, live, freeChain, written, crashes>>

Close ==
    /\ Idle
    /\ mode' = "down"
    /\ UNCHANGED <<disk, pc, target, live, freeChain, written, crashes>>

\* The process dies between two flushes; an operation in flight is lost.
Crash ==
    /\ mode \in {"created", "open"}
    /\ crashes < MaxCrashes
    /\ crashes' = crashes + 1
    /\ mode' = "down"
    /\ pc' = "idle"
    /\ UNCHANGED <<disk, target, live, freeChain, written>>

-----------------------------------------------------------------------------
(***************************************************************************)
(* AllocatePage.  The caller owns the page once the call has returned.     *)
(***************************************************************************)
AllocateFromFreeList ==
    /\ Idle
    /\ ~FreeListEmpty(disk)
    /\ LinkReadable(disk)
    /\ target' = AllocatedId(disk)
    /\ disk' = AllocateReuse(disk)
    /\ freeChain' = Pop(freeChain)
    /\ pc' = "return"
    /\ UNCHANGED <<mode, live, written, crashes>>

AllocateGrow ==
    /\ Idle
    /\ FreeListEmpty(disk)
    /\ CanGrow(disk)
    /\ target' = AllocatedId(disk)
    /\ disk' = AllocateGrowCount(disk)
    /\ pc' = "growBlank"
    /\ UNCHANGED <<mode, live, freeChain, written, crashes>>

AllocateBlank ==
    /\ mode = "open"
    /\ pc = "growBlank"
    /\ disk' = AllocateGrowBlank(disk, target)
    /\ pc' = "return"
    /\ UNCHANGED <<mode, target, live, freeChain, written, crashes>>

AllocateReturn ==
    /\ mode = "open"
    /\ pc = "return"
    /\ live' = live \union {target}
    /\ written' = [written EXCEPT ![target] = Unwritten]
    /\ pc' = "idle"
    /\ UNCHANGED <<disk, mode, target, freeChain, crashes>>

-----------------------------------------------------------------------------
(***************************************************************************)
(* DeallocatePage, by a caller that owns the page and lets go of it as it  *)
(* calls; and WritePage, by an owner (or, when CallerPages holds 0, by     *)
(* whoever writes to page 0, which no check in WritePage refuses).  Calls  *)
(* that are refused (a page out of bounds, page 0 given to DeallocatePage) *)
(* and ReadPage change nothing: they are stuttering steps.                 *)
(***************************************************************************)
Deallocate(p) ==
    /\ Idle
    /\ p \in live
    /\ ~DeallocateRejects(disk, p)
    /\ target' = p
    /\ disk' = DeallocateLink(disk, p)
    /\ live' = live \ {p}
    /\ pc' = "deallocHead"
    /\ UNCHANGED <<mode, freeChain, written, crashes>>

DeallocateFinish ==
    /\ mode = "open"
    /\ pc = "deallocHead"
    /\ disk' = DeallocateHead(disk, target)
    /\ freeChain' = Append(freeChain, target)
    /\ pc' = "idle"
    /\ UNCHANGED <<mode, target, live, written, crashes>>

Write(p, w) ==
    /\ Idle
    /\ p \in CallerPages
    /\ p \in live \union {0}
    /\ InBounds(disk, p)
    /\ disk' = WritePage(disk, p, w)
    /\ written' = [written EXCEPT ![p] = w]
    /\ UNCHANGED <<mode, pc, target, live, freeChain, crashes>>

Next ==
    \/ CreateFile \/ WritePageZero \/ OpenExisting \/ OpenThrows
    \/ Close \/ Crash
    \/ AllocateFromFreeList \/ AllocateGrow \/ AllocateBlank \/ AllocateReturn
    \/ \E p \in PageIds : Deallocate(p)
    \/ DeallocateFinish
    \/ \E p \in PageIds, w \in Values : Write(p, w)

Spec == Init /\ [][Next]_vars

-----------------------------------------------------------------------------
(***************************************************************************)
(* Properties.                                                             *)
(***************************************************************************)
\* Metadata as the next open would find it: cache when open, page 0 when not.
ReopenHead == IF mode = "open" THEN disk.free_list_head_ ELSE disk.page[0]
ReopenCount == IF mode = "open" THEN disk.num_pages_ ELSE disk.disk_num

\* The page an AllocatePage or DeallocatePage in flight holds.
InFlight == IF pc = "idle" THEN {} ELSE {target}

\* The free list on disk is exactly the pages given back, at every flush and
\* after every crash: head and links spell them, no page is on the list twice
\* and none is still in a caller's hands or in flight.  Hence AllocatePage
\* never throws "Corrupted database free list" and never hands out a page
\* that is in use.
FreeListSound ==
    /\ ReopenHead = Top(freeChain) \/ disk.extent = 0
    /\ LinksSpell([disk EXCEPT !.num_pages_ = ReopenCount], freeChain)
    /\ NoRepeats(freeChain)
    /\ \A p \in live \union InFlight : ~InChain(freeChain, p)

\* An AllocatePage about to return names a page no caller holds, that the
\* file physically contains and that page 0 already counts.
AllocationFresh ==
    pc = "return" => /\ target \notin live \union {0}
                     /\ target < disk.extent
                     /\ target < disk.disk_num

\* WritePage is durable: a page in a caller's hands keeps what was last
\* written to it through every other operation, crash and reopening, and
\* stays inside the bounds ReadPage checks.
WritesDurable ==
    \A p \in live :
        /\ p < disk.disk_num
        /\ written[p] # Unwritten => ReadPage(disk, p) = written[p]

\* A crash loses at most the one page of the operation it interrupts: the
\* pages that are neither owned, nor free, nor in flight.
Lost == {p \in 1 .. (ReopenCount - 1) :
            p \notin live \union InFlight /\ ~InChain(freeChain, p)}

LeakBounded == Cardinality(Lost) <= crashes

\* disk_manager.hpp: the cached metadata is synchronized with page 0 whenever
\* no operation is in flight.
MetadataSynchronized ==
    Idle => /\ disk.page[0] = disk.free_list_head_
            /\ disk.disk_num = disk.num_pages_
=============================================================================
