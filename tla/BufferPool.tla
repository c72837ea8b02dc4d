----------------------------- MODULE BufferPool -----------------------------
(***************************************************************************)
(* services/storage/src/buffer_pool_manager.cpp over the disk of           *)
(* DiskPages.  Every operation holds latch_ from its first line to its     *)
(* return, disk calls included, so an operation is one action.  What       *)
(* interleaves is the operations of different callers and the writes they  *)
(* make, without the latch, through the Page pointers they hold.           *)
(*                                                                         *)
(* The Pool... actions are the operations as the code has them, whatever   *)
(* page id they are given.  The actions of Next add a caller that follows  *)
(* the contract the engine's own components follow: fetch and delete pages *)
(* that are allocated, write only through a pointer that is still pinned,  *)
(* and say is_dirty when unpinning a page that was written or is new.      *)
(***************************************************************************)
EXTENDS DiskPages, FiniteSets

CONSTANTS
    pool_size_,   \* number of frames
    Callers,      \* pins that may be held at the same time
    Values        \* contents that callers write

ASSUME PoolAssumption ==
    /\ pool_size_ \in Nat
    /\ IsFiniteSet(Callers)
    /\ Values \subseteq Word

VARIABLES
    pages_,       \* frame -> page_id_, pin_count_, is_dirty_, data_
    page_table_,  \* page id -> frame, NoFrame when the page is not cached
    free_list_,   \* frames never used or freed by DeletePage, FIFO
    evictable,    \* frames the replacer may choose (Replacer's abstraction)
    disk,         \* the DiskManager
    handle,       \* caller -> the Page pointer it holds, and if it wrote
    live,         \* history: pages handed out and not deleted
    freeChain     \* history: the disk's free list

poolVars == <<pages_, page_table_, free_list_, evictable, disk>>
vars == <<pages_, page_table_, free_list_, evictable, disk,
          handle, live, freeChain>>

Frames == 0 .. (pool_size_ - 1)
NoFrame == -1
NoHandle == [page |-> INVALID_PAGE_ID, frame |-> NoFrame, wrote |-> FALSE]

FrameType ==
    [page_id_ : Word, pin_count_ : Int, is_dirty_ : BOOLEAN, data_ : Word]

\* Page::ResetMemory.
ResetMemory ==
    [page_id_ |-> INVALID_PAGE_ID, pin_count_ |-> 0,
     is_dirty_ |-> FALSE, data_ |-> Blank]

TypeOK ==
    /\ pages_ \in [Frames -> FrameType]
    /\ page_table_ \in [PageIds -> Frames \union {NoFrame}]
    /\ free_list_ \in Seq(Frames)
    /\ evictable \subseteq Frames
    /\ disk \in DiskType
    /\ handle \in [Callers -> [page : Word, frame : Frames \union {NoFrame},
                               wrote : BOOLEAN]]
    /\ live \subseteq PageIds
    /\ freeChain \in Seq(PageIds)

\* Faulty variant: the constructor's loop runs from 1 to pool_size_.
PoolInit_FromOne ==
    /\ pages_ = [f \in Frames |-> ResetMemory]
    /\ page_table_ = [p \in PageIds |-> NoFrame]
    /\ free_list_ = [i \in 1 .. pool_size_ |-> i]
    /\ evictable = {}
    /\ disk = InitializeFile(EmptyFile)

PoolInit ==
    /\ pages_ = [f \in Frames |-> ResetMemory]
    /\ page_table_ = [p \in PageIds |-> NoFrame]
    /\ free_list_ = [i \in 1 .. pool_size_ |-> i - 1]
    /\ evictable = {}
    /\ disk = InitializeFile(EmptyFile)

Init ==
    /\ PoolInit
    /\ handle = [c \in Callers |-> NoHandle]
    /\ live = {}
    /\ freeChain = <<>>

Cached(p) == page_table_[p] # NoFrame

-----------------------------------------------------------------------------
(***************************************************************************)
(* Taking a frame: the front of the free list, else a victim, which is     *)
(* written back if dirty and leaves the page table.                        *)
(***************************************************************************)
\* Faulty variant: any frame may be taken, pinned or not.
Obtainable_AnyFrame == Frames

Obtainable == IF free_list_ # <<>> THEN {free_list_[1]} ELSE evictable

\* Faulty variant: a dirty victim is dropped without a write.
EvictDisk_NoWriteBack(f) == disk

EvictDisk(f) ==
    IF free_list_ = <<>> /\ pages_[f].is_dirty_
    THEN WritePage(disk, pages_[f].page_id_, pages_[f].data_)
    ELSE disk

EvictTable(f) ==
    IF free_list_ = <<>>
    THEN [page_table_ EXCEPT ![pages_[f].page_id_] = NoFrame]
    ELSE page_table_

\* Faulty variant: the frame stays in the free list.
RestOfFreeList_Kept == free_list_

RestOfFreeList == IF free_list_ = <<>> THEN <<>> ELSE Tail(free_list_)

\* Faulty variant: a hit leaves the frame in the replacer.
PoolFetchHit_StaysEvictable(p) ==
    /\ Cached(p)
    /\ pages_' = [pages_ EXCEPT ![page_table_[p]].pin_count_ = @ + 1]
    /\ UNCHANGED <<page_table_, free_list_, evictable, disk>>

PoolFetchHit(p) ==
    /\ Cached(p)
    /\ LET f == page_table_[p] IN
        /\ pages_' = [pages_ EXCEPT ![f].pin_count_ = @ + 1]
        /\ evictable' = evictable \ {f}
    /\ UNCHANGED <<page_table_, free_list_, disk>>

PoolFetchMiss(p, f) ==
    /\ ~Cached(p)
    /\ f \in Obtainable
    /\ InBounds(EvictDisk(f), p)
    /\ pages_' = [pages_ EXCEPT ![f] =
                    [page_id_ |-> p, pin_count_ |-> 1, is_dirty_ |-> FALSE,
                     data_ |-> ReadPage(EvictDisk(f), p)]]
    /\ page_table_' = [EvictTable(f) EXCEPT ![p] = f]
    /\ free_list_' = RestOfFreeList
    /\ evictable' = evictable \ {f}
    /\ disk' = EvictDisk(f)

PoolNewPage(f) ==
    /\ f \in Obtainable
    /\ FreeListEmpty(disk) => CanGrow(disk)
    /\ ~FreeListEmpty(disk) => LinkReadable(disk)
    /\ LET d == EvictDisk(f)
           p == AllocatedId(d)
       IN  /\ pages_' = [pages_ EXCEPT ![f] =
                           [page_id_ |-> p, pin_count_ |-> 1,
                            is_dirty_ |-> FALSE, data_ |-> Blank]]
           /\ page_table_' = [EvictTable(f) EXCEPT ![p] = f]
           /\ disk' = AllocatePage(d)
    /\ free_list_' = RestOfFreeList
    /\ evictable' = evictable \ {f}

PoolUnpin(p, is_dirty) ==
    /\ Cached(p)
    /\ LET f == page_table_[p] IN
        /\ pages_[f].pin_count_ > 0
        /\ pages_' = [pages_ EXCEPT ![f].pin_count_ = @ - 1,
                                    ![f].is_dirty_ = @ \/ is_dirty]
        /\ evictable' = IF pages_[f].pin_count_ = 1
                        THEN evictable \union {f} ELSE evictable
    /\ UNCHANGED <<page_table_, free_list_, disk>>

PoolFlushPage(p) ==
    /\ Cached(p)
    /\ LET f == page_table_[p] IN
        /\ pages_[f].is_dirty_
        /\ disk' = WritePage(disk, p, pages_[f].data_)
        /\ pages_' = [pages_ EXCEPT ![f].is_dirty_ = FALSE]
    /\ UNCHANGED <<page_table_, free_list_, evictable>>

\* Faulty variant: pinned pages are skipped.
DirtyInTable_Unpinned(p) ==
    /\ Cached(p)
    /\ pages_[page_table_[p]].is_dirty_
    /\ pages_[page_table_[p]].pin_count_ = 0

\* WritePage of every dirty page of the page table, each within the file.
DirtyInTable(p) == Cached(p) /\ pages_[page_table_[p]].is_dirty_

PoolFlushAllPages ==
    /\ pages_' = [f \in Frames |->
                    IF \E p \in PageIds : page_table_[p] = f
                    THEN [pages_[f] EXCEPT !.is_dirty_ = FALSE]
                    ELSE pages_[f]]
    /\ disk' = [disk EXCEPT
                  !.page = [p \in PageIds |->
                              IF DirtyInTable(p)
                              THEN pages_[page_table_[p]].data_ ELSE @[p]],
                  !.disk_num = IF DirtyInTable(0) THEN 0 ELSE @]
    /\ UNCHANGED <<page_table_, free_list_, evictable>>

PoolDeleteCached(p) ==
    /\ Cached(p)
    /\ LET f == page_table_[p] IN
        /\ pages_[f].pin_count_ <= 0
        /\ evictable' = evictable \ {f}
        /\ pages_' = [pages_ EXCEPT ![f] = ResetMemory]
        /\ free_list_' = Append(free_list_, f)
    /\ page_table_' = [page_table_ EXCEPT ![p] = NoFrame]
    /\ disk' = DeallocatePage(disk, p)

PoolDeleteUncached(p) ==
    /\ ~Cached(p)
    /\ disk' = DeallocatePage(disk, p)
    /\ UNCHANGED <<pages_, page_table_, free_list_, evictable>>

-----------------------------------------------------------------------------
(***************************************************************************)
(* Callers.  A call that returns nullptr or false changes nothing.         *)
(***************************************************************************)
Holds(c) == handle[c].frame # NoFrame

FetchPage(c, p) ==
    /\ ~Holds(c)
    /\ p \in live
    /\ \/ /\ PoolFetchHit(p)
          /\ handle' = [handle EXCEPT ![c] =
                [page |-> p, frame |-> page_table_[p], wrote |-> FALSE]]
       \/ \E f \in Frames :
            /\ PoolFetchMiss(p, f)
            /\ handle' = [handle EXCEPT ![c] =
                  [page |-> p, frame |-> f, wrote |-> FALSE]]
    /\ UNCHANGED <<live, freeChain>>

NewPage(c) ==
    /\ ~Holds(c)
    /\ \E f \in Frames :
        /\ PoolNewPage(f)
        /\ handle' = [handle EXCEPT ![c] =
              [page |-> AllocatedId(disk), frame |-> f, wrote |-> TRUE]]
    /\ live' = live \union {AllocatedId(disk)}
    /\ freeChain' = IF FreeListEmpty(disk) THEN freeChain ELSE Pop(freeChain)

UnpinPage(c) ==
    /\ Holds(c)
    /\ \E is_dirty \in BOOLEAN :
        /\ handle[c].wrote => is_dirty
        /\ PoolUnpin(handle[c].page, is_dirty)
    /\ handle' = [handle EXCEPT ![c] = NoHandle]
    /\ UNCHANGED <<live, freeChain>>

\* A store through the pointer FetchPage or NewPage returned: no latch.
WriteThrough(c, w) ==
    /\ Holds(c)
    /\ pages_' = [pages_ EXCEPT ![handle[c].frame].data_ = w]
    /\ handle' = [handle EXCEPT ![c].wrote = TRUE]
    /\ UNCHANGED <<page_table_, free_list_, evictable, disk, live, freeChain>>

FlushPage(p) ==
    /\ PoolFlushPage(p)
    /\ UNCHANGED <<handle, live, freeChain>>

FlushAllPages ==
    /\ PoolFlushAllPages
    /\ UNCHANGED <<handle, live, freeChain>>

DeletePage(p) ==
    /\ p \in live
    /\ PoolDeleteCached(p) \/ PoolDeleteUncached(p)
    /\ live' = live \ {p}
    /\ freeChain' = Append(freeChain, p)
    /\ UNCHANGED handle

Next ==
    \/ \E c \in Callers, p \in PageIds : FetchPage(c, p)
    \/ \E c \in Callers : NewPage(c) \/ UnpinPage(c)
    \/ \E c \in Callers, w \in Values : WriteThrough(c, w)
    \/ \E p \in PageIds : FlushPage(p) \/ DeletePage(p)
    \/ FlushAllPages

Spec == Init /\ [][Next]_vars

-----------------------------------------------------------------------------
(***************************************************************************)
(* Properties.                                                             *)
(***************************************************************************)
Mapped(f) == \E p \in PageIds : page_table_[p] = f

InFreeList(f) == \E i \in DOMAIN free_list_ : free_list_[i] = f

\* Every frame is in exactly one place: once in the free list, or in the
\* page table under the page id the frame itself carries.
FramePartition ==
    /\ \A p \in PageIds : Cached(p) => pages_[page_table_[p]].page_id_ = p
    /\ \A f \in Frames : InFreeList(f) <=> ~Mapped(f)
    /\ NoRepeats(free_list_)

\* The replacer offers exactly the cached frames nobody has pinned, so a
\* page in use is never evicted and an unused one can always be.
ReplacerTracksUnpinned ==
    \A f \in Frames : f \in evictable <=> Mapped(f) /\ pages_[f].pin_count_ = 0

Holders(f) == {c \in Callers : handle[c].frame = f}

\* pin_count_ is the number of callers holding the page, and a pointer a
\* caller holds still points at the page it was obtained for.
PinsCounted ==
    /\ \A f \in Frames : pages_[f].pin_count_ = Cardinality(Holders(f))
    /\ \A c \in Callers : Holds(c) =>
        /\ handle[c].page \in PageIds
        /\ page_table_[handle[c].page] = handle[c].frame

\* A frame that is not marked dirty, and that no caller is still writing,
\* holds what the disk holds: evicting it without a write loses nothing.
CleanMatchesDisk ==
    \A p \in PageIds, f \in Frames :
        /\ page_table_[p] = f
        /\ ~pages_[f].is_dirty_
        /\ \A c \in Holders(f) : ~handle[c].wrote
        => pages_[f].data_ = ReadPage(disk, p)

\* Only allocated pages are cached; the pages of the file other than page 0
\* are allocated or on the disk's free list, never both and never neither.
PagesAccounted ==
    /\ \A p \in PageIds : Cached(p) => p \in live
    /\ \A p \in 1 .. (disk.num_pages_ - 1) :
        p \in live <=> ~InChain(freeChain, p)
    /\ live \subseteq 1 .. (disk.num_pages_ - 1)

\* The links on disk spell the pages deleted so far, although deletions,
\* write-backs and reuse all write to the same file.
FreeListSound ==
    /\ disk.extent = disk.num_pages_
    /\ disk.num_pages_ >= 1
    /\ disk.free_list_head_ = Top(freeChain)
    /\ LinksSpell(disk, freeChain)
    /\ NoRepeats(freeChain)

\* After FlushAllPages, and so at an orderly shutdown, the disk holds the
\* content of every page that no caller is still writing.
FlushAllPersists ==
    [][FlushAllPages =>
        \A p \in live :
            (\A c \in Callers : handle[c].page = p => ~handle[c].wrote)
                => ReadPage(disk', p) = IF Cached(p) THEN pages_[page_table_[p]].data_
                                                     ELSE ReadPage(disk, p)]_vars

(***************************************************************************)
(* The pool implements PageStore: a page's content is its frame's, or the  *)
(* disk's when it is not cached.                                           *)
(***************************************************************************)
ContentOf(p) ==
    IF p \notin live THEN Blank
    ELSE IF Cached(p) THEN pages_[page_table_[p]].data_
    ELSE ReadPage(disk, p)

Store == INSTANCE PageStore WITH
    PageNames <- PageIds, Contents <- Values, Zeroed <- Blank,
    allocated <- live, content <- [p \in PageIds |-> ContentOf(p)]

\* No caching, eviction, write-back or page reuse is ever visible through
\* FetchPage: the pool behaves as a store of pages.
ImplementsPageStore == Store!StoreSpec
=============================================================================
