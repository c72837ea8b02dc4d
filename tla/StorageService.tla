--------------------------- MODULE StorageService ---------------------------
(***************************************************************************)
(* services/storage/src/storage_service.cpp: the handler threads of the    *)
(* daemon and Stop, over the buffer pool.                                  *)
(*                                                                         *)
(* One handler thread serves one connection, a member of Callers; while it *)
(* serves a READ, WRITE or ALLOCATE it holds one pin.  A handler takes one *)
(* step per call into the pool and per send.  Its memcpy runs without a    *)
(* latch: it begins in one step and ends in another, the page is Half      *)
(* copied in between, and of copies that overlap any mixture may be left.  *)
(* Sockets (external) deliver whole messages or fail, and a send takes as  *)
(* long as the client likes.                                               *)
(*                                                                         *)
(* What clients send is a parameter.  "exclusive" clients use page ids     *)
(* they were given and never deallocate a page that another request is     *)
(* using; "any" clients send any page id.                                  *)
(***************************************************************************)
EXTENDS BufferPool

CONSTANTS
    Half,         \* what a page holds while one handler copies into it
    Mixed,        \* what it holds when copies of several have got mixed up
    Readers,      \* the connections whose clients read what they are sent
    Discipline,   \* "exclusive" or "any"
    QuietStop,    \* Stop waits for, and stops, the traffic of the clients
    MaxRequests   \* bound on the requests of a behaviour

ASSUME ServiceAssumption ==
    /\ {Half, Mixed} \subseteq Values /\ Half # Mixed
    /\ Readers \subseteq Callers
    /\ Discipline \in {"exclusive", "any"}
    /\ QuietStop \in BOOLEAN
    /\ MaxRequests \in Nat

VARIABLES
    thread,     \* handler -> pc, and the op, page and value it works on
    stop,       \* how far Stop has come; is_running_ while "running"
    content,    \* history: what the last WRITE may have left in every page
    allowed,    \* history: what a READ in flight may answer, a WRITE leave
    sent        \* history: requests so far

allVars == <<pages_, page_table_, free_list_, evictable, disk,
             handle, live, freeChain, thread, stop, content, allowed, sent>>

Payloads == Values \ {Half, Mixed}
Ops == {"READ", "WRITE", "ALLOCATE", "DEALLOCATE", "UNKNOWN"}
NoRequest == [pc |-> "closed", op |-> "READ", page |-> INVALID_PAGE_ID, value |-> Blank]

ServiceTypeOK ==
    /\ TypeOK
    /\ thread \in [Callers ->
         [pc : {"closed", "recv", "exec", "use", "copy", "unpin", "drop",
                "reply", "error", "crashed"},
          op : Ops, page : Word, value : Word]]
    /\ stop \in {"running", "signalled", "flushed", "reset", "closed"}
    /\ content \in [PageIds -> SUBSET Word]
    /\ allowed \in [Callers -> SUBSET Word]
    /\ sent \in 0 .. MaxRequests

ServiceInit ==
    /\ Init
    /\ thread = [c \in Callers |-> NoRequest]
    /\ stop = "running"
    /\ content = [p \in PageIds |-> {Blank}]
    /\ allowed = [c \in Callers |-> {}]
    /\ sent = 0

is_running_ == stop = "running"
PoolExists == stop \in {"running", "signalled", "flushed"}

Busy(c) == thread[c].pc \notin {"closed", "recv", "crashed"}
InFlight(op, p) == {c \in Callers : Busy(c) /\ thread[c].op = op /\ thread[c].page = p}
Using(p) == {c \in Callers : Busy(c) /\ thread[c].page = p}

At(c, pc, ops) == thread[c].pc = pc /\ thread[c].op \in ops
Goto(c, pc) == thread' = [thread EXCEPT ![c].pc = pc]
Leave(c) == thread' = [thread EXCEPT ![c] = NoRequest]

\* Only the answer is left to send; of an ALLOCATE it names the page.
Answer(c) ==
    IF thread[c].op = "ALLOCATE" THEN Goto(c, "reply")
    ELSE thread' = [thread EXCEPT ![c] = [NoRequest EXCEPT !.pc = "reply"]]

\* A throw or a failed test: the catch block is left with an ERROR to send.
Fails(c) ==
    /\ thread' = [thread EXCEPT ![c] = [NoRequest EXCEPT !.pc = "error"]]
    /\ allowed' = [allowed EXCEPT ![c] = {}]

\* The end of one turn of HandleClient's loop and the test that starts another.
NextTurn(c) ==
    thread' = [thread EXCEPT ![c] =
                 [NoRequest EXCEPT !.pc = IF is_running_ THEN "recv" ELSE "closed"]]

-----------------------------------------------------------------------------
(***************************************************************************)
(* Clients and connections.                                                *)
(***************************************************************************)
Accept(c) ==
    /\ is_running_
    /\ thread[c].pc = "closed"
    /\ Goto(c, "recv")
    /\ UNCHANGED <<vars, stop, content, allowed, sent>>

\* Recv fails: the client left before a header or in the middle of a payload.
Disconnect(c) ==
    /\ thread[c].pc = "recv"
    /\ Leave(c)
    /\ UNCHANGED <<vars, stop, content, allowed, sent>>

\* A page id some client was given in answer to its ALLOCATE.
Known(p) == p \in live /\ InFlight("ALLOCATE", p) = {}

MaySend(op, p) ==
    \/ Discipline = "any"
    \/ /\ Known(p)
       /\ IF op = "DEALLOCATE" THEN Using(p) = {} ELSE InFlight("DEALLOCATE", p) = {}

\* An ALLOCATE is sent only while the bound MaxPages leaves a page for it.
RoomToGrow ==
    Cardinality({c \in Callers : Busy(c) /\ thread[c].op = "ALLOCATE"})
        < (MaxPages - disk.num_pages_) + (IF FreeListEmpty(disk) THEN 0 ELSE 1)

\* An overlap with a WRITE: its payload, and what copies show and may leave.
Overlap(op, w) ==
    IF op = "READ" THEN {w, Half, Mixed} ELSE IF op = "WRITE" THEN {Mixed} ELSE {}

\* What the request (op, p, w) may answer or leave, of itself and by the WRITEs it
\* meets.
Allowed(op, p, w) ==
    (IF op = "READ" THEN content[p] ELSE IF op = "WRITE" THEN {w} ELSE {})
        \union UNION {Overlap(op, thread[x].value) : x \in InFlight("WRITE", p)}

Request(c, op, p, w) ==
    /\ thread[c].pc = "recv"
    /\ sent < MaxRequests
    /\ sent' = sent + 1
    /\ QuietStop => is_running_
    /\ IF op \in {"ALLOCATE", "UNKNOWN"} THEN p = INVALID_PAGE_ID ELSE MaySend(op, p)
    /\ op = "ALLOCATE" => RoomToGrow
    /\ w \in IF op = "WRITE" THEN Payloads ELSE {Blank}
    /\ thread' = [thread EXCEPT ![c] =
                     [pc |-> IF op = "UNKNOWN" THEN "error" ELSE "exec",
                      op |-> op, page |-> p, value |-> w]]
    /\ allowed' =
         [r \in Callers |->
            IF r = c /\ p \in PageIds THEN Allowed(op, p, w)
            ELSE IF op = "WRITE" /\ r \in Using(p)
            THEN allowed[r] \union Overlap(thread[r].op, w)
            ELSE allowed[r]]
    /\ UNCHANGED <<vars, stop, content>>

-----------------------------------------------------------------------------
(***************************************************************************)
(* FetchPage for READ and WRITE: a pin, or nullptr, or the exception that  *)
(* ReadPage throws after the frame was taken.                              *)
(***************************************************************************)
InTable(p) == p \in PageIds /\ Cached(p)

FetchPins(c) ==
    /\ PoolExists
    /\ At(c, "exec", {"READ", "WRITE"})
    /\ LET p == thread[c].page IN
        /\ p \in PageIds
        /\ \/ /\ PoolFetchHit(p)
              /\ handle' = [handle EXCEPT ![c] =
                    [page |-> p, frame |-> page_table_[p], wrote |-> FALSE]]
           \/ \E f \in Frames :
                /\ PoolFetchMiss(p, f)
                /\ handle' = [handle EXCEPT ![c] =
                      [page |-> p, frame |-> f, wrote |-> FALSE]]
    /\ Goto(c, "use")
    /\ UNCHANGED <<live, freeChain, stop, content, allowed, sent>>

FetchGivesNull(c) ==
    /\ PoolExists
    /\ At(c, "exec", {"READ", "WRITE"})
    /\ \/ thread[c].page = INVALID_PAGE_ID
       \/ ~InTable(thread[c].page) /\ Obtainable = {}
    /\ Fails(c)
    /\ UNCHANGED <<vars, stop, content, sent>>

FetchThrows(c) ==
    /\ PoolExists
    /\ At(c, "exec", {"READ", "WRITE"})
    /\ LET p == thread[c].page IN
        /\ p # INVALID_PAGE_ID
        /\ ~InTable(p)
        /\ ~InBounds(disk, p)
        /\ \E f \in Obtainable :
            /\ pages_' = [pages_ EXCEPT ![f] =
                            [ResetMemory EXCEPT !.page_id_ = p, !.pin_count_ = 1]]
            /\ page_table_' = EvictTable(f)
            /\ evictable' = evictable \ {f}
            /\ disk' = EvictDisk(f)
    /\ free_list_' = RestOfFreeList
    /\ Fails(c)
    /\ UNCHANGED <<handle, live, freeChain, stop, content, sent>>

\* Send reads the page while nothing keeps another handler from writing it.
ReadSend(c) ==
    /\ PoolExists
    /\ At(c, "use", {"READ"})
    /\ \E after \in {"unpin", "drop"} :
        thread' = [thread EXCEPT ![c].pc = after,
                                 ![c].value = pages_[handle[c].frame].data_]
    /\ UNCHANGED <<vars, stop, content, allowed, sent>>

\* The other handlers that are copying into the page c is about to copy into.
Rivals(c) ==
    {x \in Callers \ {c} : At(x, "copy", {"WRITE"}) /\ handle[x].frame = handle[c].frame}

\* memcpy into the page: it begins,
CopyBegins(c) ==
    /\ PoolExists
    /\ At(c, "use", {"WRITE"})
    /\ WriteThrough(c, IF Rivals(c) = {} THEN Half ELSE Mixed)
    /\ Goto(c, "copy")
    /\ UNCHANGED <<stop, content, allowed, sent>>

\* and it ends.  The last of several copies that overlapped leaves its own bytes,
\* or some of the others' between them.
CopyLeaves(c) ==
    IF Rivals(c) # {} THEN {Mixed}
    ELSE IF pages_[handle[c].frame].data_ = Half THEN {thread[c].value}
    ELSE {thread[c].value, Mixed}

CopyEnds(c) ==
    /\ PoolExists
    /\ At(c, "copy", {"WRITE"})
    /\ \E w \in CopyLeaves(c) : WriteThrough(c, w)
    /\ content' = [content EXCEPT ![thread[c].page] = allowed[c]]
    /\ Goto(c, "unpin")
    /\ UNCHANGED <<stop, allowed, sent>>

\* Faulty variant: the handlers of WRITE and ALLOCATE do not say is_dirty.
MarksDirty_Never(c) == FALSE

MarksDirty(c) == thread[c].op # "READ"

\* UnpinPage by page id; its result is ignored, and so is a page it cannot find.
Unpin(c) ==
    /\ PoolExists
    /\ thread[c].pc \in {"unpin", "drop"}
    /\ LET p == thread[c].page IN
        \/ PoolUnpin(p, MarksDirty(c))
        \/ /\ Cached(p) => pages_[page_table_[p]].pin_count_ <= 0
           /\ UNCHANGED poolVars
    /\ handle' = [handle EXCEPT ![c] = NoHandle]
    /\ IF thread[c].pc = "drop" THEN Leave(c)
       ELSE IF thread[c].op = "READ" THEN NextTurn(c)
       ELSE Answer(c)
    /\ allowed' = [allowed EXCEPT ![c] = {}]
    /\ UNCHANGED <<live, freeChain, stop, content, sent>>

-----------------------------------------------------------------------------
(***************************************************************************)
(* NewPage for ALLOCATE and DeletePage for DEALLOCATE.                     *)
(***************************************************************************)
AllocatePins(c) ==
    /\ PoolExists
    /\ At(c, "exec", {"ALLOCATE"})
    /\ LET p == AllocatedId(disk) IN
        /\ \E f \in Frames :
            /\ PoolNewPage(f)
            /\ handle' = [handle EXCEPT ![c] = [page |-> p, frame |-> f, wrote |-> TRUE]]
        /\ live' = live \union {p}
        /\ freeChain' = IF FreeListEmpty(disk) THEN freeChain ELSE Pop(freeChain)
        /\ content' = [content EXCEPT ![p] = {Blank}]
        /\ thread' = [thread EXCEPT ![c].pc = "unpin", ![c].page = p]
    /\ UNCHANGED <<stop, allowed, sent>>

AllocateGivesNull(c) ==
    /\ PoolExists
    /\ At(c, "exec", {"ALLOCATE"})
    /\ Obtainable = {}
    /\ Fails(c)
    /\ UNCHANGED <<vars, stop, content, sent>>

\* The free list leads out of the file: AllocatePage throws, the frame is lost.
AllocateThrows(c) ==
    /\ PoolExists
    /\ At(c, "exec", {"ALLOCATE"})
    /\ ~FreeListEmpty(disk)
    /\ ~LinkReadable(disk)
    /\ \E f \in Obtainable :
        /\ pages_' = IF free_list_ = <<>> THEN [pages_ EXCEPT ![f].is_dirty_ = FALSE]
                                          ELSE pages_
        /\ page_table_' = EvictTable(f)
        /\ evictable' = evictable \ {f}
        /\ disk' = EvictDisk(f)
    /\ free_list_' = RestOfFreeList
    /\ Fails(c)
    /\ UNCHANGED <<handle, live, freeChain, stop, content, sent>>

\* The history of the free list takes a page at most once, and not if rejected.
Deallocates(c) ==
    /\ PoolExists
    /\ At(c, "exec", {"DEALLOCATE"})
    /\ LET p == thread[c].page IN
        /\ IF p \in PageIds THEN PoolDeleteCached(p) \/ PoolDeleteUncached(p)
                            ELSE UNCHANGED poolVars
        /\ live' = live \ {p}
        /\ freeChain' = IF DeallocateRejects(disk, p) \/ InChain(freeChain, p) THEN freeChain
                        ELSE Append(freeChain, p)
    /\ Answer(c)
    /\ UNCHANGED <<handle, stop, content, allowed, sent>>

DeallocateRefused(c) ==
    /\ PoolExists
    /\ At(c, "exec", {"DEALLOCATE"})
    /\ LET p == thread[c].page
       IN  InTable(p) /\ pages_[page_table_[p]].pin_count_ > 0
    /\ Fails(c)
    /\ UNCHANGED <<vars, stop, content, sent>>

\* Faulty variant: the catch block sends nothing and does not go on.
Reply_OnlySuccess(c) ==
    /\ thread[c].pc = "reply"
    /\ NextTurn(c) \/ Leave(c)
    /\ allowed' = [allowed EXCEPT ![c] = {}]
    /\ UNCHANGED <<vars, stop, content, sent>>

\* SUCCESS to a client that is there, SUCCESS to one that left, ERROR.
Reply(c) ==
    /\ \/ thread[c].pc \in {"reply", "error"} /\ NextTurn(c)
       \/ thread[c].pc = "reply" /\ Leave(c)
    /\ allowed' = [allowed EXCEPT ![c] = {}]
    /\ UNCHANGED <<vars, stop, content, sent>>

\* A handler that reaches for the pool or its pages after Stop freed them.
TouchesFreedPool(c) ==
    /\ ~PoolExists
    /\ thread[c].pc \in {"exec", "use", "copy", "unpin", "drop"}
    /\ Goto(c, "crashed")
    /\ UNCHANGED <<vars, stop, content, allowed, sent>>

\* What a handler does by itself, and what it does when its client lets it:
\* Socket::Send waits, without a timeout, for a client that does not read.
Works(c) ==
    \/ FetchPins(c) \/ FetchGivesNull(c) \/ FetchThrows(c)
    \/ CopyBegins(c) \/ CopyEnds(c) \/ Unpin(c)
    \/ AllocatePins(c) \/ AllocateGivesNull(c) \/ AllocateThrows(c)
    \/ Deallocates(c) \/ DeallocateRefused(c)
    \/ TouchesFreedPool(c)

Sends(c) == ReadSend(c) \/ Reply(c)

-----------------------------------------------------------------------------
(***************************************************************************)
(* Stop: the flag, FlushAllPages, the pool's destructor (which flushes     *)
(* again), the DiskManager's Close.                                        *)
(***************************************************************************)
StopSignals ==
    /\ stop = "running"
    /\ QuietStop => \A c \in Callers : ~Busy(c)
    /\ stop' = "signalled"
    /\ UNCHANGED <<vars, thread, content, allowed, sent>>

StopFlushes ==
    /\ \/ stop = "signalled" /\ stop' = "flushed"
       \/ stop = "flushed" /\ stop' = "reset"
    /\ FlushAllPages
    /\ UNCHANGED <<thread, content, allowed, sent>>

StopCloses ==
    /\ stop = "reset"
    /\ stop' = "closed"
    /\ UNCHANGED <<vars, thread, content, allowed, sent>>

Stop == StopSignals \/ StopFlushes \/ StopCloses

ServiceNext ==
    \/ \E c \in Callers : Accept(c) \/ Disconnect(c) \/ Works(c) \/ Sends(c)
    \/ \E c \in Callers, op \in Ops, p \in Word, w \in Payloads \union {Blank} :
        Request(c, op, p, w)
    \/ Stop

\* A handler thread that can run is scheduled again and again.  Of clients nothing
\* is assumed, but for the Readers, whose handlers' sends come to an end.
ServiceSpec ==
    /\ ServiceInit
    /\ [][ServiceNext]_allVars
    /\ \A c \in Callers : WF_allVars(Works(c))
    /\ \A c \in Readers : WF_allVars(Sends(c))

-----------------------------------------------------------------------------
\* Every request of a client that reads its answers is answered or its connection
\* closed (or the process dies in Stop's hands), whatever the other clients send
\* and whether or not they read: no handler waits for another one for ever.
RequestsAnswered == \A c \in Readers : Busy(c) ~> ~Busy(c)

\* A READ answers what the last WRITE of its page left, or what a WRITE it overlaps
\* leaves or shows half-way; a WRITE leaves its payload, or a mixture if it
\* overlapped another.
ReadsRegular ==
    \A c \in Callers :
        At(c, "unpin", {"READ"}) \/ At(c, "drop", {"READ"})
            => thread[c].value \in allowed[c]

\* After an orderly Stop the file holds every page as the last WRITE left it: its
\* payload, unless it overlapped another WRITE of the page.
StopPersists ==
    stop \in {"reset", "closed"} => \A p \in live : ReadPage(disk, p) \in content[p]

\* The handlers of exclusive clients keep the pool's contract: whatever is
\* proved of BufferPool's behaviours holds of the service.
KeepsPoolContract == Spec

\* Whatever clients send, the page table never names a frame that holds
\* another page, and no frame is at once free and in use.
TableConsistent ==
    /\ ServiceTypeOK
    /\ \A p \in PageIds : Cached(p) => pages_[page_table_[p]].page_id_ = p
    /\ \A f \in Frames : InFreeList(f) =>
        ~Mapped(f) /\ f \notin evictable /\ pages_[f].pin_count_ = 0

\* Phase2_BufferPoolManager.md on pin_count_: the number of threads that are
\* using the page.
PinCountIsUsers == \A f \in Frames : pages_[f].pin_count_ = Cardinality(Holders(f))

\* storage_service.hpp on Stop: it closes all connections, so that no handler
\* is left to use the pool it frees.
NoUseAfterStop == \A c \in Callers : thread[c].pc # "crashed"
=============================================================================
