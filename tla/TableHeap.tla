----------------------------- MODULE TableHeap -----------------------------
(***************************************************************************)
(* services/storage/include/storage/table_heap.hpp: a table's tuples in a  *)
(* chain of slotted pages.  The pool underneath is taken as PageStore      *)
(* promises: a page keeps what was written to it, a new page is one nobody *)
(* uses, and FetchPage or NewPage may return nullptr, after which the heap *)
(* returns false having changed nothing.  The heap takes no latch and the  *)
(* code uses it from one thread, so an operation is one action.            *)
(***************************************************************************)
EXTENDS TablePage

CONSTANT HeapPages     \* page ids NewPage may hand to this heap

NoTuple == "none"

\* NewPage hands out no page under the id that ends a chain, and the absence
\* of a tuple is told from every tuple.
ASSUME HeapAssumption == INVALID_PAGE_ID \notin HeapPages /\ NoTuple \notin Tuples

VARIABLES
    heap,              \* page id -> table page, for the pages of this heap
    first_page_id_,
    chain,             \* history: pages in the order they were linked
    table              \* history: RID -> the tuple its caller was told is there

heapVars == <<heap, first_page_id_, chain, table>>

\* RIDs count slots from 1 here, from 0 in the code.
Rids == HeapPages \X (1 .. MaxSlots)

PageType ==
    [page_id_ : HeapPages,
     slots_ : Seq([offset : 0 .. PAGE_SIZE, length : 0 .. PAGE_SIZE]),
     free_space_pointer_ : 0 .. PAGE_SIZE,
     prev_page_id_ : HeapPages \union {INVALID_PAGE_ID},
     next_page_id_ : HeapPages \union {INVALID_PAGE_ID},
     bytes : [0 .. (PAGE_SIZE - 1) -> {Unwritten} \union (Tuples \X Nat)]]

\* Every page of the heap carries its own id; RIDs are what callers hold.
TypeOK ==
    /\ DOMAIN heap \subseteq HeapPages
    /\ \A p \in DOMAIN heap : heap[p] \in PageType /\ heap[p].page_id_ = p
    /\ first_page_id_ \in DOMAIN heap
    /\ chain \in Seq(HeapPages)
    /\ table \in [Rids -> Tuples \union {NoTuple}]

\* The constructor that allocates the first page.
Init ==
    \E p \in HeapPages :
        /\ heap = [q \in {p} |-> EmptyPage(p, INVALID_PAGE_ID)]
        /\ first_page_id_ = p
        /\ chain = <<p>>
        /\ table = [r \in Rids |-> NoTuple]

-----------------------------------------------------------------------------
\* The page reached from the first after n links.
Walk ==
    LET at[n \in 0 .. Len(chain)] ==
            IF n = 0 THEN first_page_id_
            ELSE IF at[n - 1] \in DOMAIN heap THEN heap[at[n - 1]].next_page_id_
            ELSE INVALID_PAGE_ID
    IN  at

Visited == {n \in DOMAIN Walk : Walk[n] \in DOMAIN heap}

\* The walk stops at the first page with room.
InsertHere(n, t) ==
    /\ n \in Visited
    /\ InsertFits(heap[Walk[n]], t)
    /\ \A m \in Visited : m < n => ~InsertFits(heap[Walk[m]], t)

InsertTupleHere(t) ==
    \E n \in 0 .. Len(chain) :
        /\ InsertHere(n, t)
        /\ LET p == Walk[n]
               slot == TargetSlot(heap[p])
           IN  /\ heap' = [heap EXCEPT ![p] = InsertTuple(@, t)]
               /\ table' = [table EXCEPT ![<<p, slot>>] = t]
    /\ UNCHANGED <<first_page_id_, chain>>

\* No page has room: a new page is linked behind the last one.  The result of
\* inserting into it is ignored: when even an empty page has no room for t, no
\* slot is written, slot_num was never initialised and the caller is told true.
InsertTupleAppends(t) ==
    /\ \A n \in Visited : ~InsertFits(heap[Walk[n]], t)
    /\ \E p \in HeapPages \ DOMAIN heap, n \in Visited, slot \in 1 .. MaxSlots :
        /\ heap[Walk[n]].next_page_id_ = INVALID_PAGE_ID
        /\ LET new == EmptyPage(p, Walk[n])
               kept == [heap EXCEPT ![Walk[n]].next_page_id_ = p]
           IN  IF InsertFits(new, t)
               THEN /\ slot = TargetSlot(new)
                    /\ heap' = [q \in DOMAIN heap \union {p} |->
                                  IF q = p THEN InsertTuple(new, t) ELSE kept[q]]
               ELSE heap' = [q \in DOMAIN heap \union {p} |->
                               IF q = p THEN new ELSE kept[q]]
        /\ table' = [table EXCEPT ![<<p, slot>>] = t]
        /\ chain' = Append(chain, p)
    /\ UNCHANGED first_page_id_

\* The tuples that could be read there: one, or none for false.
HeapGetTuple(r) ==
    IF r[1] \in DOMAIN heap THEN GetTuple(heap[r[1]], r[2]) ELSE {}

HeapUpdateTuple(r, t) ==
    /\ r[1] \in DOMAIN heap
    /\ Live(heap[r[1]], r[2])
    /\ UpdateFits(heap[r[1]], r[2], t)
    /\ heap' = [heap EXCEPT ![r[1]] = UpdateTuple(@, r[2], t)]
    /\ table' = [table EXCEPT ![r] = t]
    /\ UNCHANGED <<first_page_id_, chain>>

HeapDeleteTuple(r) ==
    /\ r[1] \in DOMAIN heap
    /\ Live(heap[r[1]], r[2])
    /\ heap' = [heap EXCEPT ![r[1]] = DeleteTuple(@, r[2])]
    /\ table' = [table EXCEPT ![r] = NoTuple]
    /\ UNCHANGED <<first_page_id_, chain>>

Next ==
    \/ \E t \in Tuples : InsertTupleHere(t) \/ InsertTupleAppends(t)
    \/ \E r \in Rids, t \in Tuples : HeapUpdateTuple(r, t)
    \/ \E r \in Rids : HeapDeleteTuple(r)

Spec == Init /\ [][Next]_heapVars

-----------------------------------------------------------------------------
(***************************************************************************)
(* Properties.                                                             *)
(***************************************************************************)
\* InsertTuple, UpdateTuple and DeleteTuple keep every page's slots below its
\* tuples and its live tuples apart, at any fill level.
LayoutSound == TypeOK /\ \A p \in DOMAIN heap : LayoutSoundOf(heap[p])

\* However slots are reused and tuples relocated, the slots in use never
\* outnumber the array slots_ was declared with.
SlotArrayFits == \A p \in DOMAIN heap : Len(heap[p].slots_) <= MaxSlots

\* A tuple no page can hold.
Oversize(t) == HeaderSize + SlotSize + LengthOf[t] > PAGE_SIZE

\* GetTuple of a RID returns the tuple last inserted or updated under it, and
\* of a deleted RID nothing, whatever was done to other RIDs meanwhile.  A tuple no
\* page can hold is the exception: InsertTuple reports success and stores nothing.
RowsReadBack ==
    \A r \in Rids :
        HeapGetTuple(r) =
            IF table[r] = NoTuple \/ Oversize(table[r]) THEN {} ELSE {table[r]}

\* The links from the first page reach every page of the heap exactly once,
\* in the order they were added, and the back links agree.
ChainSound ==
    /\ Len(chain) >= 1 /\ chain[1] = first_page_id_
    /\ DOMAIN heap = {chain[i] : i \in DOMAIN chain}
    /\ \A i \in DOMAIN chain :
        LET pg == heap[chain[i]] IN
        /\ pg.next_page_id_ = IF i = Len(chain) THEN INVALID_PAGE_ID ELSE chain[i + 1]
        /\ pg.prev_page_id_ = IF i = 1 THEN INVALID_PAGE_ID ELSE chain[i - 1]
    /\ \A i, j \in DOMAIN chain : chain[i] = chain[j] => i = j
=============================================================================
