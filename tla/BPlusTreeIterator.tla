------------------------- MODULE BPlusTreeIterator -------------------------
(***************************************************************************)
(* BPlusTreeIterator of services/storage/include/storage/b_plus_tree.hpp:  *)
(* iterators that live across operations on the tree and keep their leaf   *)
(* pinned.  A cursor is a variable of the caller that holds an iterator;   *)
(* `it = tree.Begin()` constructs one and moves it there.                  *)
(*                                                                         *)
(* Nothing in the code looks after an iterator when the tree changes, so   *)
(* callers step and copy it only as long as the tree has not changed since *)
(* it was positioned; they may destroy it, or assign to it, at any time.   *)
(***************************************************************************)
EXTENDS BPlusTree

CONSTANT Cursors

VARIABLE cursor

cursorVars == <<treeVars, cursor>>

\* held: curr_page_ is not nullptr.  fresh: the tree has not changed since.
EndOf(i) == [page |-> INVALID_PAGE_ID, index |-> i, held |-> FALSE, fresh |-> TRUE]
End == EndOf(1)

CursorInit == TreeInit /\ cursor = [c \in Cursors |-> End]

\* The iterator constructors: the page is fetched again, which may fail.
Construct(t, p, i) ==
    IF p = INVALID_PAGE_ID THEN [tree |-> t, it |-> EndOf(i)]
    ELSE [tree |-> IF CanFetch(t, p) THEN Pin(t, p) ELSE t,
          it |-> [page |-> p, index |-> i, held |-> CanFetch(t, p), fresh |-> TRUE]]

\* Faulty variant: the page that was held is never given back.
Release_Never(t, it) == t

\* The destructor, and the first half of both assignments.
Release(t, it) == IF it.held THEN UnpinPage(t, it.page) ELSE t

Settles(t, cs) ==
    /\ tree' = t
    /\ cursor' = cs
    /\ UNCHANGED <<answer, found>>

Crashes == tree' = Ended(tree, "crashed") /\ UNCHANGED <<answer, found, cursor>>

\* c = tree.Begin(...): visited are the pages on the way to the leaf.
Open(c, visited, index, b) ==
    LET t == [tree EXCEPT !.busy = b]
        new == Construct(t, Last(visited), index)
    IN  IF \A p \in ToSet(visited) : CanFetch(t, p)
        THEN Settles(Release(new.tree, cursor[c]), [cursor EXCEPT ![c] = new.it])
        ELSE Crashes

Begin(c, b) ==
    /\ Whole
    /\ IF IsEmpty(tree)
       THEN Settles(Release(tree, cursor[c]), [cursor EXCEPT ![c] = End])
       ELSE Open(c, LeftmostPath(tree, tree.root), 1, b)

\* The index may lie behind the last entry of the leaf.
BeginAt(c, key, b) ==
    /\ Whole /\ ~IsEmpty(tree)
    /\ LET path == PathTo(tree, tree.root, key)
       IN  Open(c, path, KeyIndex(tree.node[Last(path)], key), b)

\* Faulty variant: the first entry of the next leaf is passed over.
FirstIndex_Second == 2

FirstIndex == 1

\* operator++
Advance(c, b) ==
    /\ Whole /\ cursor[c].fresh /\ cursor[c].page # INVALID_PAGE_ID
    /\ LET it == cursor[c]
           leaf == tree.node[it.page]
           left == UnpinPage([tree EXCEPT !.busy = b], it.page)
           new == Construct(left, leaf.next, FirstIndex)
       IN  IF ~it.held THEN Crashes
           ELSE IF it.index + 1 <= GetSize(leaf)
           THEN Settles(tree, [cursor EXCEPT ![c].index = @ + 1])
           ELSE Settles(new.tree, [cursor EXCEPT ![c] = new.it])

\* c = d: d's page is fetched once more.
CopyAssign(c, d, b) ==
    /\ Whole /\ c # d /\ cursor[d].fresh
    /\ LET new == Construct(Release([tree EXCEPT !.busy = b], cursor[c]),
                            cursor[d].page, cursor[d].index)
       IN  Settles(new.tree, [cursor EXCEPT ![c] = new.it])

\* c = std::move(d): c takes d's pin over.
MoveAssign(c, d) ==
    /\ Whole /\ c # d
    /\ Settles(Release(tree, cursor[c]),
               [cursor EXCEPT ![c] = cursor[d], ![d] = EndOf(cursor[d].index)])

Destroy(c) ==
    /\ Whole
    /\ Settles(Release(tree, cursor[c]), [cursor EXCEPT ![c] = End])

\* An operation that changed the tree, as far as the iterators can tell.
Outdates ==
    cursor' = [c \in Cursors |->
        [cursor[c] EXCEPT !.fresh = @ /\ (found' = found \/ cursor[c].page = INVALID_PAGE_ID)]]

CursorNext ==
    \/ TreeNext /\ Outdates
    \/ \E c \in Cursors :
        \/ Destroy(c) \/ \E d \in Cursors : MoveAssign(c, d)
        \/ \E b \in Busy :
            \/ Begin(c, b) \/ \E key \in Keys : BeginAt(c, key, b)
            \/ Advance(c, b) \/ \E d \in Cursors : CopyAssign(c, d, b)

CursorSpec == CursorInit /\ [][CursorNext]_cursorVars

-----------------------------------------------------------------------------
(***************************************************************************)
(* Properties.                                                             *)
(***************************************************************************)
\* Between operations, also after one that got nullptr half-way, a page has one
\* pin for each iterator on it and no other, through copies, moves and the
\* deletion of leaves under iterators.  The one exception is a root leaf that was
\* emptied: Delete keeps its pin for ever.
PinsAccounted ==
    /\ DOMAIN tree.pins \subseteq DOMAIN tree.node
    /\ \A p \in DOMAIN tree.pins :
        LET its == Cardinality({c \in Cursors : cursor[c].held /\ cursor[c].page = p})
        IN  \/ tree.pins[p] = its
            \/ /\ tree.pins[p] = its + 1
               /\ p \notin TreePages(tree)
               /\ tree.node[p] = LeafPage(INVALID_PAGE_ID, INVALID_PAGE_ID, <<>>)
    /\ \A c \in Cursors : cursor[c].held => cursor[c].page \in DOMAIN tree.pins

\* An iterator whose tree has not changed since has the rest of the index before
\* it, however it was reached: by Begin, steps, copies or moves.
CursorsScan ==
    Whole =>
        \A c \in Cursors : cursor[c].fresh /\ cursor[c].held =>
            IsSuffix(ScanFrom(tree, cursor[c].page, cursor[c].index), ScanAll(tree))

\* Each step forward leaves exactly one entry behind, and a step from behind the
\* end of a leaf none.
StepsByOne ==
    [][\A c \in Cursors :
        LET it == cursor[c]
            rest == ScanFrom(tree, it.page, it.index)
            new == cursor'[c]
            left == IF new.page = INVALID_PAGE_ID THEN <<>>
                    ELSE ScanFrom(tree, new.page, new.index)
        IN  (\E b \in Busy : Advance(c, b)) /\ it.held =>
                left = IF it.index > GetSize(tree.node[it.page]) THEN rest ELSE Tail(rest)
      ]_cursorVars
=============================================================================
