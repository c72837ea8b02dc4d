----------------------------- MODULE BPlusTree -----------------------------
(***************************************************************************)
(* services/storage/src/b_plus_tree.cpp.  The tree takes no latch and its  *)
(* callers use it from one thread, so an operation is one action; every    *)
(* FetchPage, NewPage, UnpinPage and DeletePage on its way is followed.    *)
(* Others hold some number of frames, the same from the start of an        *)
(* operation to its end, so that it may find the pool full at whatever     *)
(* depth its own pins reach.  The pool is taken as BufferPool is proved to *)
(* behave: a page that is pinned is found, any other page gets a frame if  *)
(* one is not pinned, DeletePage refuses a pinned page.                    *)
(*                                                                         *)
(* Page ids are names to this code, so NewPage gives any that is not in    *)
(* use.  A page whose DeletePage was refused stays allocated for ever.     *)
(***************************************************************************)
EXTENDS BPlusTreePages, FiniteSets, Functions, BagsExt, TLC

CONSTANTS
    Entries,           \* the [key, rid] pairs callers insert
    Frames,            \* frames of the pool
    Busy,              \* how many of them others may hold during an operation
    MaxStuck           \* bound: pages whose pin was never given back

VARIABLES
    tree,              \* root, pages, pins, and how the operations went
    answer,            \* the last operation and what it returned
    found              \* history: key -> RID, as GetValue would find them now

treeVars == <<tree, answer, found>>

ASSUME TreeAssumption ==
    /\ \A e \in Entries : DOMAIN e = {"key", "rid"} /\ e.key \in Int
    /\ Frames \in Nat /\ Busy \subseteq 0 .. Frames /\ MaxStuck \in Nat

Keys == {e.key : e \in Entries}

\* busy is how many frames others hold during the operation, or held during the
\* last one.  status says how the last operation went: "refused" if the pool had no
\* page for a root or a split and the tree stands as it was, with at most one entry
\* or child too many in a page; "starved" if it got nullptr and left a part of its
\* work undone, "crashed" if it used that nullptr as a page, "overrun" if it wrote
\* behind the arrays of a page.
NewTree ==
    [root |-> INVALID_PAGE_ID, node |-> << >>, pins |-> << >>, busy |-> 0,
     status |-> "ok"]

NoCall == [call |-> "none", key |-> 0, rids |-> <<>>, ok |-> FALSE]

TreeInit == tree = NewTree /\ answer = NoCall /\ found = << >>

-----------------------------------------------------------------------------
\* The pool.
\* Faulty variant: the last frame is never given out.
Room_Short(t) == Cardinality(DOMAIN t.pins) + t.busy + 1 < Frames

Room(t) == Cardinality(DOMAIN t.pins) + t.busy < Frames

CanFetch(t, p) == p \in DOMAIN t.pins \/ Room(t)

Ended(t, how) == [t EXCEPT !.status = how]
Starved(t) == Ended(t, "starved")

Pin(t, p) == [t EXCEPT !.pins = BagAdd(@, p)]

UnpinPage(t, p) == [t EXCEPT !.pins = BagRemove(@, p)]

NewPageId(t) == Max(DOMAIN t.node \union {0}) + 1

\* NewPage and Init: the new page is n, pinned.
NewPage(t, n) == Pin([t EXCEPT !.node = @ @@ (NewPageId(t) :> n)], NewPageId(t))

\* (The empty function has TLC evaluate the restriction at once.)
Freed(t, p) == [t EXCEPT !.node = Restrict(@, DOMAIN @ \ {p}) @@ << >>]

\* Faulty variant: pin_count_ is not looked at.
DeletePage_Pinned(t, p) == Freed(t, p)

\* The callers ignore that a pinned page is refused.
DeletePage(t, p) ==
    IF p \in DOMAIN t.pins THEN t ELSE Freed(t, p)

\* Faulty variant: the children keep their old parent.
SetParents_Stale(t, children, parent) == t

\* The loops that fetch a page's children one after the other, set their
\* parent_page_id_ and unpin them; a child that cannot be fetched is skipped.
SetParents(t, children, parent) ==
    LET got == {c \in children : CanFetch(t, c)}
        set == [t EXCEPT !.node =
                  FoldSet(LAMBDA c, node : [node EXCEPT ![c].parent = parent], @, got)]
    IN  IF got = children THEN set ELSE Starved(set)

-----------------------------------------------------------------------------
\* The pages FindLeafPage visits below p, the leaf last.
RECURSIVE PathTo(_, _, _)
PathTo(t, p, key) ==
    IF t.node[p].leaf THEN <<p>>
    ELSE <<p>> \o PathTo(t, ChildFor(t.node[p], key), key)

LeafFor(t, key) == Last(PathTo(t, t.root, key))

\* The leaf is returned pinned.  FetchPage's result is used unchecked.
FindLeafPage(t, key) ==
    IF \A p \in ToSet(PathTo(t, t.root, key)) : CanFetch(t, p)
    THEN Pin(t, LeafFor(t, key))
    ELSE Ended(t, "crashed")

\* The pages Begin() visits, the leftmost leaf last.
RECURSIVE LeftmostPath(_, _)
LeftmostPath(t, p) ==
    IF t.node[p].leaf THEN <<p>>
    ELSE <<p>> \o LeftmostPath(t, t.node[p].children[1])

IsEmpty(t) == t.root = INVALID_PAGE_ID

Result(t, ok) == [tree |-> t, ok |-> ok, rids |-> <<>>]

GetValueIn(t, key) ==
    LET f == FindLeafPage(t, key)
        leaf == LeafFor(t, key)
    IN  IF IsEmpty(t) THEN Result(t, FALSE)
        ELSE IF f.status = "crashed" THEN Result(f, FALSE)
        ELSE IF ~HasKey(t.node[leaf], key) THEN Result(UnpinPage(f, leaf), FALSE)
        ELSE [Result(UnpinPage(f, leaf), TRUE) EXCEPT !.rids = <<RidAt(t.node[leaf], key)>>]

\* A page whose split was refused before: its arrays are full, and the next entry
\* goes behind them, over whatever is there.
ArraysFull(n) == Overflows(n)

\* old was split, new is its right half, both are pinned.
RECURSIVE InsertIntoParent(_, _, _, _)
InsertIntoParent(t, old, key, new) ==
    LET p == t.node[old].parent
    IN  IF IsRootPage(t.node[old])
        THEN LET r == NewPageId(t)
                 up == NewPage(t, InternalPage(INVALID_PAGE_ID, <<key>>, <<old, new>>))
             IN  IF ~Room(t) THEN Starved(t)
                 ELSE UnpinPage([up EXCEPT !.node[old].parent = r,
                                           !.node[new].parent = r,
                                           !.root = r], r)
        ELSE IF ~CanFetch(t, p) THEN Starved(t)
        ELSE IF ArraysFull(t.node[p]) THEN Ended(t, "overrun")
        ELSE LET linked == [Pin(t, p) EXCEPT
                              !.node[p] = InsertNodeAfter(@, old, key, new),
                              !.node[new].parent = p]
                 full == linked.node[p]
             IN  IF ~Overflows(full) THEN UnpinPage(linked, p)
                 ELSE IF ~Room(linked) THEN Ended(UnpinPage(linked, p), "refused")
                 ELSE LET q == NewPageId(linked)
                          split == [NewPage(linked, MovingHalf(full)) EXCEPT
                                      !.node[p] = StayingHalf(full)]
                          moved == SetParents(split, ToSet(split.node[q].children), q)
                      IN  UnpinPage(UnpinPage(
                            InsertIntoParent(moved, p, SplitKey(full), q), p), q)

\* Faulty variant: the old leaf is not linked to the new one.
LinkLeaf_Missing(leaf, new) == leaf

LinkLeaf(leaf, new) == [leaf EXCEPT !.next = new]

\* Insert once the leaf is pinned and lacks the key.
InsertIntoLeaf(t, leaf, e) ==
    LET full == LeafInsert(t.node[leaf], e)
        put == [t EXCEPT !.node[leaf] = full]
        new == NewPageId(t)
        split == [NewPage(put, MovingHalf(full)) EXCEPT
                    !.node[leaf] = LinkLeaf(StayingHalf(full), new)]
    IN  IF ArraysFull(t.node[leaf]) THEN Result(Ended(UnpinPage(t, leaf), "overrun"), FALSE)
        ELSE IF ~Overflows(full) THEN Result(UnpinPage(put, leaf), TRUE)
        ELSE IF ~Room(t) THEN Result(Ended(UnpinPage(put, leaf), "refused"), FALSE)
        ELSE Result(UnpinPage(UnpinPage(
                InsertIntoParent(split, leaf, SplitKey(full), new), leaf), new), TRUE)

InsertInto(t, e) ==
    LET f == FindLeafPage(t, e.key)
        leaf == LeafFor(t, e.key)
        p == NewPageId(t)
    IN  IF IsEmpty(t)
        THEN IF ~Room(t) THEN Result(Ended(t, "refused"), FALSE)
             ELSE Result(UnpinPage([NewPage(t, LeafPage(INVALID_PAGE_ID,
                            INVALID_PAGE_ID, <<e>>)) EXCEPT !.root = p], p), TRUE)
        ELSE IF f.status = "crashed" THEN Result(f, FALSE)
        ELSE IF HasKey(t.node[leaf], e.key) THEN Result(UnpinPage(f, leaf), FALSE)
        ELSE InsertIntoLeaf(f, leaf, e)

-----------------------------------------------------------------------------
\* One entry or child from the sibling s to n; keys[i] of p separates them.  The
\* caller has s pinned meanwhile.
Redistribute(t, n, s, p, i, from_left) ==
    LET node == t.node[n]
        sib == t.node[s]
        down == t.node[p].keys[i]
        moved == IF from_left
                 THEN [Pin(t, s) EXCEPT !.node[n] = TakeLastOf(node, sib, down),
                         !.node[s] = GiveLast(sib),
                         !.node[p].keys[i] = KeyAfterTakingLast(sib)]
                 ELSE [Pin(t, s) EXCEPT !.node[n] = TakeFirstOf(node, sib, down),
                         !.node[s] = GiveFirst(sib),
                         !.node[p].keys[i] = KeyAfterTakingFirst(sib)]
        child == IF from_left THEN Last(sib.children) ELSE Head(sib.children)
    IN  UnpinPage(IF node.leaf THEN moved ELSE SetParents(moved, {child}, n), s)

\* All of right into left; keys[i] of p separates them.
Merge(t, left, right, p, i) ==
    LET merged == TakeAllOf(t.node[left], t.node[right], t.node[p].keys[i])
        moved == [t EXCEPT !.node[left] = merged,
                           !.node[right] = Emptied(@),
                           !.node[p] = RemoveSeparator(@, i)]
    IN  IF merged.leaf THEN moved
        ELSE SetParents(moved, ToSet(merged.children), left)

\* A sibling that can be fetched and has an entry or child to spare.
CanLend(t, s) == CanFetch(t, s) /\ GetSize(t.node[s]) > MinSize(t.node[s])

\* n and its left sibling, or its right one if it has none, become one page; p
\* is pinned.  DeletePage succeeds for a sibling, whose pin has been returned,
\* and is refused for n, which the caller still has pinned.
MergeWithSibling(t, n, p) ==
    LET i == ChildIndex(t.node[p], n)
        sib == t.node[p].children[IF i > 1 THEN i - 1 ELSE i + 1]
        left == IF i > 1 THEN sib ELSE n
        right == IF i > 1 THEN n ELSE sib
        merged == Merge(Pin(t, sib), left, right, p, IF i > 1 THEN i - 1 ELSE i)
    IN  IF ~CanFetch(t, sib) THEN Starved(t)
        ELSE DeletePage(UnpinPage(merged, sib), right)

\* A root with one child gives way to it; its own page is still pinned.
CollapseRoot(t) ==
    LET child == t.node[t.root].children[1]
    IN  [DeletePage(SetParents(t, {child}, INVALID_PAGE_ID), t.root)
            EXCEPT !.root = child]

\* n is pinned by the caller.
RECURSIVE HandleUnderflow(_, _)
HandleUnderflow(t, n) ==
    LET p == t.node[n].parent
        h == Pin(t, p)
        kids == t.node[p].children
        i == ChildIndex(t.node[p], n)
        merged == MergeWithSibling(h, n, p)
    IN  IF IsRootPage(t.node[n])
        THEN IF t.node[n].leaf \/ GetSize(t.node[n]) # 1 THEN t ELSE CollapseRoot(t)
        ELSE IF ~CanFetch(t, p) THEN Starved(t)
        ELSE IF i > 1 /\ CanLend(h, kids[i - 1])
        THEN UnpinPage(Redistribute(h, n, kids[i - 1], p, i - 1, TRUE), p)
        ELSE IF i < Len(kids) /\ CanLend(h, kids[i + 1])
        THEN UnpinPage(Redistribute(h, n, kids[i + 1], p, i, FALSE), p)
        ELSE IF GetSize(merged.node[p]) < MinSize(merged.node[p])
        THEN UnpinPage(HandleUnderflow(merged, p), p)
        ELSE UnpinPage(merged, p)

\* The last entry of a root leaf: the page is still pinned, so DeletePage refuses
\* it, and nobody unpins it after.
RemoveRoot(t) == [DeletePage(t, t.root) EXCEPT !.root = INVALID_PAGE_ID]

DeleteFrom(t, key) ==
    LET f == FindLeafPage(t, key)
        leaf == LeafFor(t, key)
        cut == [f EXCEPT !.node[leaf] = LeafRemove(@, key)]
        rest == cut.node[leaf]
    IN  IF IsEmpty(t) THEN Result(t, FALSE)
        ELSE IF f.status = "crashed" THEN Result(f, FALSE)
        ELSE IF ~HasKey(t.node[leaf], key) THEN Result(UnpinPage(f, leaf), FALSE)
        ELSE IF IsRootPage(rest) /\ GetSize(rest) = 0 THEN Result(RemoveRoot(cut), TRUE)
        ELSE IF IsRootPage(rest) \/ GetSize(rest) >= MinSize(rest)
        THEN Result(UnpinPage(cut, leaf), TRUE)
        ELSE Result(UnpinPage(HandleUnderflow(cut, leaf), leaf), TRUE)

-----------------------------------------------------------------------------
RECURSIVE PagesUnder(_, _)
PagesUnder(t, p) ==
    IF t.node[p].leaf THEN {p}
    ELSE {p} \union UNION {PagesUnder(t, c) : c \in ToSet(t.node[p].children)}

TreePages(t) == IF IsEmpty(t) THEN {} ELSE PagesUnder(t, t.root)

\* Bounds: a tree that an operation left in pieces, or memory it overwrote, is
\* followed no further, and no root is removed once MaxStuck pages have kept their
\* pin.
Whole == tree.status \in {"ok", "refused"}
MayEmpty(key) ==
    \/ DOMAIN found # {key}
    \/ Cardinality(DOMAIN tree.pins \ TreePages(tree)) < MaxStuck

Lookups(t) ==
    [k \in {j \in Keys : ~IsEmpty(t) /\ HasKey(t.node[LeafFor(t, j)], j)} |->
        RidAt(t.node[LeafFor(t, k)], k)]

Called(b) == [tree EXCEPT !.busy = b, !.status = "ok"]

Returns(call, key, rids, r) ==
    /\ tree' = r.tree
    /\ answer' = [call |-> call, key |-> key, rids |-> rids, ok |-> r.ok]
    /\ found' = Lookups(tree')

Insert(e, b) ==
    Whole /\ Returns("Insert", e.key, <<e.rid>>, InsertInto(Called(b), e))

Delete(key, b) ==
    /\ Whole /\ MayEmpty(key)
    /\ Returns("Delete", key, <<>>, DeleteFrom(Called(b), key))

GetValue(key, b) ==
    Whole /\ LET r == GetValueIn(Called(b), key) IN Returns("GetValue", key, r.rids, r)

TreeNext ==
    \E b \in Busy :
        \/ \E e \in Entries : Insert(e, b)
        \/ \E key \in Keys : Delete(key, b) \/ GetValue(key, b)

TreeSpec == TreeInit /\ [][TreeNext]_treeVars

-----------------------------------------------------------------------------
(***************************************************************************)
(* Properties.                                                             *)
(***************************************************************************)
RECURSIVE HeightOf(_, _)
HeightOf(t, p) ==
    IF t.node[p].leaf THEN 1 ELSE 1 + HeightOf(t, t.node[p].children[1])

Height(t) == IF IsEmpty(t) THEN 0 ELSE HeightOf(t, t.root)

RECURSIVE KeysUnder(_, _)
KeysUnder(t, p) ==
    LET n == t.node[p]
    IN  IF n.leaf THEN {e.key : e \in ToSet(n.entries)}
        ELSE UNION {KeysUnder(t, c) : c \in ToSet(n.children)}

\* The states of the tree: its links and pins lead to pages there are, and a page
\* has at most one entry or child more than max_size.
TypeOK ==
    /\ tree.status \in {"ok", "refused", "starved", "crashed", "overrun"}
    /\ answer.ok \in BOOLEAN
    /\ tree.root \in DOMAIN tree.node \union {INVALID_PAGE_ID}
    /\ DOMAIN tree.pins \subseteq DOMAIN tree.node
    /\ \A p \in DOMAIN tree.node :
        LET n == tree.node[p] IN
        /\ n.leaf => ToSet(n.entries) \subseteq Entries
        /\ GetSize(n) <= GetMaxSize(n) + 1

\* Splits, borrowing, merging and the collapse of the root, in any sequence and
\* also after splits that were refused a page, leave a tree: leaves at one depth,
\* every parent_page_id_ right, every page but the root at least half full,
\* separators that bound the keys beneath them; and no entry is left in a page
\* outside the tree, of which there may be many.
TreeSound ==
    Whole =>
        /\ \A p \in DOMAIN tree.node \ TreePages(tree) :
            tree.node[p].leaf => tree.node[p].entries = <<>>
        /\ \A p \in TreePages(tree) :
            LET n == tree.node[p] IN
            /\ IsRootPage(n) <=> p = tree.root
            /\ p # tree.root => GetSize(n) >= MinSize(n)
            /\ ~n.leaf =>
                /\ Len(n.children) = Len(n.keys) + 1 /\ Len(n.keys) >= 1
                /\ \A i \in DOMAIN n.children :
                    /\ tree.node[n.children[i]].parent = p
                    /\ HeightOf(tree, n.children[i]) = HeightOf(tree, p) - 1
                    /\ Bounds(n.keys, i, KeysUnder(tree, n.children[i]))

\* The entries of the leaves from p on, along next_page_id_.
RECURSIVE Chain(_, _, _)
Chain(t, p, seen) ==
    IF p \notin DOMAIN t.node \ seen THEN <<>>
    ELSE t.node[p].entries \o Chain(t, t.node[p].next, seen \union {p})

\* What an iterator from Begin() shows.
ScanAll(t) ==
    IF IsEmpty(t) THEN <<>> ELSE Chain(t, Last(LeftmostPath(t, t.root)), {})

\* What one shows that stands at place i of the leaf p.
ScanFrom(t, p, i) ==
    SubSeq(t.node[p].entries, i, Len(t.node[p].entries)) \o Chain(t, t.node[p].next, {})

\* An iterator from Begin() meets every key of the index, once and in order, over
\* all splits and merges of leaves; one from Begin(key) those from key on, after
\* what it shows while it stands behind the end of a leaf, as it does at first
\* when the leaf for key has only smaller keys.
ScanMatches ==
    Whole =>
        /\ InKeyOrder(ScanAll(tree))
        /\ {e.key : e \in ToSet(ScanAll(tree))} = DOMAIN found
        /\ ~IsEmpty(tree) =>
            \A k \in Keys :
                LET leaf == LeafFor(tree, k)
                IN  ScanFrom(tree, leaf, KeyIndex(tree.node[leaf], k)) =
                        SelectSeq(ScanAll(tree), LAMBDA e : e.key >= k)

\* The pool had no frame for the last operation when it wanted one.
CutShort == tree.status \in {"refused", "starved", "crashed"}

\* Whatever an operation that found the pool full left undone, the leaf chain
\* stays in order and gains or loses at most the one entry it was about.
StarvedKeepsEntries ==
    [][CutShort' =>
        LET before == ToSet(ScanAll(tree))
            after == ToSet(ScanAll(tree'))
        IN  /\ InKeyOrder(ScanAll(tree'))
            /\ Cardinality((before \ after) \union (after \ before)) <= 1]_treeVars

\* An operation on a tree of height h that finds 2h + 1 frames free never goes
\* short of one: two pages at each level of a split, and a root or a child.
EnoughFrames ==
    [][CutShort' =>
        Frames - tree'.busy - Cardinality(DOMAIN tree.pins) <= 2 * Height(tree)]_treeVars

\* Every Insert, Delete and GetValue that the pool does not cut short and that
\* writes behind no array does to its key, and returns, what the same operation of
\* the ordered map in the tests does.
Map == INSTANCE KeyMap WITH map <- found

ImplementsKeyMap ==
    Map!MapInit /\ [][Map!MapNext \/ tree'.status # "ok"]_treeVars

\* docs/Phase3_BPlusTreeIndex.md on keys_ and values_: a page may grow by one
\* element before it is split, which keeps it from writing behind its arrays.
StaysInArrays == tree.status # "overrun"
=============================================================================
