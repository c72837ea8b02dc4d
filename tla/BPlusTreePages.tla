--------------------------- MODULE BPlusTreePages ---------------------------
(***************************************************************************)
(* b_plus_tree_page.hpp, b_plus_tree_leaf_page.hpp and                     *)
(* b_plus_tree_internal_page.hpp as values: what each method makes of a    *)
(* page.  Sequences count from 1.  An internal page of size n has the      *)
(* children values_[0 .. n-1] and the separators keys_[1 .. n-1]; keys_[0] *)
(* is never read as a separator and is left out, so keys[i] here is        *)
(* keys_[i] there and children[i] is values_[i - 1].                       *)
(***************************************************************************)
EXTENDS Integers, Sequences, SequencesExt

CONSTANTS
    LeafMax,           \* max_size of a leaf: 253
    InternalMax,       \* max_size of an internal page: 338
    INVALID_PAGE_ID

\* With less than four children an internal page could be left with one child
\* and no sibling to merge it with.
ASSUME OrderAssumption ==
    /\ LeafMax \in Nat /\ LeafMax >= 2
    /\ InternalMax \in Nat /\ InternalMax >= 4

LeafPage(parent, next, entries) ==
    [leaf |-> TRUE, parent |-> parent, next |-> next, entries |-> entries]

InternalPage(parent, keys, children) ==
    [leaf |-> FALSE, parent |-> parent, keys |-> keys, children |-> children]

IsRootPage(n) == n.parent = INVALID_PAGE_ID

GetSize(n) == IF n.leaf THEN Len(n.entries) ELSE Len(n.children)
GetMaxSize(n) == IF n.leaf THEN LeafMax ELSE InternalMax
MinSize(n) == GetMaxSize(n) \div 2

Overflows(n) == GetSize(n) > GetMaxSize(n)

-----------------------------------------------------------------------------
\* The binary search both kinds of pages use: where the entries that come
\* before the wanted one end.
Bisect(before, low, high) ==
    LET search[w \in (low .. high + 1) \X (low - 1 .. high)] ==
            LET l == w[1]
                h == w[2]
                mid == l + (h - l) \div 2
            IN  IF l > h THEN l
                ELSE IF before[mid] THEN search[<<mid + 1, h>>]
                ELSE search[<<l, mid - 1>>]
    IN  search[<<low, high>>]

KeyIndex(n, key) ==
    Bisect([i \in DOMAIN n.entries |-> n.entries[i].key < key], 1, Len(n.entries))

HasKey(n, key) ==
    LET i == KeyIndex(n, key)
    IN  i <= Len(n.entries) /\ n.entries[i].key = key

RidAt(n, key) == n.entries[KeyIndex(n, key)].rid

LeafInsert(n, e) == [n EXCEPT !.entries = InsertAt(@, KeyIndex(n, e.key), e)]

LeafRemove(n, key) == [n EXCEPT !.entries = RemoveAt(@, KeyIndex(n, key))]

\* Faulty variant: < taken for <=, a key equal to the separator goes left.
ChildFor_Left(n, key) ==
    n.children[Bisect([i \in DOMAIN n.keys |-> n.keys[i] < key], 1, Len(n.keys))]

\* BPlusTreeInternalPage::Lookup
ChildFor(n, key) ==
    n.children[Bisect([i \in DOMAIN n.keys |-> n.keys[i] <= key], 1, Len(n.keys))]

ChildIndex(n, child) == SelectInSeq(n.children, LAMBDA c : c = child)

InsertNodeAfter(n, old, key, new) ==
    LET i == ChildIndex(n, old)
    IN  [n EXCEPT !.keys = InsertAt(@, i, key), !.children = InsertAt(@, i + 1, new)]

\* The separator keys[i] and the child to its right.
RemoveSeparator(n, i) ==
    [n EXCEPT !.keys = RemoveAt(@, i), !.children = RemoveAt(@, i + 1)]

-----------------------------------------------------------------------------
\* MoveHalfTo: how many of n entries or children stay.
StayOf(n) == n - n \div 2

StayingHalf(n) ==
    IF n.leaf
    THEN [n EXCEPT !.entries = SubSeq(@, 1, StayOf(Len(@)))]
    ELSE LET m == StayOf(Len(n.children))
         IN  [n EXCEPT !.keys = SubSeq(@, 1, m - 1), !.children = SubSeq(@, 1, m)]

MovingHalf(n) ==
    IF n.leaf
    THEN [n EXCEPT !.entries = SubSeq(@, StayOf(Len(@)) + 1, Len(@))]
    ELSE LET m == StayOf(Len(n.children))
         IN  [n EXCEPT !.keys = SubSeq(@, m + 1, Len(@)),
                       !.children = SubSeq(@, m + 1, Len(@))]

\* KeyAt(0) of the moved half: a leaf keeps it, an internal page gives it up.
SplitKey(n) ==
    IF n.leaf THEN n.entries[StayOf(Len(n.entries)) + 1].key
    ELSE n.keys[StayOf(Len(n.children))]

\* MoveLastToFrontOf and MoveFirstToEndOf: the giver after the move, the taker
\* after it (parent_key comes down into an internal page), and the key that
\* separates the two from then on.
GiveLast(n) ==
    IF n.leaf THEN [n EXCEPT !.entries = Front(@)]
    ELSE [n EXCEPT !.keys = Front(@), !.children = Front(@)]

TakeLastOf(n, left, parent_key) ==
    IF n.leaf THEN LeafInsert(n, Last(left.entries))
    ELSE [n EXCEPT !.keys = <<parent_key>> \o @,
                   !.children = <<Last(left.children)>> \o @]

KeyAfterTakingLast(left) ==
    IF left.leaf THEN Last(left.entries).key ELSE Last(left.keys)

GiveFirst(n) ==
    IF n.leaf THEN [n EXCEPT !.entries = Tail(@)]
    ELSE [n EXCEPT !.keys = Tail(@), !.children = Tail(@)]

TakeFirstOf(n, right, parent_key) ==
    IF n.leaf THEN LeafInsert(n, Head(right.entries))
    ELSE [n EXCEPT !.keys = Append(@, parent_key),
                   !.children = Append(@, Head(right.children))]

KeyAfterTakingFirst(right) ==
    IF right.leaf THEN right.entries[2].key ELSE Head(right.keys)

\* Faulty variant: the leaf chain still leads to the emptied leaf.
NextAfterMerge_Kept(left, right) == left.next

NextAfterMerge(left, right) == right.next

\* MoveAllTo
TakeAllOf(left, right, parent_key) ==
    IF left.leaf
    THEN [left EXCEPT !.entries = @ \o right.entries,
                      !.next = NextAfterMerge(left, right)]
    ELSE [left EXCEPT !.keys = Append(@, parent_key) \o right.keys,
                      !.children = @ \o right.children]

Emptied(n) ==
    IF n.leaf THEN [n EXCEPT !.entries = <<>>]
    ELSE [n EXCEPT !.keys = <<>>, !.children = <<>>]

-----------------------------------------------------------------------------
(***************************************************************************)
(* What the properties of the tree ask of a page.                          *)
(***************************************************************************)
InKeyOrder(entries) ==
    \A i, j \in DOMAIN entries : i < j => entries[i].key < entries[j].key

\* The keys in S, found beneath the child i, keep to the separators beside it.
Bounds(keys, i, S) ==
    \A k \in S :
        /\ i > 1 => keys[i - 1] <= k
        /\ i <= Len(keys) => k < keys[i]
=============================================================================
