---------------------------- MODULE MCBPlusTree ----------------------------
(***************************************************************************)
(* Small orders and few keys; each key has an RID of its own, and callers  *)
(* also try to insert the first one with another.                          *)
(*                                                                         *)
(* TreeView tells states apart by the pages in the order of the tree: page *)
(* ids are only ever compared for equality, so states that differ in them  *)
(* alone behave alike, and so do states that differ in pages to which      *)
(* nothing leads and nobody has a pin; of these it keeps the entries.      *)
(* found follows from the pages, and answer is read by no operation.       *)
(***************************************************************************)
EXTENDS BPlusTree

CONSTANT Largest

MCEntries == {[key |-> k, rid |-> k] : k \in 1 .. Largest} \union {[key |-> 1, rid |-> 0]}

RECURSIVE InOrder(_, _)
InOrder(t, p) ==
    IF p \notin DOMAIN t.node THEN <<>>
    ELSE IF t.node[p].leaf THEN <<p>>
    ELSE <<p>> \o FlattenSeq([i \in DOMAIN t.node[p].children |->
                                InOrder(t, t.node[p].children[i])])

\* The pages that some link of the pages in S leads to, and so on.
Links(n) == IF n.leaf THEN {n.next} ELSE ToSet(n.children)

RECURSIVE Reachable(_, _)
Reachable(t, S) ==
    LET more == S \union UNION {Links(t.node[p]) \intersect DOMAIN t.node : p \in S}
    IN  IF more = S THEN S ELSE Reachable(t, more)

PageOrder(t) ==
    LET inTree == InOrder(t, t.root)
        linked == Reachable(t, ToSet(inTree))
        beside == {p \in DOMAIN t.node \ ToSet(inTree) : p \in linked \/ p \in DOMAIN t.pins}
    IN  inTree \o SetToSortSeq(beside, <)

TreeView ==
    LET order == PageOrder(tree)
        Place(p) == SelectInSeq(order, LAMBDA q : q = p)
        Placed(n) ==
            IF n.leaf THEN <<Place(n.parent), Place(n.next), n.entries>>
            ELSE <<Place(n.parent), n.keys, [i \in DOMAIN n.children |-> Place(n.children[i])]>>
    IN  <<Place(tree.root), tree.status, Cardinality(DOMAIN tree.pins),
          [i \in DOMAIN order |-> Placed(tree.node[order[i]])],
          [i \in DOMAIN order |-> IF order[i] \in DOMAIN tree.pins
                                  THEN tree.pins[order[i]] ELSE 0],
          UNION {ToSet(tree.node[p].entries) :
                    p \in {q \in DOMAIN tree.node \ ToSet(order) : tree.node[q].leaf}}>>
=============================================================================
