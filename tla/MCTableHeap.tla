---------------------------- MODULE MCTableHeap ----------------------------
(***************************************************************************)
(* A page scaled down to a header of 1 byte and slots of 2, with room for  *)
(* two slots and 4 bytes of tuples, or one slot and 6; two tuples that fit *)
(* and one that fits no page.                                              *)
(***************************************************************************)
EXTENDS TableHeap, TLC

CONSTANTS p1, p2

MCLengthOf == ("a" :> 1) @@ ("c" :> 2) @@ ("huge" :> 7)

Pages == {p1, p2}
Symmetric == Permutations(Pages)
=============================================================================
