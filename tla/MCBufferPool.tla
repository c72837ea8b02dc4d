---------------------------- MODULE MCBufferPool ----------------------------
(***************************************************************************)
(* BufferPool with three pins over two frames, so that a page is shared,   *)
(* the pool is exhausted and frames are evicted.                           *)
(***************************************************************************)
EXTENDS BufferPool, TLC

CONSTANTS c1, c2, c3

Pins == {c1, c2, c3}
Symmetric == Permutations(Pins)
=============================================================================
