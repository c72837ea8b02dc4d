-------------------------- MODULE MCLRUReplacer --------------------------
(***************************************************************************)
(* LRUReplacer with a handful of frames.                                  *)
(***************************************************************************)
EXTENDS LRUReplacer
=============================================================================
