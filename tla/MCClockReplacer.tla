-------------------------- MODULE MCClockReplacer --------------------------
(***************************************************************************)
(* ClockReplacer with a handful of frames.                                  *)
(***************************************************************************)
EXTENDS ClockReplacer
=============================================================================
