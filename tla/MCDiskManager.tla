--------------------------- MODULE MCDiskManager ---------------------------
(***************************************************************************)
(* DiskManager with callers that write the pages they own, never page 0.   *)
(***************************************************************************)
EXTENDS DiskManager

DataPages == PageIds \ {0}
=============================================================================
