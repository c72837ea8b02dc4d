-------------------------- MODULE MCStorageService --------------------------
(***************************************************************************)
(* StorageService with two connections.                                    *)
(***************************************************************************)
EXTENDS StorageService, TLC

CONSTANTS c1, c2

Connections == {c1, c2}
Symmetric == Permutations(Connections)
=============================================================================
