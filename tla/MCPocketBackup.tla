--------------------------- MODULE MCPocketBackup ---------------------------
(* Small instances of PocketBackup for TLC. *)
EXTENDS PocketBackup, TLC

CONSTANTS c1, c2

(* Commands are interchangeable. *)
Symmetric == Permutations(Commands)
=============================================================================
