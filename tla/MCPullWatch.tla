---------------------------- MODULE MCPullWatch ----------------------------
(* Small instances of PullWatch for TLC. *)
EXTENDS PullWatch, TLC

CONSTANTS d1, d2
=============================================================================
