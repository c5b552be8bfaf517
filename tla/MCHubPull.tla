----------------------------- MODULE MCHubPull -----------------------------
(* Small instances of HubPull for TLC. *)
EXTENDS HubPull, TLC
=============================================================================
