----------------------------- MODULE MCGitStore -----------------------------
(* Small instances of GitStore for TLC. *)
EXTENDS GitStore, TLC

CONSTANTS doc, sys, b1, b2

(* One document and one system file. *)
MCPaths     == {doc, sys}
MCOneDoc    == {doc}
MCTwoDocs   == {doc, sys}
MCDataPaths == {doc}
MCBodies    == {b1}
MCTwoBodies == {b1, b2}

Only(p, f) == [q \in Paths |-> IF q = p THEN f ELSE Absent]
V(n)       == [ver |-> n, body |-> b1]

(* Origin starts with one document at version 1. *)
MCInitTrees == {Only(doc, V(1))}

(* Others edit by hand: a valid envelope or a file that does not parse. *)
MCExternalFiles == {V(2), Garbage}
MCOneEdit       == {V(2)}
=============================================================================
