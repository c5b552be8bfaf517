--------------------------- MODULE MCChangeStream ---------------------------
(* Small instances of ChangeStream for TLC: the constants are model values *)
(* and sets of them, given in the configurations.                          *)
EXTENDS ChangeStream, TLC

CONSTANTS a, ab, b, c1, c2, p1
=============================================================================
