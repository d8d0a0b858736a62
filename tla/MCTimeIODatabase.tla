--------------------------- MODULE MCTimeIODatabase ---------------------------
(* Small instances of TimeIODatabase.                                      *)
EXTENDS TimeIODatabase, TLC

CONSTANTS p1, p2, c1, c2, c3, t1, t2
=============================================================================
