--------------------------- MODULE MCQaqcConfigs ---------------------------
(* A small instance of QaqcConfigs.                                        *)
EXTENDS QaqcConfigs, TLC

CONSTANTS p1, p2, j1, l1, l2, t1, q1

SchemaOf == (l1 :> j1) @@ (l2 :> None)
=============================================================================
