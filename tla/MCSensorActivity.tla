--------------------------- MODULE MCSensorActivity ---------------------------
(* Small instances of SensorActivity.                                      *)
EXTENDS SensorActivity, TLC

CONSTANTS t1, t2, n1, n2, w1, w2, d1, d2, a1, a2

OneName  == t1 :> n1
TwoNames == t1 :> n1 @@ t2 :> n2
=============================================================================
