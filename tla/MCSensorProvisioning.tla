------------------------- MODULE MCSensorProvisioning -------------------------
(* A small instance of SensorProvisioning.                                  *)
EXTENDS SensorProvisioning

CONSTANTS w1, w2, p1, t1, s1, s2
=============================================================================
