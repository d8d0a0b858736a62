--------------------------- MODULE MCSensorConfig ---------------------------
(* A small instance of SensorConfig.                                       *)
EXTENDS SensorConfig

CONSTANTS p1, p2
=============================================================================
