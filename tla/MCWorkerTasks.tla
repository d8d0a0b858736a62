---------------------------- MODULE MCWorkerTasks ----------------------------
(* A small instance of WorkerTasks.                                        *)
EXTENDS WorkerTasks

CONSTANTS w1, w2, s1, s2, i1

Fast  == [shape |-> "list", intervals |-> {0, 2}]
Other == [shape |-> "other", intervals |-> {}]

MCConfigs == {Fast, Other}
=============================================================================
