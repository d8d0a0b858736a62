---------------------------- MODULE MCScriptJobs ----------------------------
(* A small instance of ScriptJobs.                                         *)
EXTENDS ScriptJobs

CONSTANTS p1, p2, r1, s1, j1, j2
=============================================================================
