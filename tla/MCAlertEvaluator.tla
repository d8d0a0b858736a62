-------------------------- MODULE MCAlertEvaluator --------------------------
(* Small instances of AlertEvaluator.                                      *)
EXTENDS AlertEvaluator, TLC

CONSTANTS r1, r2, w1, w2, a1, a2

\* The kind that resolves and a kind that does not; the script rule also has
\* alerts without dedup.
QaqcAndScript == r1 :> "qaqc" @@ r2 :> "script"
=============================================================================
