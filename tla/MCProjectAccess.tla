---------------------------- MODULE MCProjectAccess ----------------------------
(* Small instances of ProjectAccess.                                       *)
EXTENDS ProjectAccess, TLC

CONSTANTS w1, w2, u1, u2, g1, g2, p1

C(g, role) == [group |-> g, role |-> role]

\* No group; admin of one; several paths of it, where the admin's does not count, and
\* the other group by its bare name.
MCTokens == {<<>>, <<C(g1, "admin")>>,
             <<C(g1, "viewer"), C(g1, "editor"), C(g1, "admin"), C(g2, "flat")>>}

MCEndAlike == {<<g1, g2>>, <<g2, g1>>}
\* Workers are alike.
MCWorkers == Permutations(Workers)
=============================================================================
