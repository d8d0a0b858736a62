----------------------------- MODULE MCSeeding -----------------------------
(* A small instance of Seeding.                                            *)
EXTENDS Seeding

CONSTANTS w1, w2
=============================================================================
