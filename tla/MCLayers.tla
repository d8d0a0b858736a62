------------------------------ MODULE MCLayers ------------------------------
(* A small instance of Layers.                                             *)
EXTENDS Layers

CONSTANTS p1, p2, n1, j1, j2
=============================================================================
