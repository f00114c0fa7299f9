----------------------------- MODULE MCTypeWalk -----------------------------
(* TypeWalk on every graph of a few types.                                 *)
EXTENDS TypeWalk, TLC

Symmetry == Permutations(Type \ {Root})
=============================================================================
