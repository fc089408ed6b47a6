-------------------------- MODULE MCNumberSequence --------------------------
(* NumberSequence on small instances.                                      *)
EXTENDS NumberSequence, TLC

Symmetry == Permutations(Workers)
=============================================================================
