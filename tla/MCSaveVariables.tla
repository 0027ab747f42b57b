-------------------------- MODULE MCSaveVariables ---------------------------
(* SaveVariables for TLC. *)
EXTENDS SaveVariables, TLC

Symmetry == Permutations(Names) \cup Permutations(Inodes)
=============================================================================
