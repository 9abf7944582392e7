--------------------------- MODULE MCKeyRotation ---------------------------
(* KeyRotation on small instances.                                         *)
EXTENDS KeyRotation, TLC

Symmetry ==
  Permutations(Sessions) \cup Permutations(Rotators) \cup Permutations(Refs)

=============================================================================
