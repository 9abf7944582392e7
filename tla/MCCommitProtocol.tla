-------------------------- MODULE MCCommitProtocol --------------------------
(* CommitProtocol on small instances.                                      *)
EXTENDS CommitProtocol, TLC

CONSTANTS c1, c2, r1, r2

\* Neither the CLIs nor the resources are told apart.
Symmetry == Permutations(Clis) \cup Permutations(Refs)

=============================================================================
