---------------------------- MODULE MCJournalLog ----------------------------
(* JournalLog on small instances.                                          *)
EXTENDS JournalLog, TLC

CONSTANTS r1, r2, c1, c2

\* Resources are not told apart, nor are the operators' processes.
Symmetry == Permutations(Refs) \cup Permutations(Clis)

=============================================================================
