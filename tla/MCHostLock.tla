----------------------------- MODULE MCHostLock -----------------------------
(* HostLock on small instances.                                            *)
EXTENDS HostLock, TLC

CONSTANTS p1, p2, q1, o1, o2

\* Processes of one build are not told apart, nor are the objects.
Symmetry == Permutations(Procs) \cup Permutations(OldProcs) \cup Permutations(Objs)

=============================================================================
