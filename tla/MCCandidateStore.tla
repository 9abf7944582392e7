-------------------------- MODULE MCCandidateStore --------------------------
(* CandidateStore on small instances.                                      *)
EXTENDS CandidateStore, TLC

CONSTANTS a1, a2, b1, A, B, r1, x, y

\* Two sessions for one Orchestrator and one for another.
MCOriginOf == (a1 :> A) @@ (a2 :> A) @@ (b1 :> B)

\* Neither the sessions of one Orchestrator nor the paths are told apart.
Symmetry == Permutations({a1, a2}) \cup Permutations(Paths)

=============================================================================
