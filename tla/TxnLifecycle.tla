---------------------------- MODULE TxnLifecycle ----------------------------
(***************************************************************************)
(* What the transaction engine promises about the life of each transaction *)
(* journaled for one Orchestrator: at most one of them is in its confirm   *)
(* window at any time, a window ends in exactly one of confirmation and    *)
(* restoration, an outcome never changes, and only finished transactions   *)
(* are forgotten (TxnState in src/src/pyecsdwan/journal.py and the module  *)
(* docstring of txn.py).                                                   *)
(***************************************************************************)
EXTENDS Naturals

CONSTANT Ids   \* transaction ids, naturals in the order of creation

VARIABLE life  \* the phase each transaction is in

Over   == {"confirmed", "restored", "failed", "audited"}
Phases == {"absent", "working", "window", "restoring", "forgotten"} \cup Over

Init == life = [t \in Ids |-> "absent"]

Moves(t, from, to) == life[t] \in from /\ life' = [life EXCEPT ![t] = to]

Open(t) ==
  /\ Moves(t, {"absent"}, "working")
  /\ \A u \in Ids : u < t => life[u] # "absent"

OpenWindow(t) ==
  /\ Moves(t, {"working"}, "window")
  /\ \A u \in Ids : life[u] # "window"

\* Confirming is when old transactions are forgotten.
Confirm(t) ==
  /\ life[t] \in {"working", "window"}
  /\ \E F \in SUBSET {u \in Ids : u = t \/ life[u] \in Over} :
       life' = [u \in Ids |-> IF u \in F THEN "forgotten"
                              ELSE IF u = t THEN "confirmed" ELSE life[u]]

StartRestore(t) == Moves(t, {"working", "window"}, "restoring")
EndRestore(t)   == Moves(t, {"restoring"}, "restored") \/ Moves(t, {"restoring"}, "failed")

\* Nothing was written, or a rollback <n> went wrong half way.
Audit(t) == Moves(t, {"working"}, "audited")
Fail(t)  == Moves(t, {"working"}, "failed")

Next == \E t \in Ids : \/ Open(t) \/ OpenWindow(t) \/ Confirm(t)
                       \/ StartRestore(t) \/ EndRestore(t) \/ Audit(t) \/ Fail(t)

Spec == Init /\ [][Next]_life

=============================================================================
