------------------------ MODULE CommitOutcome_proofs ------------------------
(***************************************************************************)
(* How the transactions of CommitProtocol end, for any number of CLIs,     *)
(* transactions, resources and crashes.                                    *)
(*                                                                         *)
(*   StateTurns   which step changes the state of which transaction        *)
(*   DataInv      journals, resources and the processes at work agree:     *)
(*                NoLostUpdate, RecoveryCoversEveryWrite,                  *)
(*                RevertedMeansRestored, RollbackRestores                  *)
(*   WatchInv     watchdogs, pid files and deadlines agree:                *)
(*                WindowNotCutShort, and TxnLifecycle is implemented,      *)
(*                so that OneWindow and outcomes are final                 *)
(*   HotInv       only the newest transaction is at work until a process   *)
(*                dies: ErasedOnlyAfterCrash                               *)
(*                                                                         *)
(* Each rests on Inv of CommitProtocol_proofs, and the later on the        *)
(* earlier.  HistoryKept needs the cardinalities of FiniteSetTheorems.     *)
(***************************************************************************)
EXTENDS CommitProtocol_proofs, FiniteSetTheorems, WellFoundedInduction

-----------------------------------------------------------------------------
(* How a step changes the states on disk.                                  *)

\* Transaction t, in one of the states from, is now in state to; no other
\* transaction changed its state.
Turns(t, from, to) ==
  /\ State(t) \in from /\ State(t)' = to
  /\ \A u \in Txns \ {t} : State(u)' = State(u)

SameStates == \A t \in Txns : State(t)' = State(t)

\* The transaction of c is confirmed, and the history pruned.
Confirms(c, t) ==
  /\ CommitDone(c) \/ ConfirmSettles(c) \/ RedoDone(c)
  /\ State(t) \in {"APPLYING", "APPLIED_UNCONFIRMED"}
  /\ At(c, "redo") => ~proc[c].bad
  /\ journal' = Pruned([journal EXCEPT ![t].state = "CONFIRMED"])

\* Every change of a state on disk, and the step that makes it.
CommitTurns(c, t) ==
  \/ CloseUnapplied(c) /\ Turns(t, {"PENDING"}, "AUDIT_ONLY")
  \/ (StartApplying(c) \/ StartRedo(c)) /\ Turns(t, {"PENDING"}, "APPLYING")
  \/ OpenWindow(c) /\ Turns(t, {"APPLYING"}, "APPLIED_UNCONFIRMED")
  \/ ApplyFails(c) /\ Turns(t, {"APPLYING"}, "REVERTING")
  \/ ArmFails(c) /\ Turns(t, {"APPLIED_UNCONFIRMED"}, "REVERTING")
  \/ RedoDone(c) /\ proc[c].bad /\ Turns(t, {"APPLYING"}, "REVERT_FAILED")
  \/ Confirms(c, t)

RestoreTurns(a, t) ==
  \/ RecoverNothing(a) /\ Turns(t, States, "AUDIT_ONLY")
  \/ RecoverStart(a) /\ Turns(t, States, "REVERTING")
  \/ RestoreDone(a) /\ Turns(t, {"REVERTING"},
                             IF proc[a].bad THEN "REVERT_FAILED" ELSE "REVERTED")

StateTurns ==
  \/ SameStates
  \/ \E c \in Clis, t \in Txns : /\ CommitBegin(c) \/ RollbackBegin(c)
                                 /\ NextId(t) /\ Turns(t, {"NONE"}, "PENDING")
                                 /\ Txn(c)' = t
  \/ \E c \in Clis, t \in Txns : Txn(c) = t /\ CommitTurns(c, t)
  \/ \E a \in Actors, t \in Txns : Txn(a) = t /\ RestoreTurns(a, t)

\* A confirmation confirms or prunes, and leaves all other states alone.
LEMMA ConfirmsStates ==
  ASSUME Inv, NEW c \in Clis, NEW t \in Txns, Confirms(c, t), NEW u \in Txns
  PROVE  State(u)' \in {"GONE", "CONFIRMED", State(u)}
<1>1. journal'[u].state \in {"GONE", [journal EXCEPT ![t].state = "CONFIRMED"][u].state}
  BY DEF Confirms, Pruned, NoJournal
<1>2. [journal EXCEPT ![t].state = "CONFIRMED"][u].state \in {"CONFIRMED", journal[u].state}
  BY DEF Inv, TypeOK, Journals
<1> QED BY <1>1, <1>2 DEF State

LEMMA SetStateTurns ==
  ASSUME TypeOK, NEW t \in Txns, NEW s, SetState(t, s)
  PROVE  Turns(t, {State(t)}, s)
  BY DEF TypeOK, Journals, SetState, Turns, State

LEMMA CommitStepTurns ==
  ASSUME Inv, NEW c \in Clis, CommitStep(c)
  PROVE  StateTurns
<1>t. PICK t : t = Txn(c)
  OBVIOUS
<1>a. c \in Actors /\ c \notin Txns /\ proc[c] \in Procs /\ TypeOK /\ TxnKnown(c) /\ StateKnown(c)
  BY Disjoint DEF Actors, Inv, TypeOK
<1>b. proc[c].pc \in CommitPcs => t \in Txns
  BY <1>t, <1>a DEF TxnKnown, Critical, CliCritical, CliPcs, CommitPcs
<1>1. CASE CommitBegin(c)
  <2>1. PICK u \in Txns : /\ NextId(u) /\ SetState(u, "PENDING")
                          /\ proc' = [proc EXCEPT ![c].pc = "snapshot", ![c].txn = u]
    BY <1>1 DEF CommitBegin
  <2>2. Turns(u, {"NONE"}, "PENDING") /\ Txn(c)' = u
    BY <1>t, <1>a, <2>1, SetStateTurns DEF SetState, NextId, Txn, TypeOK, Procs
  <2> QED BY <1>1, <2>1, <2>2 DEF StateTurns
<1>2. CASE Snapshot(c)
  <2>1. SameStates
    BY <1>2, <1>t, <1>a DEF Snapshot, TypeOK, Journals, SameStates, State
  <2> QED BY <2>1 DEF StateTurns
<1>3. CASE CloseUnapplied(c)
  <2>1. t \in Txns /\ Turns(t, {"PENDING"}, "AUDIT_ONLY")
    BY <1>3, <1>t, <1>a, <1>b, SetStateTurns DEF SetState, CloseUnapplied, At, CommitPcs, StateKnown
  <2> QED BY <1>t, <1>3, <2>1 DEF StateTurns, CommitTurns
<1>4. CASE StartApplying(c)
  <2>1. t \in Txns /\ Turns(t, {"PENDING"}, "APPLYING")
    BY <1>4, <1>t, <1>a, <1>b, SetStateTurns DEF SetState, StartApplying, At, CommitPcs, StateKnown
  <2> QED BY <1>t, <1>4, <2>1 DEF StateTurns, CommitTurns
<1>5. CASE ApplyStart(c)
  <2>1. SameStates
    BY <1>5, <1>t, <1>a DEF ApplyStart, TypeOK, Journals, SameStates, State
  <2> QED BY <2>1 DEF StateTurns
<1>6. CASE ApplyFails(c)
  <2>1. t \in Txns /\ Turns(t, {"APPLYING"}, "REVERTING")
    BY <1>6, <1>t, <1>a, <1>b, SetStateTurns DEF SetState, ApplyFails, StartRestore, At, CommitPcs, StateKnown
  <2> QED BY <1>t, <1>6, <2>1 DEF StateTurns, CommitTurns
<1>7. CASE ArmFails(c)
  <2>1. t \in Txns /\ Turns(t, {"APPLIED_UNCONFIRMED"}, "REVERTING")
    BY <1>7, <1>t, <1>a, <1>b, SetStateTurns DEF SetState, ArmFails, StartRestore, At, CommitPcs, StateKnown
  <2> QED BY <1>t, <1>7, <2>1 DEF StateTurns, CommitTurns
<1>8. CASE CommitDone(c)
  <2>1. t \in Txns /\ Confirms(c, t)
    BY <1>8, <1>t, <1>a, <1>b DEF CommitDone, Confirms, At, CommitPcs, StateKnown
  <2> QED BY <1>t, <2>1 DEF StateTurns, CommitTurns
<1>9. CASE OpenWindow(c)
  <2>1. t \in Txns /\ State(t) = "APPLYING"
    BY <1>9, <1>t, <1>a, <1>b DEF OpenWindow, At, CommitPcs, StateKnown
  <2>2. /\ journal'[t].state = "APPLIED_UNCONFIRMED"
        /\ \A u \in Txns \ {t} : journal'[u] = journal[u]
    BY <1>9, <1>t, <1>a, <2>1 DEF OpenWindow, TypeOK, Journals
  <2>3. Turns(t, {"APPLYING"}, "APPLIED_UNCONFIRMED")
    BY <2>1, <2>2 DEF Turns, State
  <2> QED BY <1>t, <1>9, <2>1, <2>3 DEF StateTurns, CommitTurns
<1>10. CASE journal' = journal
  BY <1>10 DEF StateTurns, SameStates, State
<1> QED BY <1>1, <1>2, <1>3, <1>4, <1>5, <1>6, <1>7, <1>8, <1>9, <1>10
        DEF CommitStep, SnapshotFails, ApplyLands, Verified, SpawnWatchdog, Armed

LEMMA RestoreStepTurns ==
  ASSUME Inv, NEW a \in Actors, RestoreSteps(a) \/ RecoverStep(a)
  PROVE  StateTurns
<1>t. PICK t : t = Txn(a)
  OBVIOUS
<1>a. proc[a] \in Procs /\ TypeOK /\ TxnKnown(a) /\ StateKnown(a)
  BY DEF Inv, TypeOK
<1>b. At(a, "restore") \/ (At(a, "queued") /\ proc[a].op = "recover") => t \in Txns
  BY <1>t, <1>a DEF TxnKnown, Critical, CliCritical, CliPcs, At
<1>1. CASE RestoreDone(a)
  <2>1. t \in Txns
    BY <1>1, <1>b DEF RestoreDone
  <2>2. Turns(t, {"REVERTING"}, IF proc[a].bad THEN "REVERT_FAILED" ELSE "REVERTED")
    BY <1>1, <1>t, <1>a, <2>1, SetStateTurns DEF SetState, RestoreDone, At, StateKnown
  <2> QED BY <1>t, <1>1, <2>1, <2>2 DEF StateTurns, RestoreTurns
<1>2. CASE RecoverNothing(a)
  <2>1. t \in Txns /\ State(t) \in States
    BY <1>2, <1>t, <1>a, <1>b DEF RecoverNothing, State, TypeOK, Journals
  <2>2. Turns(t, {State(t)}, "AUDIT_ONLY")
    BY <1>2, <1>t, <1>a, <2>1, SetStateTurns DEF SetState, RecoverNothing
  <2> QED BY <1>t, <1>2, <2>1, <2>2 DEF StateTurns, RestoreTurns, Turns
<1>3. CASE RecoverStart(a)
  <2>1. t \in Txns /\ State(t) \in States
    BY <1>3, <1>t, <1>a, <1>b DEF RecoverStart, Enter, State, TypeOK, Journals
  <2>2. Turns(t, {State(t)}, "REVERTING")
    BY <1>3, <1>t, <1>a, <2>1, SetStateTurns DEF SetState, RecoverStart, StartRestore
  <2> QED BY <1>t, <1>3, <2>1, <2>2 DEF StateTurns, RestoreTurns, Turns
<1>4. CASE journal' = journal
  BY <1>4 DEF StateTurns, SameStates, State
<1> QED BY <1>1, <1>2, <1>3, <1>4 DEF RestoreSteps, RecoverStep, Restore, RestoreFails, RestoreStep

LEMMA ConfirmStepTurns ==
  ASSUME Inv, NEW c \in Clis, ConfirmStep(c)
  PROVE  StateTurns
<1>t. PICK t : t = Txn(c)
  OBVIOUS
<1>a. c \in Actors /\ c \notin Txns /\ proc[c] \in Procs /\ TypeOK /\ TxnKnown(c) /\ StateKnown(c)
  BY Disjoint DEF Actors, Inv, TypeOK
<1>1. CASE ConfirmSettles(c)
  <2>1. t \in Txns /\ State(t) = "APPLIED_UNCONFIRMED"
    BY <1>1, <1>t, <1>a DEF ConfirmSettles, TxnKnown, StateKnown, Critical, CliCritical, CliPcs, At
  <2>2. Confirms(c, t)
    BY <1>t, <1>1, <2>1 DEF ConfirmSettles, Confirms, At
  <2> QED BY <1>t, <2>1, <2>2 DEF StateTurns, CommitTurns
<1>2. CASE ConfirmClaims(c) \/ ConfirmClaimWrite(c) \/ WriteMarker(c)
  <2>1. SameStates
    BY <1>2, <1>t, <1>a DEF ConfirmClaims, ConfirmClaimWrite, WriteMarker, TypeOK, Journals,
                      SameStates, State
  <2> QED BY <2>1 DEF StateTurns
<1>3. CASE KillWatchdog(c)
  BY <1>3 DEF KillWatchdog, StateTurns, SameStates, State
<1> QED BY <1>1, <1>2, <1>3 DEF ConfirmStep

LEMMA RollbackStepTurns ==
  ASSUME Inv, NEW c \in Clis, RollbackStep(c)
  PROVE  StateTurns
<1>t. PICK t : t = Txn(c)
  OBVIOUS
<1>a. c \in Actors /\ c \notin Txns /\ proc[c] \in Procs /\ TypeOK /\ TxnKnown(c) /\ StateKnown(c)
  BY Disjoint DEF Actors, Inv, TypeOK
<1>b. proc[c].pc \in {"decide", "redo"} => t \in Txns
  BY <1>t, <1>a DEF TxnKnown, Critical, CliCritical, CliPcs
<1>1. CASE RollbackBegin(c)
  <2>1. PICK u, view :
          /\ u \in Txns /\ NextId(u) /\ SetState(u, "PENDING")
          /\ proc' = [proc EXCEPT ![c].pc = "snapshot", ![c].txn = u, ![c].view = view]
    BY <1>1 DEF RollbackBegin
  <2>2. Turns(u, {"NONE"}, "PENDING") /\ Txn(c)' = u
    BY <1>t, <1>a, <2>1, SetStateTurns DEF SetState, NextId, Txn, TypeOK, Procs
  <2> QED BY <1>1, <2>1, <2>2 DEF StateTurns
<1>2. CASE StartRedo(c)
  <2>1. t \in Txns /\ Turns(t, {"PENDING"}, "APPLYING")
    BY <1>2, <1>t, <1>a, <1>b, SetStateTurns DEF SetState, StartRedo, At, StateKnown
  <2> QED BY <1>t, <1>2, <2>1 DEF StateTurns, CommitTurns
<1>3. CASE Redo(c) \/ RedoFails(c)
  <2>1. PICK r : journal' = [journal EXCEPT ![Txn(c)].started = @ \cup {r}]
    BY <1>3 DEF Redo, RedoFails, RedoStep
  <2>2. SameStates
    BY <1>t, <1>a, <2>1 DEF TypeOK, Journals, SameStates, State
  <2> QED BY <2>2 DEF StateTurns
<1>4. CASE RedoDone(c) /\ ~proc[c].bad
  <2>1. t \in Txns /\ Confirms(c, t)
    BY <1>4, <1>t, <1>a, <1>b DEF RedoDone, Confirms, At, StateKnown
  <2> QED BY <1>t, <2>1 DEF StateTurns, CommitTurns
<1>5. CASE RedoDone(c) /\ proc[c].bad
  <2>1. t \in Txns /\ SetState(Txn(c), "REVERT_FAILED") /\ State(t) = "APPLYING"
    BY <1>5, <1>t, <1>a, <1>b DEF RedoDone, SetState, At, StateKnown
  <2>2. Turns(t, {"APPLYING"}, "REVERT_FAILED")
    BY <1>t, <1>a, <2>1, SetStateTurns
  <2> QED BY <1>t, <1>5, <2>1, <2>2 DEF StateTurns, CommitTurns
<1> QED BY <1>1, <1>2, <1>3, <1>4, <1>5 DEF RollbackStep

\* What a step does to the states on disk, whoever takes it.
LEMMA NextTurns ==
  ASSUME Inv, [Next]_vars
  PROVE  StateTurns
<1>1. ASSUME NEW t \in Txns, WatchdogStep(t) PROVE SameStates
  BY <1>1 DEF WatchdogStep, WdComesUp, WdSeesEnd, WdExpires, WdYields, WdClaims, WdClaimWrite,
              WdGivesUp, Inv, TypeOK, Journals, SameStates, State
<1>2. ASSUME NEW t \in Txns, Time(t) PROVE SameStates
  BY <1>2 DEF Time, Inv, TypeOK, Journals, SameStates, State
<1>3. CASE journal' = journal
  BY <1>3 DEF StateTurns, SameStates, State
<1>4. ASSUME NEW a \in Actors, Crash(a) PROVE journal' = journal
  BY <1>4 DEF Crash
<1>5. ASSUME NEW c \in Clis,
             Plan(c) \/ Leave(c) \/ AskConfirm(c) \/ AskRollback(c) \/ \E t \in Txns : ScanOrphans(c, t)
      PROVE  journal' = journal
  BY <1>5 DEF Plan, Leave, AskConfirm, AskRollback, ScanOrphans
<1>6. SameStates => StateTurns
  BY DEF StateTurns
<1>7. CASE UNCHANGED vars
  BY <1>3, <1>7 DEF vars
<1> QED BY <1>1, <1>2, <1>3, <1>4, <1>5, <1>6, <1>7, CommitStepTurns, RestoreStepTurns,
           ConfirmStepTurns, RollbackStepTurns DEF Next

-----------------------------------------------------------------------------
(* What the resources, the snapshots and the log of started writes hold    *)
(* while a process is at work.                                             *)

\* A transaction that has no writes behind it has started none, and one that
\* owns the Orchestrator has.
DirKnown(t) ==
  /\ State(t) \in {"NONE", "PENDING"} => journal[t].started = {}
  /\ State(t) \in BlockingStates => journal[t].started # {}

Snap(a)    == journal[Txn(a)].snap
Started(a) == journal[Txn(a)].started

\* Between the snapshots and the first write everything is as recorded.
SnapshotFits(a) ==
  At(a, "decide") =>
    \A r \in Refs : Snap(a)[r] = IF r \in Planned(a) THEN fabric[r] ELSE NoSnap

\* A commit at work: only what it started differs from its snapshot, what it
\* has still to do is planned, recorded and not yet started, and the records
\* agree with the plan unless it rebases.
CommitFits(a) ==
  /\ proc[a].pc \in {"apply", "write", "judge", "arming", "armwait"} =>
       /\ proc[a].op = "commit"
       /\ \A r \in Refs \ Started(a) : Snap(a)[r] \in {NoSnap, fabric[r]}
  /\ proc[a].pc \in {"apply", "write", "judge"} =>
       /\ proc[a].todo \subseteq Planned(a) \ Started(a)
       /\ Started(a) \cup proc[a].todo # {}
       /\ \A r \in Planned(a) : /\ Snap(a)[r] # NoSnap
                                /\ proc[a].rebase \/ Snap(a)[r] = proc[a].view[r]
  /\ At(a, "write") =>
       /\ proc[a].item \subseteq Planned(a) \cap Started(a)
       /\ \A r \in proc[a].item : fabric[r] = Snap(a)[r]
  /\ proc[a].pc \in {"write", "judge"} => Started(a) # {}

\* A restore without a failed step has put back all it no longer has to do.
RestoreFits(a) ==
  At(a, "restore") /\ ~proc[a].bad =>
    \A r \in Started(a) \ proc[a].todo : Snap(a)[r] \in {Absent, fabric[r]}

\* The same for rollback <n>, which also logs all it has written.
RedoFits(a) ==
  At(a, "redo") =>
    /\ proc[a].todo \subseteq Planned(a)
    /\ Planned(a) \ proc[a].todo \subseteq Started(a)
    /\ \A r \in Planned(a) : Snap(a)[r] # NoSnap
    /\ proc[a].bad \/ \A r \in Planned(a) \ proc[a].todo :
                         proc[a].view[r] \in {Absent, fabric[r]}

DataKnown(a) == SnapshotFits(a) /\ CommitFits(a) /\ RestoreFits(a) /\ RedoFits(a)

DataInv == (\A t \in Txns : DirKnown(t)) /\ (\A a \in Actors : DataKnown(a))

\* Who is outside the locked section has nothing to keep.
LEMMA OutsideData ==
  ASSUME NEW a \in Actors, TxnKnown(a)', ~Critical(a)'
  PROVE  DataKnown(a)'
<1>1. proc'[a].pc \notin {"decide", "apply", "write", "judge", "arming", "armwait", "restore", "redo"}
  <2>1. CASE a \in Clis
    BY <2>1 DEF Critical, CliCritical, CliPcs
  <2>2. CASE a \in Txns /\ a \notin Clis
    BY <2>2 DEF Critical, TxnKnown, WdPcs, At
  <2> QED BY <2>1, <2>2 DEF Actors
<1> QED BY <1>1 DEF DataKnown, SnapshotFits, CommitFits, RestoreFits, RedoFits, At

\* The holder of the lock takes a step: nobody else has anything to keep.
LEMMA HoldData ==
  ASSUME Inv', NEW a \in Actors, lock' \in {a, NoActor},
         lock' = a => DataKnown(a)', \A t \in Txns : DirKnown(t)'
  PROVE  DataInv'
<1>1. ASSUME NEW b \in Actors, lock' # b PROVE DataKnown(b)'
  <2>1. ~Critical(b)' /\ TxnKnown(b)'
    BY <1>1 DEF Inv, LockHeld
  <2> QED BY <2>1, OutsideData
<1> QED BY <1>1, Disjoint DEF DataInv

\* A step that leaves resources, snapshots and the logs alone, and every process
\* but a, which is not in the locked section after it.
Quiet(a) ==
  /\ fabric' = fabric /\ SameStates
  /\ \A t \in Txns : /\ journal'[t].snap = journal[t].snap
                     /\ journal'[t].started = journal[t].started
  /\ \A b \in Actors \ {a} : proc'[b] = proc[b]
  /\ ~Critical(a)'

LEMMA QuietData ==
  ASSUME Inv, Inv', DataInv, NEW a \in Actors, Quiet(a)
  PROVE  DataInv'
<1>1. ASSUME NEW t \in Txns PROVE DirKnown(t)'
  BY DEF Quiet, SameStates, DataInv, DirKnown
<1>2. ASSUME NEW b \in Actors, ~Critical(b)' PROVE DataKnown(b)'
  BY <1>2, OutsideData DEF Inv
<1>3. ASSUME NEW b \in Actors, Critical(b)' PROVE DataKnown(b)'
  <2>1. b # a /\ proc'[b] = proc[b]
    BY <1>3 DEF Quiet
  <2>2. Critical(b) /\ Txn(b) \in Txns /\ DataKnown(b)
    BY <1>3, <2>1 DEF Critical, At, Inv, TxnKnown, DataInv
  <2>3. /\ Snap(b)' = Snap(b) /\ Started(b)' = Started(b) /\ Planned(b)' = Planned(b)
        /\ At(b, "decide")' = At(b, "decide") /\ At(b, "write")' = At(b, "write")
        /\ At(b, "restore")' = At(b, "restore") /\ At(b, "redo")' = At(b, "redo")
    BY <2>1, <2>2 DEF Quiet, Snap, Started, Planned, Txn, At
  <2>4. fabric' = fabric
    BY DEF Quiet
  <2>5. SnapshotFits(b)'
    BY <2>1, <2>2, <2>3, <2>4 DEF DataKnown, SnapshotFits
  <2>6. CommitFits(b)'
    BY <2>1, <2>2, <2>3, <2>4 DEF DataKnown, CommitFits
  <2>7. RestoreFits(b)'
    BY <2>1, <2>2, <2>3, <2>4 DEF DataKnown, RestoreFits
  <2>8. RedoFits(b)'
    BY <2>1, <2>2, <2>3, <2>4 DEF DataKnown, RedoFits
  <2> QED BY <2>5, <2>6, <2>7, <2>8 DEF DataKnown
<1> QED BY <1>1, <1>2, <1>3 DEF DataInv

\* The steps of the queue, of the watchdogs, of time and of death are quiet.
LEMMA QueueQuiet ==
  ASSUME Inv, NEW c \in Clis,
         Plan(c) \/ Leave(c) \/ AskConfirm(c) \/ AskRollback(c) \/ \E t \in Txns : ScanOrphans(c, t)
  PROVE  Quiet(c)
<1>1. c \in Actors /\ proc \in [Actors -> Procs]
  BY DEF Actors, Inv, TypeOK
<1>2. journal' = journal /\ fabric' = fabric
  BY DEF Plan, Leave, AskConfirm, AskRollback, ScanOrphans
<1>3. PICK p : proc' = [proc EXCEPT ![c] = p] /\ p.pc \in {"queued", "idle"}
  <2>1. CASE Plan(c)
    <3>1. PICK view, confirm, rebase :
            proc' = [proc EXCEPT ![c] = [Fresh("queued", "commit", NoTxn) EXCEPT
                       !.view = view, !.confirm = confirm, !.rebase = rebase]]
      BY <2>1 DEF Plan
    <3> DEFINE p == [Fresh("queued", "commit", NoTxn) EXCEPT
                       !.view = view, !.confirm = confirm, !.rebase = rebase]
    <3>2. p.pc = "queued"
      BY DEF Fresh
    <3> QED BY <3>1, <3>2
  <2>2. CASE Leave(c)
    <3>1. Ended(c).pc = "idle"
      BY Disjoint DEF Ended, Fresh
    <3> QED BY <2>2, <3>1 DEF Leave
  <2>3. CASE AskConfirm(c)
    <3>1. Fresh("queued", "confirm", NoTxn).pc = "queued"
      BY DEF Fresh
    <3> QED BY <2>3, <3>1 DEF AskConfirm
  <2>4. CASE AskRollback(c)
    <3>1. Fresh("queued", "rollback", NoTxn).pc = "queued"
      BY DEF Fresh
    <3> QED BY <2>4, <3>1 DEF AskRollback
  <2>5. CASE \E t \in Txns : ScanOrphans(c, t)
    <3>1. PICK t \in Txns : proc' = [proc EXCEPT ![c] = Fresh("queued", "recover", t)]
      BY <2>5 DEF ScanOrphans
    <3>2. Fresh("queued", "recover", t).pc = "queued"
      BY DEF Fresh
    <3> QED BY <3>1, <3>2
  <2> QED BY <2>1, <2>2, <2>3, <2>4, <2>5
<1>4. proc'[c].pc \in {"queued", "idle"}
  BY <1>1, <1>3
<1>5. ~Critical(c)'
  BY <1>4 DEF Critical, CliCritical
<1> QED BY <1>1, <1>2, <1>3, <1>5 DEF Quiet, SameStates, State

LEMMA WatchdogQuiet ==
  ASSUME Inv, NEW t \in Txns, WatchdogStep(t)
  PROVE  Quiet(t)
<1>a. t \in Actors /\ t \notin Clis /\ proc[t] \in Procs /\ TypeOK
  BY Disjoint DEF Actors, Inv, TypeOK
<1>1. fabric' = fabric
  BY DEF WatchdogStep, WdComesUp, WdSeesEnd, WdExpires, WdYields, WdClaims, WdClaimWrite, WdGivesUp
<1>2. \A u \in Txns : /\ State(u)' = State(u) /\ journal'[u].snap = journal[u].snap
                      /\ journal'[u].started = journal[u].started
  <2>1. CASE WdComesUp(t) \/ WdClaims(t) \/ WdClaimWrite(t)
    BY <2>1, <1>a DEF WdComesUp, WdClaims, WdClaimWrite, State, TypeOK, Journals
  <2>2. CASE journal' = journal
    BY <2>2 DEF State
  <2> QED BY <2>1, <2>2 DEF WatchdogStep, WdSeesEnd, WdExpires, WdYields, WdGivesUp
<1>3. CASE \E from : \E to \in WdPcs \ {"restore"} : WdMoves(t, from, to)
  <2>1. PICK to \in WdPcs \ {"restore"} : proc' = [proc EXCEPT ![t].pc = to]
    BY <1>3 DEF WdMoves
  <2>2. proc'[t].pc = to /\ \A b \in Actors \ {t} : proc'[b] = proc[b]
    BY <1>a, <2>1 DEF TypeOK, Procs
  <2>3. ~Critical(t)'
    BY <1>a, <2>2 DEF Critical, At
  <2> QED BY <1>1, <1>2, <2>2, <2>3 DEF Quiet, SameStates
<1>4. CASE \E from : WdExits(t, from)
  <2>1. proc' = [proc EXCEPT ![t] = Ended(t)]
    BY <1>4 DEF WdExits
  <2>2. \A b \in Actors \ {t} : proc'[b] = proc[b]
    BY <1>a, <2>1 DEF TypeOK
  <2> QED BY <1>a, <1>1, <1>2, <2>1, <2>2, EndedOutside DEF Quiet, SameStates
<1> QED BY <1>3, <1>4 DEF WatchdogStep, WdComesUp, WdSeesEnd, WdExpires, WdYields, WdClaims,
                          WdClaimWrite, WdGivesUp, WdPcs

LEMMA CrashQuiet ==
  ASSUME Inv, NEW a \in Actors, Crash(a)
  PROVE  Quiet(a)
<1>1. /\ TypeOK /\ proc' = [proc EXCEPT ![a] = Ended(a)]
      /\ journal' = journal /\ fabric' = fabric
  BY DEF Inv, Crash
<1>2. \A b \in Actors \ {a} : proc'[b] = proc[b]
  BY <1>1 DEF TypeOK
<1> QED BY <1>1, <1>2, EndedOutside DEF Quiet, SameStates, State

-----------------------------------------------------------------------------
(* Every step keeps DataInv.                                               *)

LEMMA IdleData ==
  ASSUME NEW a \in Actors,
         proc'[a].pc \notin {"decide", "apply", "write", "judge", "arming", "armwait", "restore", "redo"}
  PROVE  DataKnown(a)'
  BY DEF DataKnown, SnapshotFits, CommitFits, RestoreFits, RedoFits, At

\* A transaction that changes its state keeps the log of started writes.
LEMMA TurnDir ==
  ASSUME DataInv, NEW t \in Txns, NEW s, State(t)' = s,
         \A u \in Txns : journal'[u].started = journal[u].started,
         \A u \in Txns \ {t} : State(u)' = State(u),
         s \in {"NONE", "PENDING"} => journal[t].started = {},
         s \in BlockingStates => journal[t].started # {}
  PROVE  \A u \in Txns : DirKnown(u)'
<1>1. DirKnown(t)'
  BY DEF DirKnown
<1>2. ASSUME NEW u \in Txns \ {t} PROVE DirKnown(u)'
  BY DEF DirKnown, DataInv
<1> QED BY <1>1, <1>2

LEMMA SameDirs ==
  ASSUME DataInv, \A u \in Txns : State(u)' = State(u) /\ journal'[u].started = journal[u].started
  PROVE  \A u \in Txns : DirKnown(u)'
  BY DEF DirKnown, DataInv

LEMMA SetStateDirs ==
  ASSUME TypeOK, NEW t \in Txns, NEW s, SetState(t, s)
  PROVE  /\ State(t)' = s /\ \A u \in Txns \ {t} : State(u)' = State(u)
         /\ \A u \in Txns : /\ journal'[u].started = journal[u].started
                            /\ journal'[u].snap = journal[u].snap
  BY DEF TypeOK, Journals, SetState, State

\* A confirmed transaction may push others out of the history; none of them
\* has more to keep than before.
LEMMA PrunedDirs ==
  ASSUME TypeOK, DataInv, NEW t \in Txns,
         journal' = Pruned([journal EXCEPT ![t].state = "CONFIRMED"])
  PROVE  \A u \in Txns : DirKnown(u)'
<1> DEFINE j == [journal EXCEPT ![t].state = "CONFIRMED"]
<1>1. SUFFICES ASSUME NEW u \in Txns PROVE DirKnown(u)'
  OBVIOUS
<1>2. CASE journal'[u].state = "GONE"
  BY <1>2 DEF DirKnown, State, BlockingStates
<1>3. CASE journal'[u] = j[u] /\ u # t
  <2>1. journal'[u] = journal[u]
    BY <1>3 DEF TypeOK
  <2> QED BY <2>1 DEF DirKnown, DataInv, State
<1>4. CASE journal'[u] = j[u] /\ u = t
  <2>1. journal'[u].state = "CONFIRMED"
    BY <1>4 DEF TypeOK, Journals
  <2> QED BY <2>1 DEF DirKnown, State, BlockingStates
<1>5. journal'[u].state = "GONE" \/ journal'[u] = j[u]
  BY DEF Pruned, NoJournal
<1> QED BY <1>2, <1>3, <1>4, <1>5

\* What a process that leaves the section leaves behind.
LEMMA LeaveData ==
  ASSUME Inv', NEW a \in Actors, lock' = NoActor, \A t \in Txns : DirKnown(t)'
  PROVE  DataInv'
  BY HoldData, Disjoint

\* A restore starts with everything started still to do.
LEMMA StartRestoreData ==
  ASSUME Inv, Inv', DataInv, NEW a \in Actors, NEW t \in Txns, Txn(a) = t, StartRestore(a),
         lock' = a, journal[t].started # {}
  PROVE  DataInv'
<1>a. TypeOK /\ proc[a] \in Procs
  BY DEF Inv, TypeOK
<1>1. \A u \in Txns : DirKnown(u)'
  <2>1. SetState(t, "REVERTING")
    BY DEF StartRestore, SetState
  <2> QED BY <1>a, <2>1, SetStateDirs, TurnDir
<1>2. /\ proc'[a].pc = "restore" /\ proc'[a].txn = t
      /\ proc'[a].todo = journal[t].started
  BY <1>a DEF StartRestore, TypeOK, Procs, Txn
<1>3. journal'[t].started = journal[t].started
  BY <1>a DEF StartRestore, SetState, TypeOK, Journals
<1>4. DataKnown(a)'
  BY <1>2, <1>3 DEF DataKnown, SnapshotFits, CommitFits, RestoreFits, RedoFits, At, Started, Txn
<1> QED BY <1>1, <1>4, HoldData

LEMMA CommitData ==
  ASSUME Inv, Inv', DataInv, NEW c \in Clis, CommitStep(c)
  PROVE  DataInv'
<1>t. PICK t : t = Txn(c)
  OBVIOUS
<1>a. /\ c \in Actors /\ c \notin Txns /\ proc[c] \in Procs /\ TypeOK /\ TypeOK'
      /\ TxnKnown(c) /\ StateKnown(c) /\ DataKnown(c)
  BY Disjoint DEF Actors, Inv, DataInv, TypeOK
<1>b. proc[c].pc \in CommitPcs => /\ t \in Txns /\ lock = c /\ DirKnown(t)
                                  /\ journal[t] \in Journals
  BY <1>t, <1>a DEF Inv, LockHeld, TxnKnown, Critical, CliCritical, CliPcs, CommitPcs, DataInv, TypeOK
<1>1. CASE CommitBegin(c)
  <2>1. PICK u \in Txns : /\ NextId(u) /\ SetState(u, "PENDING")
                          /\ proc' = [proc EXCEPT ![c].pc = "snapshot", ![c].txn = u]
    BY <1>1 DEF CommitBegin
  <2>2. proc'[c].pc = "snapshot"
    BY <1>a, <2>1 DEF TypeOK, Procs
  <2>3. journal[u].started = {}
    BY <2>1 DEF NextId, DataInv, DirKnown
  <2>4. \A v \in Txns : DirKnown(v)'
    BY <1>a, <2>1, <2>3, SetStateDirs, TurnDir DEF BlockingStates
  <2>5. lock' = c
    BY <1>1 DEF CommitBegin, Enter
  <2> QED BY <1>a, <2>2, <2>4, <2>5, IdleData, HoldData
<1>2. CASE Snapshot(c)
  <2>1. t \in Txns /\ lock' = c /\ fabric' = fabric
    BY <1>2, <1>b DEF Snapshot, At, CommitPcs
  <2>2. proc'[c] = [proc[c] EXCEPT !.pc = "decide"]
    BY <1>2, <1>a DEF Snapshot, TypeOK
  <2>3. proc'[c].pc = "decide" /\ proc'[c].txn = t /\ Planned(c)' = Planned(c)
    BY <1>t, <1>a, <2>2 DEF Procs, Planned, Txn
  <2>4. journal'[t].snap = [r \in Refs |-> IF r \in Planned(c) THEN fabric[r] ELSE NoSnap]
    BY <1>2, <1>t, <1>a, <2>1 DEF Snapshot, TypeOK, Journals
  <2>5. \A u \in Txns : State(u)' = State(u) /\ journal'[u].started = journal[u].started
    BY <1>2, <1>a DEF Snapshot, State, TypeOK, Journals
  <2>6. SnapshotFits(c)'
    BY <2>1, <2>3, <2>4 DEF SnapshotFits, Snap, Txn
  <2>7. DataKnown(c)'
    BY <2>3, <2>6 DEF DataKnown, CommitFits, RestoreFits, RedoFits, At
  <2> QED BY <1>a, <2>1, <2>5, <2>7, SameDirs, HoldData
<1>3. CASE SnapshotFails(c) \/ Armed(c)
  <2>1. lock' = NoActor /\ journal' = journal
    BY <1>3 DEF SnapshotFails, Armed, Finish
  <2> QED BY <1>a, <2>1, SameDirs, LeaveData DEF State
<1>4. CASE CloseUnapplied(c)
  <2>1. t \in Txns /\ lock' = NoActor /\ SetState(t, "AUDIT_ONLY")
    BY <1>4, <1>t, <1>b DEF CloseUnapplied, Finish, At, CommitPcs, SetState
  <2>2. \A u \in Txns : DirKnown(u)'
    BY <1>a, <2>1, SetStateDirs, TurnDir DEF BlockingStates
  <2> QED BY <1>a, <2>1, <2>2, LeaveData
<1>5. CASE StartApplying(c)
  <2>1. /\ t \in Txns /\ lock' = c /\ fabric' = fabric /\ SetState(t, "APPLYING")
        /\ proc[c].pc = "decide" /\ proc[c].op = "commit" /\ Work(c) # {}
        /\ proc[c].rebase \/ Stale(c) = {}
    BY <1>5, <1>t, <1>b DEF StartApplying, At, CommitPcs, SetState
  <2>2. journal[t].started = {}
    BY <1>t, <1>a, <1>b, <2>1 DEF DirKnown, StateKnown, CommitPcs
  <2>3. \A u \in Txns : DirKnown(u)'
    BY <1>a, <2>1, SetStateDirs, TurnDir DEF BlockingStates
  <2>4. proc'[c] = [proc[c] EXCEPT !.pc = "apply", !.todo = Work(c)]
    BY <1>5, <1>a DEF StartApplying, TypeOK
  <2>5. /\ proc'[c].pc = "apply" /\ proc'[c].todo = Work(c) /\ proc'[c].txn = t
        /\ proc'[c].op = "commit" /\ proc'[c].rebase = proc[c].rebase
        /\ proc'[c].view = proc[c].view /\ Planned(c)' = Planned(c)
    BY <1>t, <1>a, <2>1, <2>4 DEF Procs, Planned, Txn
  <2>6. Snap(c)' = Snap(c) /\ Started(c)' = {} /\ Snap(c) = journal[t].snap
    BY <1>t, <1>a, <2>1, <2>2, <2>5, SetStateDirs DEF Snap, Started, Txn
  <2>7. \A r \in Refs : Snap(c)[r] = IF r \in Planned(c) THEN fabric[r] ELSE NoSnap
    BY <1>a, <2>1 DEF DataKnown, SnapshotFits, At
  <2>8. \A r \in Planned(c) : r \in Refs /\ fabric[r] # NoSnap
    BY <1>a, ProtocolAssumption DEF Planned, TypeOK
  <2>9. Work(c) \subseteq Planned(c)
    BY DEF Work
  <2>10. \A r \in Planned(c) : proc[c].rebase \/ Snap(c)[r] = proc[c].view[r]
    BY <2>1 DEF Stale, Snap
  <2>11. CommitFits(c)'
    BY <2>1, <2>5, <2>6, <2>7, <2>8, <2>9, <2>10 DEF CommitFits, At
  <2>12. DataKnown(c)'
    BY <2>5, <2>11 DEF DataKnown, SnapshotFits, RestoreFits, RedoFits, At
  <2> QED BY <1>a, <2>1, <2>3, <2>12, HoldData
<1>6. CASE ApplyStart(c)
  <2>1. t \in Txns /\ lock' = c /\ fabric' = fabric /\ proc[c].pc = "apply" /\ State(t) = "APPLYING"
    BY <1>6, <1>t, <1>a, <1>b DEF ApplyStart, At, CommitPcs, StateKnown
  <2>2. PICK r \in proc[c].todo :
          /\ journal' = [journal EXCEPT ![Txn(c)].started = @ \cup {r}]
          /\ proc' = [proc EXCEPT ![c].pc = "write", ![c].todo = @ \ {r}, ![c].item = {r}]
    BY <1>6 DEF ApplyStart
  <2>3. proc'[c] = [proc[c] EXCEPT !.pc = "write", !.todo = @ \ {r}, !.item = {r}]
    BY <1>a, <2>2 DEF TypeOK
  <2>4. /\ proc'[c].pc = "write" /\ proc'[c].todo = proc[c].todo \ {r} /\ proc'[c].item = {r}
        /\ proc'[c].txn = t /\ proc'[c].op = proc[c].op /\ proc'[c].rebase = proc[c].rebase
        /\ proc'[c].view = proc[c].view /\ Planned(c)' = Planned(c)
    BY <1>t, <1>a, <2>3 DEF Procs, Planned, Txn
  <2>5. /\ journal'[t].started = journal[t].started \cup {r} /\ journal'[t].snap = journal[t].snap
        /\ journal'[t].state = journal[t].state
        /\ \A u \in Txns \ {t} : journal'[u] = journal[u]
    BY <1>t, <1>a, <2>1, <2>2 DEF TypeOK, Journals
  <2>6. Snap(c)' = Snap(c) /\ Started(c)' = Started(c) \cup {r}
    BY <1>t, <2>4, <2>5 DEF Snap, Started, Txn
  <2>7. CommitFits(c) /\ r \in Refs /\ r \in Planned(c) /\ r \notin Started(c)
    BY <1>a, <2>1, <2>2 DEF DataKnown, CommitFits, Procs
  <2>8. Snap(c)[r] = fabric[r]
    BY <2>1, <2>7 DEF CommitFits
  <2>9. CommitFits(c)'
    BY <2>1, <2>4, <2>6, <2>7, <2>8 DEF CommitFits, At
  <2>10. DataKnown(c)'
    BY <2>4, <2>9 DEF DataKnown, SnapshotFits, RestoreFits, RedoFits, At
  <2>11. \A u \in Txns : DirKnown(u)'
    <3>1. DirKnown(t)'
      BY <2>1, <2>5 DEF DirKnown, State, BlockingStates
    <3>2. \A u \in Txns \ {t} : DirKnown(u)'
      BY <2>5 DEF DirKnown, DataInv, State
    <3> QED BY <3>1, <3>2
  <2> QED BY <1>a, <2>1, <2>10, <2>11, HoldData
<1>7. CASE ApplyLands(c)
  <2>1. t \in Txns /\ lock' = c /\ journal' = journal /\ proc[c].pc = "write"
    BY <1>7, <1>b DEF ApplyLands, At, CommitPcs
  <2>2. proc'[c] = [proc[c] EXCEPT !.pc = "judge"]
    BY <1>7, <1>a DEF ApplyLands, TypeOK
  <2>3. /\ proc'[c].pc = "judge" /\ proc'[c].todo = proc[c].todo /\ proc'[c].txn = t
        /\ proc'[c].op = proc[c].op /\ proc'[c].rebase = proc[c].rebase
        /\ proc'[c].view = proc[c].view /\ Planned(c)' = Planned(c)
    BY <1>t, <1>a, <2>2 DEF Procs, Planned, Txn
  <2>4. Snap(c)' = Snap(c) /\ Started(c)' = Started(c)
    BY <1>t, <2>1, <2>3 DEF Snap, Started, Txn
  <2>5. CommitFits(c)
    BY <1>a DEF DataKnown
  <2>6. \A r \in Refs \ Started(c) : fabric'[r] = fabric[r]
    BY <1>7, <2>1, <2>5 DEF ApplyLands, CommitFits, At
  <2>7. CommitFits(c)'
    BY <2>1, <2>3, <2>4, <2>5, <2>6 DEF CommitFits, At
  <2>8. DataKnown(c)'
    BY <2>3, <2>7 DEF DataKnown, SnapshotFits, RestoreFits, RedoFits, At
  <2> QED BY <1>a, <2>1, <2>8, SameDirs, HoldData DEF State
<1>8. CASE Verified(c)
  <2>1. t \in Txns /\ lock' = c /\ journal' = journal /\ proc[c].pc = "judge" /\ fabric' = fabric
    BY <1>8, <1>b DEF Verified, At, CommitPcs
  <2>2. proc'[c] = [proc[c] EXCEPT !.pc = "apply", !.item = {}]
    BY <1>8, <1>a DEF Verified, TypeOK
  <2>3. /\ proc'[c].pc = "apply" /\ proc'[c].todo = proc[c].todo /\ proc'[c].txn = t
        /\ proc'[c].op = proc[c].op /\ proc'[c].rebase = proc[c].rebase
        /\ proc'[c].view = proc[c].view /\ Planned(c)' = Planned(c)
    BY <1>t, <1>a, <2>2 DEF Procs, Planned, Txn
  <2>4. Snap(c)' = Snap(c) /\ Started(c)' = Started(c)
    BY <1>t, <2>1, <2>3 DEF Snap, Started, Txn
  <2>5. CommitFits(c)
    BY <1>a DEF DataKnown
  <2>6. CommitFits(c)'
    BY <2>1, <2>3, <2>4, <2>5 DEF CommitFits, At
  <2>7. DataKnown(c)'
    BY <2>3, <2>6 DEF DataKnown, SnapshotFits, RestoreFits, RedoFits, At
  <2> QED BY <1>a, <2>1, <2>7, SameDirs, HoldData DEF State
<1>9. CASE ApplyFails(c)
  <2>1. /\ t \in Txns /\ lock' = c /\ StartRestore(c) /\ proc[c].pc \in {"write", "judge"}
    BY <1>9, <1>b DEF ApplyFails, At, CommitPcs
  <2>2. journal[t].started # {}
    BY <1>t, <1>a, <2>1 DEF DataKnown, CommitFits, Started
  <2> QED BY <1>t, <1>a, <2>1, <2>2, StartRestoreData
<1>10. CASE ArmFails(c)
  <2>1. /\ t \in Txns /\ lock' = c /\ StartRestore(c) /\ State(t) = "APPLIED_UNCONFIRMED"
    BY <1>10, <1>t, <1>a, <1>b DEF ArmFails, At, CommitPcs, StateKnown
  <2>2. journal[t].started # {}
    BY <2>1 DEF DataInv, DirKnown, BlockingStates
  <2> QED BY <1>t, <1>a, <2>1, <2>2, StartRestoreData
<1>11. CASE CommitDone(c)
  <2>1. t \in Txns /\ lock' = NoActor /\ journal' = Pruned([journal EXCEPT ![t].state = "CONFIRMED"])
    BY <1>11, <1>t, <1>b DEF CommitDone, Finish, At, CommitPcs
  <2> QED BY <1>a, <2>1, PrunedDirs, LeaveData
<1>12. CASE OpenWindow(c)
  <2>1. /\ t \in Txns /\ lock' = c /\ fabric' = fabric /\ proc[c].pc = "apply"
        /\ proc[c].todo = {} /\ journal[t].started # {}
    BY <1>12, <1>t, <1>a, <1>b DEF OpenWindow, At, CommitPcs, DataKnown, CommitFits, Started
  <2>2. proc'[c] = [proc[c] EXCEPT !.pc = "arming"]
    BY <1>12, <1>a DEF OpenWindow, TypeOK
  <2>3. /\ proc'[c].pc = "arming" /\ proc'[c].txn = t /\ proc'[c].op = proc[c].op
    BY <1>t, <1>a, <2>2 DEF Procs, Txn
  <2>4. /\ journal'[t].started = journal[t].started /\ journal'[t].snap = journal[t].snap
        /\ journal'[t].state = "APPLIED_UNCONFIRMED"
        /\ \A u \in Txns \ {t} : journal'[u] = journal[u]
    BY <1>12, <1>t, <1>a, <2>1 DEF OpenWindow, TypeOK, Journals
  <2>5. Snap(c)' = Snap(c) /\ Started(c)' = Started(c)
    BY <1>t, <2>3, <2>4 DEF Snap, Started, Txn
  <2>6. CommitFits(c)'
    BY <1>a, <2>1, <2>3, <2>5 DEF CommitFits, DataKnown, At
  <2>7. DataKnown(c)'
    BY <2>3, <2>6 DEF DataKnown, SnapshotFits, RestoreFits, RedoFits, At
  <2>8. \A u \in Txns : DirKnown(u)'
    <3>1. DirKnown(t)'
      BY <2>1, <2>4 DEF DirKnown, State
    <3>2. \A u \in Txns \ {t} : DirKnown(u)'
      BY <2>4 DEF DirKnown, DataInv, State
    <3> QED BY <3>1, <3>2
  <2> QED BY <1>a, <2>1, <2>7, <2>8, HoldData
<1>13. CASE SpawnWatchdog(c)
  <2>1. /\ t \in Txns /\ lock' = c /\ fabric' = fabric /\ journal' = journal /\ proc[c].pc = "arming"
    BY <1>13, <1>b DEF SpawnWatchdog, At, CommitPcs
  <2>2. proc'[c] = [proc[c] EXCEPT !.pc = "armwait"]
    BY <1>13, <1>t, <1>a, <2>1 DEF SpawnWatchdog, TypeOK, Actors
  <2>3. /\ proc'[c].pc = "armwait" /\ proc'[c].txn = t /\ proc'[c].op = proc[c].op
    BY <1>t, <1>a, <2>2 DEF Procs, Txn
  <2>4. Snap(c)' = Snap(c) /\ Started(c)' = Started(c)
    BY <1>t, <2>1, <2>3 DEF Snap, Started, Txn
  <2>5. CommitFits(c)'
    BY <1>a, <2>1, <2>3, <2>4 DEF CommitFits, DataKnown, At
  <2>6. DataKnown(c)'
    BY <2>3, <2>5 DEF DataKnown, SnapshotFits, RestoreFits, RedoFits, At
  <2> QED BY <1>a, <2>1, <2>6, SameDirs, HoldData DEF State
<1> QED BY <1>1, <1>2, <1>3, <1>4, <1>5, <1>6, <1>7, <1>8, <1>9, <1>10, <1>11, <1>12, <1>13
        DEF CommitStep

LEMMA RestoreData ==
  ASSUME Inv, Inv', DataInv, NEW a \in Actors, RestoreSteps(a)
  PROVE  DataInv'
<1>t. PICK t : t = Txn(a)
  OBVIOUS
<1>a. At(a, "restore")
  BY DEF RestoreSteps, Restore, RestoreFails, RestoreStep, RestoreDone
<1>b. /\ proc[a] \in Procs /\ TypeOK /\ TxnKnown(a) /\ RestoreFits(a)
  BY DEF Inv, TypeOK, DataInv, DataKnown
<1>c. Critical(a) /\ lock = a /\ t \in Txns
  BY <1>t, <1>a, <1>b DEF Inv, LockHeld, TxnKnown, Critical, CliCritical, CliPcs, At
<1>1. ASSUME NEW r \in proc[a].todo, NEW value, NEW failed, RestoreStep(a, r, value, failed),
             failed \/ Snap(a)[r] \in {Absent, value}
      PROVE  DataInv'
  <2>1. /\ lock' = a /\ journal' = journal
        /\ proc'[a] = [proc[a] EXCEPT !.todo = @ \ {r}, !.bad = @ \/ failed]
    BY <1>1, <1>b, <1>c DEF RestoreStep, TypeOK
  <2>2. /\ proc'[a].pc = "restore" /\ proc'[a].txn = t /\ proc'[a].todo = proc[a].todo \ {r}
        /\ proc'[a].bad = (proc[a].bad \/ failed)
    BY <1>t, <1>a, <1>b, <2>1 DEF Procs, Txn, At
  <2>3. Snap(a)' = Snap(a) /\ Started(a)' = Started(a)
    BY <1>t, <2>1, <2>2 DEF Snap, Started, Txn
  <2>4. r \in Refs /\ fabric' = [fabric EXCEPT ![r] = value] /\ Started(a) \subseteq Refs
    BY <1>t, <1>1, <1>b, <1>c DEF RestoreStep, Procs, Started, TypeOK, Journals
  <2>5. fabric'[r] = value /\ \A q \in Refs \ {r} : fabric'[q] = fabric[q]
    BY <1>b, <2>4 DEF TypeOK
  <2>6. ASSUME ~proc'[a].bad, NEW q \in Started(a) \ proc'[a].todo
        PROVE  Snap(a)[q] \in {Absent, fabric'[q]}
    <3>1. ~proc[a].bad /\ ~failed
      BY <2>2, <2>6
    <3>2. CASE q = r
      BY <1>1, <2>5, <3>1, <3>2
    <3>3. CASE q # r
      BY <1>a, <1>b, <2>2, <2>4, <2>5, <2>6, <3>1, <3>3 DEF RestoreFits
    <3> QED BY <3>2, <3>3
  <2>7. RestoreFits(a)'
    BY <2>3, <2>6 DEF RestoreFits
  <2>8. DataKnown(a)'
    BY <2>2, <2>7 DEF DataKnown, SnapshotFits, CommitFits, RedoFits, At
  <2> QED BY <2>1, <2>8, SameDirs, HoldData DEF State
<1>2. CASE Restore(a)
  <2>1. PICK r \in proc[a].todo :
          \/ RestoreStep(a, r, Snap(a)[r], FALSE)
          \/ Snap(a)[r] = Absent /\ RestoreStep(a, r, fabric[r], FALSE)
    BY <1>2 DEF Restore, Snap
  <2> QED BY <1>1, <2>1
<1>3. CASE RestoreFails(a)
  <2>1. PICK r \in proc[a].todo : \E value : RestoreStep(a, r, value, TRUE)
    BY <1>3 DEF RestoreFails
  <2> QED BY <1>1, <2>1
<1>4. CASE RestoreDone(a)
  <2>1. lock' = NoActor /\ SetState(t, IF proc[a].bad THEN "REVERT_FAILED" ELSE "REVERTED")
    BY <1>4, <1>t DEF RestoreDone, Finish, SetState
  <2>2. \A u \in Txns : DirKnown(u)'
    BY <1>b, <1>c, <2>1, SetStateDirs, TurnDir DEF BlockingStates
  <2> QED BY <2>1, <2>2, LeaveData
<1> QED BY <1>2, <1>3, <1>4 DEF RestoreSteps

LEMMA RecoverData ==
  ASSUME Inv, Inv', DataInv, NEW a \in Actors, RecoverStep(a)
  PROVE  DataInv'
<1>t. PICK t : t = Txn(a)
  OBVIOUS
<1>a. TypeOK /\ TxnKnown(a) /\ At(a, "queued") /\ proc[a].op = "recover"
  BY DEF Inv, RecoverStep, RecoverNothing, RecoverStart, Enter
<1>b. t \in Txns
  BY <1>t, <1>a DEF TxnKnown
<1>1. CASE RecoverNothing(a)
  <2>1. lock' = NoActor /\ SetState(t, "AUDIT_ONLY")
    BY <1>1, <1>t DEF RecoverNothing, SetState
  <2>2. \A u \in Txns : DirKnown(u)'
    BY <1>a, <1>b, <2>1, SetStateDirs, TurnDir DEF BlockingStates
  <2> QED BY <2>1, <2>2, LeaveData
<1>2. CASE RecoverStart(a)
  BY <1>2, <1>t, <1>b, StartRestoreData DEF RecoverStart, Enter
<1> QED BY <1>1, <1>2 DEF RecoverStep

LEMMA ConfirmData ==
  ASSUME Inv, Inv', DataInv, NEW c \in Clis, ConfirmStep(c)
  PROVE  DataInv'
<1>t. PICK t : t = Txn(c)
  OBVIOUS
<1>a. /\ c \in Actors /\ c \notin Txns /\ proc[c] \in Procs /\ TypeOK
      /\ TxnKnown(c) /\ StateKnown(c)
  BY Disjoint DEF Actors, Inv, TypeOK
<1>b. proc[c].pc \in {"claimwrite", "marking", "killing", "settling"} =>
        lock = c /\ t \in Txns /\ State(t) = "APPLIED_UNCONFIRMED"
  BY <1>t, <1>a DEF Inv, LockHeld, TxnKnown, StateKnown, Critical, CliCritical, CliPcs
<1>1. CASE ConfirmSettles(c)
  <2>1. /\ t \in Txns /\ lock' = NoActor
        /\ journal' = Pruned([journal EXCEPT ![t].state = "CONFIRMED"])
    BY <1>1, <1>t, <1>b DEF ConfirmSettles, Finish, At
  <2> QED BY <1>a, <2>1, PrunedDirs, LeaveData
<1>2. CASE ConfirmClaims(c) \/ ConfirmClaimWrite(c) \/ WriteMarker(c) \/ KillWatchdog(c)
  <2>1. lock' = c
    BY <1>2, <1>b DEF ConfirmClaims, ConfirmClaimWrite, WriteMarker, KillWatchdog, Enter, At
  <2>2. \A u \in Txns : State(u)' = State(u) /\ journal'[u].started = journal[u].started
    BY <1>2, <1>a DEF ConfirmClaims, ConfirmClaimWrite, WriteMarker, KillWatchdog,
                      TypeOK, Journals, State
  <2>3. proc'[c].pc \in {"claimwrite", "marking", "killing", "settling"}
    <3>1. CASE ConfirmClaims(c)
      BY <1>a, <3>1 DEF ConfirmClaims, TypeOK, Procs
    <3>2. CASE ConfirmClaimWrite(c) \/ WriteMarker(c)
      BY <1>a, <3>2 DEF ConfirmClaimWrite, WriteMarker, TypeOK, Procs
    <3>3. CASE KillWatchdog(c)
      <4>1. t \in Txns /\ t # c
        BY <1>a, <1>b, <3>3 DEF KillWatchdog, At
      <4>2. proc'[c] = [proc[c] EXCEPT !.pc = "settling"]
        BY <1>t, <1>a, <3>3, <4>1 DEF KillWatchdog, TypeOK
      <4> QED BY <1>a, <4>2 DEF Procs
    <3> QED BY <1>2, <3>1, <3>2, <3>3
  <2>4. DataKnown(c)'
    BY <1>a, <2>3, IdleData
  <2> QED BY <1>a, <2>1, <2>2, <2>4, SameDirs, HoldData
<1> QED BY <1>1, <1>2 DEF ConfirmStep

LEMMA RollbackData ==
  ASSUME Inv, Inv', DataInv, NEW c \in Clis, RollbackStep(c)
  PROVE  DataInv'
<1>t. PICK t : t = Txn(c)
  OBVIOUS
<1>a. /\ c \in Actors /\ c \notin Txns /\ proc[c] \in Procs /\ TypeOK
      /\ TxnKnown(c) /\ StateKnown(c) /\ DataKnown(c)
  BY Disjoint DEF Actors, Inv, TypeOK, DataInv
<1>b. proc[c].pc \in {"decide", "redo"} => lock = c /\ t \in Txns
  BY <1>t, <1>a DEF Inv, LockHeld, TxnKnown, Critical, CliCritical, CliPcs
<1>1. CASE RollbackBegin(c)
  <2>1. PICK u, view :
          /\ u \in Txns /\ NextId(u) /\ SetState(u, "PENDING")
          /\ proc' = [proc EXCEPT ![c].pc = "snapshot", ![c].txn = u, ![c].view = view]
    BY <1>1 DEF RollbackBegin
  <2>2. proc'[c].pc = "snapshot"
    BY <1>a, <2>1 DEF TypeOK, Procs
  <2>3. journal[u].started = {}
    BY <2>1 DEF NextId, DataInv, DirKnown
  <2>4. \A v \in Txns : DirKnown(v)'
    BY <1>a, <2>1, <2>3, SetStateDirs, TurnDir DEF BlockingStates
  <2>5. lock' = c
    BY <1>1 DEF RollbackBegin, Enter
  <2> QED BY <1>a, <2>2, <2>4, <2>5, IdleData, HoldData
<1>2. CASE StartRedo(c)
  <2>1. /\ t \in Txns /\ lock' = c /\ fabric' = fabric /\ SetState(t, "APPLYING")
        /\ proc[c].pc = "decide"
    BY <1>2, <1>t, <1>b DEF StartRedo, At, SetState
  <2>2. \A u \in Txns : DirKnown(u)'
    BY <1>a, <2>1, SetStateDirs, TurnDir DEF BlockingStates
  <2>3. proc'[c] = [proc[c] EXCEPT !.pc = "redo", !.todo = Planned(c)]
    BY <1>2, <1>a DEF StartRedo, TypeOK
  <2>4. /\ proc'[c].pc = "redo" /\ proc'[c].todo = Planned(c) /\ proc'[c].txn = t
        /\ Planned(c)' = Planned(c)
    BY <1>t, <1>a, <2>3 DEF Procs, Planned, Txn
  <2>5. Snap(c)' = Snap(c)
    BY <1>t, <1>a, <2>1, <2>4, SetStateDirs DEF Snap, Txn
  <2>6. \A r \in Planned(c) : Snap(c)[r] # NoSnap
    BY <1>a, <2>1, ProtocolAssumption DEF DataKnown, SnapshotFits, At, Planned, TypeOK
  <2>7. RedoFits(c)'
    BY <2>4, <2>5, <2>6 DEF RedoFits
  <2>8. DataKnown(c)'
    BY <2>4, <2>7 DEF DataKnown, SnapshotFits, CommitFits, RestoreFits, At
  <2> QED BY <1>a, <2>1, <2>2, <2>8, HoldData
<1>3. ASSUME NEW r \in Planned(c), NEW value, NEW failed, RedoStep(c, r, value, failed),
             failed \/ proc[c].view[r] \in {Absent, value}
      PROVE  DataInv'
  <2>1. /\ t \in Txns /\ lock' = c /\ proc[c].pc = "redo" /\ r \in proc[c].todo /\ r \in Refs
        /\ State(t) = "APPLYING" /\ RedoFits(c)
    BY <1>3, <1>t, <1>a, <1>b DEF RedoStep, At, Planned, StateKnown, DataKnown
  <2>2. proc'[c] = [proc[c] EXCEPT !.todo = @ \ {r}, !.bad = @ \/ failed]
    BY <1>3, <1>a DEF RedoStep, TypeOK
  <2>3. /\ proc'[c].pc = "redo" /\ proc'[c].txn = t /\ proc'[c].todo = proc[c].todo \ {r}
        /\ proc'[c].bad = (proc[c].bad \/ failed) /\ proc'[c].view = proc[c].view
        /\ Planned(c)' = Planned(c)
    BY <1>t, <1>a, <2>1, <2>2 DEF Procs, Planned, Txn
  <2>4. /\ journal'[t].started = journal[t].started \cup {r} /\ journal'[t].snap = journal[t].snap
        /\ journal'[t].state = journal[t].state
        /\ \A u \in Txns \ {t} : journal'[u] = journal[u]
    BY <1>3, <1>t, <1>a, <2>1 DEF RedoStep, TypeOK, Journals
  <2>5. Snap(c)' = Snap(c) /\ Started(c)' = Started(c) \cup {r}
    BY <1>t, <2>3, <2>4 DEF Snap, Started, Txn
  <2>6. fabric'[r] = value /\ \A q \in Refs \ {r} : fabric'[q] = fabric[q]
    BY <1>3, <1>a, <2>1 DEF RedoStep, TypeOK
  <2>7. ASSUME ~proc'[c].bad, NEW q \in Planned(c) \ proc'[c].todo
        PROVE  proc[c].view[q] \in {Absent, fabric'[q]}
    <3>1. ~proc[c].bad /\ ~failed
      BY <2>3, <2>7
    <3>2. CASE q = r
      BY <1>3, <2>6, <3>1, <3>2
    <3>3. CASE q # r
      BY <2>1, <2>3, <2>6, <2>7, <3>1, <3>3 DEF RedoFits, At, Planned
    <3> QED BY <3>2, <3>3
  <2>8. RedoFits(c)'
    BY <2>1, <2>3, <2>5, <2>7 DEF RedoFits, At
  <2>9. DataKnown(c)'
    BY <2>3, <2>8 DEF DataKnown, SnapshotFits, CommitFits, RestoreFits, At
  <2>10. \A u \in Txns : DirKnown(u)'
    <3>1. DirKnown(t)'
      BY <2>1, <2>4 DEF DirKnown, State, BlockingStates
    <3>2. \A u \in Txns \ {t} : DirKnown(u)'
      BY <2>4 DEF DirKnown, DataInv, State
    <3> QED BY <3>1, <3>2
  <2> QED BY <1>a, <2>1, <2>9, <2>10, HoldData
<1>4. CASE Redo(c)
  <2>1. PICK r \in Planned(c) :
          \/ RedoStep(c, r, proc[c].view[r], FALSE)
          \/ proc[c].view[r] = Absent /\ RedoStep(c, r, fabric[r], FALSE)
    BY <1>4 DEF Redo
  <2> QED BY <1>3, <2>1
<1>5. CASE RedoFails(c)
  <2>1. PICK r \in Planned(c) : \E value : RedoStep(c, r, value, TRUE)
    BY <1>5 DEF RedoFails
  <2> QED BY <1>3, <2>1
<1>6. CASE RedoDone(c)
  <2>1. t \in Txns /\ lock' = NoActor
    BY <1>6, <1>b DEF RedoDone, Finish, At
  <2>2. CASE proc[c].bad
    <3>1. SetState(t, "REVERT_FAILED")
      BY <1>6, <1>t, <2>2 DEF RedoDone, SetState
    <3>2. \A u \in Txns : DirKnown(u)'
      BY <1>a, <2>1, <3>1, SetStateDirs, TurnDir DEF BlockingStates
    <3> QED BY <1>a, <2>1, <3>2, LeaveData
  <2>3. CASE ~proc[c].bad
    <3>1. journal' = Pruned([journal EXCEPT ![t].state = "CONFIRMED"])
      BY <1>6, <1>t, <2>3 DEF RedoDone
    <3> QED BY <1>a, <2>1, <3>1, PrunedDirs, LeaveData
  <2> QED BY <2>2, <2>3
<1> QED BY <1>1, <1>2, <1>4, <1>5, <1>6 DEF RollbackStep

LEMMA InitData == Init => DataInv
<1> SUFFICES ASSUME Init PROVE DataInv
  OBVIOUS
<1>1. \A a \in Actors : proc[a].pc \in {"none", "idle"}
  BY DEF Init, Ended, Fresh
<1>2. \A a \in Actors : DataKnown(a)
  BY <1>1 DEF DataKnown, SnapshotFits, CommitFits, RestoreFits, RedoFits, At
<1>3. \A t \in Txns : DirKnown(t)
  BY DEF Init, NoJournal, DirKnown, State, BlockingStates
<1> QED BY <1>2, <1>3 DEF DataInv

LEMMA NextData ==
  ASSUME Inv, Inv', DataInv, [Next]_vars
  PROVE  DataInv'
<1>1. ASSUME NEW t \in Txns, Time(t) PROVE DataInv'
  <2>1. /\ \A u \in Txns : /\ State(u)' = State(u) /\ journal'[u].snap = journal[u].snap
                           /\ journal'[u].started = journal[u].started
        /\ fabric' = fabric /\ proc' = proc
    BY <1>1 DEF Time, State, Inv, TypeOK, Journals
  <2>2. ASSUME NEW a \in Actors PROVE DataKnown(a)'
    <3>1. CASE ~Critical(a)'
      BY <3>1, OutsideData DEF Inv
    <3>2. CASE Critical(a)'
      <4>1. Txn(a) \in Txns /\ DataKnown(a) /\ proc'[a] = proc[a] /\ Txn(a)' = Txn(a)
        BY <2>1, <3>2 DEF Critical, At, Inv, TxnKnown, DataInv, Txn
      <4>2. Snap(a)' = Snap(a) /\ Started(a)' = Started(a) /\ Planned(a)' = Planned(a)
        BY <2>1, <4>1 DEF Snap, Started, Planned
      <4> QED BY <2>1, <4>1, <4>2
              DEF DataKnown, SnapshotFits, CommitFits, RestoreFits, RedoFits, At
    <3> QED BY <3>1, <3>2
  <2> QED BY <2>1, <2>2, SameDirs DEF DataInv
<1>2. CASE UNCHANGED vars
  BY <1>2 DEF vars, DataInv, DirKnown, DataKnown, SnapshotFits, CommitFits, RestoreFits,
              RedoFits, At, State, Snap, Started, Txn, Planned
<1>3. ASSUME NEW c \in Clis PROVE c \in Actors
  BY DEF Actors
<1>4. ASSUME NEW t \in Txns PROVE t \in Actors
  BY DEF Actors
<1> QED BY <1>1, <1>2, <1>3, <1>4, QueueQuiet, WatchdogQuiet, CrashQuiet, QuietData, CommitData,
           ConfirmData, RollbackData, RestoreData, RecoverData DEF Next

-----------------------------------------------------------------------------
(* What follows for commits, restores and rollbacks.                       *)

\* What the journals, the resources and the processes say of each other stays
\* true whatever happens (_commit_locked, _revert_items, rollback_history_txn).
THEOREM DataInvariance == Spec => []DataInv
<1>1. Inv /\ Inv' /\ DataInv /\ [Next]_vars => DataInv'
  BY NextData
<1> QED BY <1>1, InitData, Invariance, PTL DEF Spec

\* No commit overwrites what its operator has not seen and its journal does not
\* hold: the resource it is about to write still is as recorded and, without
\* --rebase, as planned (the DRIFT abort of _commit_locked).
THEOREM NothingIsOverwrittenUnseen == Spec => []NoLostUpdate
<1>1. Inv /\ DataInv => NoLostUpdate
  <2> SUFFICES ASSUME DataInv, NEW c \in Clis, At(c, "write"), NEW r \in proc[c].item
               PROVE  /\ fabric[r] = journal[Txn(c)].snap[r]
                      /\ proc[c].rebase \/ fabric[r] = proc[c].view[r]
    BY DEF NoLostUpdate
  <2>1. CommitFits(c) /\ proc[c].pc = "write"
    BY DEF DataInv, DataKnown, Actors, At
  <2> QED BY <2>1 DEF CommitFits, At, Snap
<1> QED BY <1>1, Invariance, DataInvariance, PTL

\* Whatever a commit has changed is named in its journal before it changes
\* (APPLY_START is flushed first), so recovery finds all of it.
THEOREM JournalCoversEveryWrite == Spec => []RecoveryCoversEveryWrite
<1>1. Inv /\ DataInv => RecoveryCoversEveryWrite
  <2> SUFFICES ASSUME DataInv, NEW c \in Clis, proc[c].pc \in CommitPcs \ {"snapshot"},
                      NEW r \in Refs \ journal[Txn(c)].started
               PROVE  journal[Txn(c)].snap[r] \in {NoSnap, fabric[r]}
    BY DEF RecoveryCoversEveryWrite
  <2>1. CommitFits(c) /\ SnapshotFits(c)
    BY DEF DataInv, DataKnown, Actors
  <2> QED BY <2>1 DEF CommitFits, SnapshotFits, At, Snap, Started, CommitPcs
<1> QED BY <1>1, Invariance, DataInvariance, PTL

\* REVERTED is only ever written once every resource the transaction started to
\* write holds its snapshot again (_revert_items, _confirm_restored).
THEOREM RevertsAreTrue == Spec => RevertedMeansRestored
<1>1. Inv /\ DataInv /\ [Next]_vars =>
        [\A t \in Txns :
           State(t) # "REVERTED" /\ State(t)' = "REVERTED" =>
             \A r \in journal[t].started : journal[t].snap[r] \in {Absent, fabric[r]}]_vars
  <2> SUFFICES ASSUME Inv, DataInv, [Next]_vars, NEW t \in Txns,
                      State(t) # "REVERTED", State(t)' = "REVERTED",
                      NEW r \in journal[t].started
               PROVE  journal[t].snap[r] \in {Absent, fabric[r]}
    OBVIOUS
  <2>1. StateTurns
    BY NextTurns
  <2>2. PICK a \in Actors : Txn(a) = t /\ RestoreDone(a) /\ ~proc[a].bad
    <3>1. ASSUME NEW u \in Txns, NEW from, NEW to, Turns(u, from, to)
          PROVE  u = t /\ to = "REVERTED"
      BY <3>1 DEF Turns
    <3>2. ASSUME NEW c \in Clis, NEW u \in Txns, Confirms(c, u)
          PROVE  FALSE
      BY <3>2, ConfirmsStates
    <3>3. ~SameStates
      BY DEF SameStates
    <3> QED BY <2>1, <3>1, <3>2, <3>3 DEF StateTurns, CommitTurns, RestoreTurns
  <2>3. RestoreFits(a) /\ At(a, "restore") /\ proc[a].todo = {}
    BY <2>2 DEF DataInv, DataKnown, RestoreDone
  <2> QED BY <2>2, <2>3 DEF RestoreFits, Snap, Started
<1> QED BY <1>1, Invariance, DataInvariance, PTL DEF Spec, RevertedMeansRestored

\* rollback <n> reports CONFIRMED only with every old snapshot back in place and
\* recorded in its own journal (rollback_history_txn).
THEOREM RollbackIsComplete == Spec => RollbackRestores
<1>1. Inv /\ DataInv /\ [Next]_vars =>
        [\A c \in Clis, t \in Txns :
          At(c, "redo") /\ Txn(c) = t /\ State(t)' = "CONFIRMED" =>
          \A r \in Planned(c) :
            /\ r \in journal[t].started /\ journal[t].snap[r] # NoSnap
            /\ proc[c].view[r] \in {Absent, fabric[r]}]_vars
  <2> SUFFICES ASSUME Inv, DataInv, [Next]_vars, NEW c \in Clis, NEW t \in Txns,
                      At(c, "redo"), Txn(c) = t, State(t)' = "CONFIRMED",
                      NEW r \in Planned(c)
               PROVE  /\ r \in journal[t].started /\ journal[t].snap[r] # NoSnap
                      /\ proc[c].view[r] \in {Absent, fabric[r]}
    OBVIOUS
  <2>1. c \in Actors /\ Critical(c) /\ State(t) = "APPLYING" /\ RedoFits(c)
    BY DEF Actors, Critical, CliCritical, CliPcs, At, Inv, StateKnown, DataInv, DataKnown
  <2>2. StateTurns
    BY NextTurns
  <2>3. ASSUME NEW u \in Txns, NEW from, NEW to, Turns(u, from, to)
        PROVE  u = t /\ to = "CONFIRMED"
    BY <2>1, <2>3 DEF Turns
  <2>4. ~SameStates
    BY <2>1 DEF SameStates
  <2>5. PICK d \in Clis, u \in Txns : Txn(d) = u /\ Confirms(d, u)
    BY <2>2, <2>3, <2>4 DEF StateTurns, CommitTurns, RestoreTurns
  <2>6. Critical(d)
    BY <2>5 DEF Confirms, CommitDone, ConfirmSettles, RedoDone, At, Critical, CliCritical, CliPcs
  <2>7. d = c
    BY <2>1, <2>6 DEF Inv, LockHeld, Actors
  <2>8. proc[c].todo = {} /\ ~proc[c].bad
    BY <2>5, <2>7 DEF Confirms, CommitDone, ConfirmSettles, RedoDone, At
  <2> QED BY <2>1, <2>8 DEF RedoFits, Snap, Started
<1> QED BY <1>1, Invariance, DataInvariance, PTL DEF Spec, RollbackRestores

-----------------------------------------------------------------------------
(* The history.                                                            *)

\* A non-empty set of transactions has a newest.
LEMMA NewestOf ==
  ASSUME NEW S, S \subseteq Txns, S # {}
  PROVE  \E m \in S : \A u \in S : u <= m
<1> DEFINE R == OpToRel(<, Nat)
           T == {MaxTxn - u : u \in S}
<1>a. MaxTxn \in Nat /\ \A u \in S : MaxTxn - u \in Nat
  BY ProtocolAssumption DEF Txns
<1>1. T \subseteq Nat /\ T # {}
  BY <1>a
<1>2. IsWellFoundedOn(R, Nat)
  BY NatLessThanWellFounded
<1>3. \A x, y \in Nat : x < y => <<x, y>> \in R
  BY DEF OpToRel
<1> HIDE DEF R
<1>4. PICK x \in T : \A y \in T : ~(<<y, x>> \in R)
  BY <1>1, <1>2, WFMin
<1>5. PICK m \in S : x = MaxTxn - m
  BY <1>4
<1>6. ASSUME NEW u \in S PROVE u <= m
  <2>1. MaxTxn - u \in T /\ MaxTxn - u \in Nat /\ x \in Nat
    BY <1>1, <1>4
  <2>2. ~(MaxTxn - u < x)
    BY <1>3, <1>4, <2>1
  <2>3. u \in Nat /\ m \in Nat
    BY <1>a DEF Txns
  <2> QED BY <1>a, <1>5, <2>2, <2>3
<1> QED BY <1>6

LEMMA TxnsFinite == IsFiniteSet(Txns)
  BY ProtocolAssumption, FS_Interval DEF Txns

\* prune_history removes a confirmed transaction only when Keep newer ones stay.
LEMMA PrunedKeeps ==
  ASSUME NEW j \in [Txns -> Journals], NEW t \in Txns,
         j[t].state = "CONFIRMED", Pruned(j)[t].state = "GONE"
  PROVE  Cardinality({u \in Txns : u > t /\ Pruned(j)[u].state = "CONFIRMED"}) >= Keep
<1> DEFINE Newer(v) == {u \in Txns : u > v /\ j[u].state \in {"CONFIRMED"}}
           Stay     == {u \in Txns : u > t /\ Pruned(j)[u].state = "CONFIRMED"}
           Out      == {v \in Txns : j[v].state = "CONFIRMED" /\ Cardinality(Newer(v)) >= Keep}
<1>1. ASSUME NEW v \in Txns, j[v].state = "CONFIRMED"
      PROVE  /\ v \in Out => Pruned(j)[v].state = "GONE"
             /\ v \notin Out => Pruned(j)[v].state = "CONFIRMED"
  <2>1. v \notin Evicted(j, Terminal \ {"CONFIRMED"}, AuditKeep)
    BY <1>1 DEF Evicted
  <2>2. v \in Evicted(j, {"CONFIRMED"}, Keep) <=> v \in Out
    BY <1>1 DEF Evicted
  <2>3. [NoJournal EXCEPT !.state = "GONE"].state = "GONE"
    BY DEF NoJournal
  <2> QED BY <1>1, <2>1, <2>2, <2>3 DEF Pruned
<1>2. t \in Out
  BY <1>1
<1>3. \A S : S \subseteq Txns => IsFiniteSet(S) /\ Cardinality(S) \in Nat
  BY TxnsFinite, FS_Subset, FS_CardinalityType
<1>4. Keep \in Nat
  BY ProtocolAssumption
<1>5. CASE Newer(t) \cap Out = {}
  <2>1. Newer(t) \subseteq Stay
    BY <1>1, <1>5
  <2>2. Cardinality(Newer(t)) <= Cardinality(Stay)
    BY <1>3, <2>1, FS_Subset
  <2>3. Cardinality(Newer(t)) >= Keep
    BY <1>2
  <2> QED BY <1>3, <1>4, <2>2, <2>3
<1>6. CASE Newer(t) \cap Out # {}
  <2>1. PICK m \in Newer(t) \cap Out : \A u \in Newer(t) \cap Out : u <= m
    BY <1>6, NewestOf
  <2>2. Newer(m) \subseteq Stay
    <3> SUFFICES ASSUME NEW u \in Newer(m) PROVE u \in Stay
      OBVIOUS
    <3>1. u \in Txns /\ u > m /\ m > t /\ m \in Txns /\ j[u].state = "CONFIRMED"
      BY <2>1
    <3>2. u > t /\ ~(u <= m)
      BY <3>1, ProtocolAssumption DEF Txns
    <3> QED BY <1>1, <2>1, <3>1, <3>2
  <2>3. Cardinality(Newer(m)) <= Cardinality(Stay)
    BY <1>3, <2>2, FS_Subset
  <2>4. Cardinality(Newer(m)) >= Keep
    BY <2>1
  <2> QED BY <1>3, <1>4, <2>3, <2>4
<1> QED BY <1>5, <1>6

\* Pruning takes a rollback point only when Keep newer ones remain, whatever else
\* the directory holds (prune_history).
THEOREM HistoryIsKept == Spec => HistoryKept
<1>1. Inv /\ [Next]_vars =>
        [\A t \in Txns :
          State(t) = "CONFIRMED" /\ State(t)' = "GONE" =>
            Cardinality({u \in Txns : u > t /\ State(u)' = "CONFIRMED"}) >= Keep]_vars
  <2> SUFFICES ASSUME Inv, [Next]_vars, NEW t \in Txns,
                      State(t) = "CONFIRMED", State(t)' = "GONE"
               PROVE  Cardinality({u \in Txns : u > t /\ State(u)' = "CONFIRMED"}) >= Keep
    OBVIOUS
  <2>1. StateTurns
    BY NextTurns
  <2>2. ASSUME NEW u \in Txns, NEW from, NEW to, Turns(u, from, to)
        PROVE  u = t /\ to = "GONE"
    BY <2>2 DEF Turns
  <2>3. ~SameStates
    BY DEF SameStates
  <2>4. PICK c \in Clis, v \in Txns : Confirms(c, v)
    BY <2>1, <2>2, <2>3 DEF StateTurns, CommitTurns, RestoreTurns
  <2> DEFINE j == [journal EXCEPT ![v].state = "CONFIRMED"]
  <2>5. journal' = Pruned(j) /\ j \in [Txns -> Journals]
    BY <2>4, StateType DEF Confirms, Inv, States, Terminal
  <2>6. v # t /\ j[t].state = "CONFIRMED"
    BY <2>4 DEF Confirms, State, Inv, TypeOK
  <2> HIDE DEF j
  <2>7. Cardinality({u \in Txns : u > t /\ Pruned(j)[u].state = "CONFIRMED"}) >= Keep
    BY <2>5, <2>6, PrunedKeeps DEF State
  <2>8. \A u \in Txns : State(u)' = Pruned(j)[u].state
    BY <2>5 DEF State
  <2>9. {u \in Txns : u > t /\ State(u)' = "CONFIRMED"}
          = {u \in Txns : u > t /\ Pruned(j)[u].state = "CONFIRMED"}
    BY <2>8
  <2> QED BY <2>7, <2>9
<1> QED BY <1>1, Invariance, PTL DEF Spec, HistoryKept

-----------------------------------------------------------------------------
(* The watchdogs.                                                          *)

Early == {"NONE", "PENDING", "APPLYING"}

\* A watchdog that was never launched left no pid file, one that was launched
\* belongs to a window that was opened, and one past its watch has seen the
\* deadline go by.
WdKnown(t) ==
  /\ At(t, "none") => ~journal[t].pidFile
  /\ ~At(t, "none") => State(t) \notin Early
  /\ proc[t].pc \in {"expired", "claimwrite", "queued"} => journal[t].deadline # "running"

\* A commit launches its watchdog once, and a CLI recovers only what exists.
CliKnown(c) ==
  /\ At(c, "arming") => At(Txn(c), "none")
  /\ At(c, "queued") /\ proc[c].op = "recover" => State(Txn(c)) # "NONE"

WatchInv == (\A t \in Txns : WdKnown(t)) /\ (\A c \in Clis : CliKnown(c))

\* A transaction never goes back to before its first write, or to before its
\* creation.
LEMMA EarlyIsOver ==
  ASSUME Inv, StateTurns, NEW t \in Txns
  PROVE  /\ State(t)' \in Early => State(t) \in Early
         /\ State(t)' = "NONE" => State(t) = "NONE"
<1>1. ASSUME NEW u \in Txns, NEW from, NEW to, Turns(u, from, to),
             to \notin Early \/ (to = "PENDING" /\ from = {"NONE"})
                             \/ (to = "APPLYING" /\ from = {"PENDING"})
      PROVE  /\ State(t)' \in Early => State(t) \in Early
             /\ State(t)' = "NONE" => State(t) = "NONE"
  BY <1>1 DEF Turns, Early
<1>2. ASSUME NEW c \in Clis, NEW u \in Txns, Confirms(c, u)
      PROVE  /\ State(t)' \in Early => State(t) \in Early
             /\ State(t)' = "NONE" => State(t) = "NONE"
  BY <1>2, ConfirmsStates DEF Early
<1>3. ASSUME NEW c \in Clis, NEW u \in Txns, CommitTurns(c, u)
      PROVE  /\ State(t)' \in Early => State(t) \in Early
             /\ State(t)' = "NONE" => State(t) = "NONE"
  BY <1>1, <1>2, <1>3 DEF CommitTurns, Early
<1>4. ASSUME NEW a \in Actors, NEW u \in Txns, RestoreTurns(a, u)
      PROVE  /\ State(t)' \in Early => State(t) \in Early
             /\ State(t)' = "NONE" => State(t) = "NONE"
  BY <1>1, <1>4 DEF RestoreTurns, Early
<1> QED BY <1>1, <1>3, <1>4 DEF StateTurns, SameStates, Early

\* No pid file appears and no deadline is set.
Mild ==
  \A t \in Txns : /\ journal'[t].pidFile => journal[t].pidFile
                  /\ journal'[t].deadline = "running" => journal[t].deadline = "running"

LEMMA SetStateMild ==
  ASSUME TypeOK, NEW t, NEW s, SetState(t, s)
  PROVE  Mild
  BY DEF TypeOK, Journals, SetState, Mild

LEMMA PrunedMild ==
  ASSUME TypeOK, NEW t, journal' = Pruned([journal EXCEPT ![t].state = "CONFIRMED"])
  PROVE  Mild
<1> DEFINE j == [journal EXCEPT ![t].state = "CONFIRMED"]
<1>1. SUFFICES ASSUME NEW u \in Txns
               PROVE  /\ journal'[u].pidFile => journal[u].pidFile
                      /\ journal'[u].deadline = "running" => journal[u].deadline = "running"
  BY DEF Mild
<1>2. j[u].pidFile = journal[u].pidFile /\ j[u].deadline = journal[u].deadline
  BY DEF TypeOK, Journals
<1>3. journal'[u] \in {j[u], [NoJournal EXCEPT !.state = "GONE"]}
  BY DEF Pruned
<1>4. /\ ~[NoJournal EXCEPT !.state = "GONE"].pidFile
      /\ [NoJournal EXCEPT !.state = "GONE"].deadline = "none"
  BY DEF NoJournal
<1> QED BY <1>2, <1>3, <1>4

\* Process b is where it was, with what it was doing.
Rests(b) ==
  /\ proc'[b].pc = proc[b].pc
  /\ proc'[b].op = proc[b].op /\ proc'[b].txn = proc[b].txn

\* A step that launches no watchdog and takes none past its watch.
LEMMA StepWatch ==
  ASSUME Inv, WatchInv, StateTurns, Mild, NEW a \in Actors,
         \A b \in Actors \ {a} : Rests(b),
         a \in Clis => /\ proc'[a].pc # "arming"
                       /\ proc'[a].pc = "queued" /\ proc'[a].op = "recover" =>
                            \E t \in Txns : proc'[a].txn = t /\ State(t) # "NONE",
         a \in Txns => ~At(a, "none") /\ proc'[a].pc \in {"restore", "exited"}
  PROVE  WatchInv'
<1>1. ASSUME NEW t \in Txns PROVE WdKnown(t)'
  <2>1. WdKnown(t) /\ (State(t)' \in Early => State(t) \in Early)
    BY EarlyIsOver DEF WatchInv
  <2>2. CASE t = a
    BY <2>1, <2>2 DEF WdKnown, At, Mild
  <2>3. CASE t # a
    <3>1. proc'[t].pc = proc[t].pc
      BY <2>3 DEF Rests, Actors
    <3> QED BY <2>1, <3>1 DEF WdKnown, At, Mild
  <2> QED BY <2>2, <2>3
<1>2. ASSUME NEW c \in Clis PROVE CliKnown(c)'
  <2>1. CASE c = a
    <3>1. At(c, "queued")' /\ proc'[c].op = "recover" => State(Txn(c))' # "NONE"
      <4> SUFFICES ASSUME proc'[c].pc = "queued", proc'[c].op = "recover"
                   PROVE  journal'[proc'[c].txn].state # "NONE"
        BY DEF At, State, Txn
      <4>1. PICK t \in Txns : proc'[c].txn = t /\ State(t) # "NONE"
        BY <2>1
      <4> QED BY <4>1, EarlyIsOver DEF State
    <3> QED BY <2>1, <3>1 DEF CliKnown, At
  <2>2. CASE c # a
    <3>1. Rests(c) /\ c \in Actors
      BY <2>2 DEF Actors
    <3>t. PICK t : t = Txn(c)
      OBVIOUS
    <3>2. Txn(c)' = t /\ CliKnown(c) /\ (At(c, "arming")' <=> At(c, "arming"))
      BY <3>t, <3>1 DEF Rests, At, Txn, WatchInv
    <3>3. ASSUME At(c, "arming")' PROVE At(Txn(c), "none")'
      <4>1. At(t, "none") /\ t \in Txns
        BY <3>t, <3>1, <3>2, <3>3 DEF CliKnown, Inv, TxnKnown, Critical, CliCritical, CliPcs, At
      <4>2. t # a /\ t \in Actors
        BY <4>1 DEF Actors
      <4>3. proc'[t].pc = "none"
        BY <4>1, <4>2 DEF Rests, At
      <4> QED BY <3>2, <4>3 DEF At
    <3>4. ASSUME At(c, "queued")', proc'[c].op = "recover" PROVE State(Txn(c))' # "NONE"
      <4>1. At(c, "queued") /\ proc[c].op = "recover"
        BY <3>1, <3>4 DEF Rests, At
      <4>2. State(t) # "NONE" /\ t \in Txns
        BY <3>t, <3>1, <3>2, <4>1 DEF CliKnown, Inv, TxnKnown
      <4>3. State(t)' # "NONE"
        BY <4>2, EarlyIsOver
      <4> QED BY <3>2, <4>3 DEF State
    <3> QED BY <3>3, <3>4 DEF CliKnown
  <2> QED BY <2>1, <2>2
<1> QED BY <1>1, <1>2 DEF WatchInv

\* The end of a command.
LEMMA EndWatch ==
  ASSUME Inv, WatchInv, StateTurns, Mild, NEW a \in Actors,
         proc' = [proc EXCEPT ![a] = Ended(a)], a \in Txns => ~At(a, "none")
  PROVE  WatchInv'
<1>1. proc'[a].pc \in {"idle", "exited"} /\ \A b \in Actors \ {a} : proc'[b] = proc[b]
  BY DEF Ended, Fresh, Inv, TypeOK
<1>2. a \in Txns => proc'[a].pc = "exited"
  BY DEF Ended, Fresh, Inv, TypeOK
<1> QED BY <1>1, <1>2, StepWatch DEF Rests

LEMMA QueueWatch ==
  ASSUME Inv, WatchInv, StateTurns, NEW c \in Clis,
         Plan(c) \/ Leave(c) \/ AskConfirm(c) \/ AskRollback(c) \/ \E t \in Txns : ScanOrphans(c, t)
  PROVE  WatchInv'
<1>1. c \in Actors /\ c \notin Txns /\ proc \in [Actors -> Procs]
  BY Disjoint DEF Actors, Inv, TypeOK
<1>2. journal' = journal
  BY DEF Plan, Leave, AskConfirm, AskRollback, ScanOrphans
<1>3. Mild
  BY <1>2 DEF Mild
<1>4. \A b \in Actors \ {c} : Rests(b)
  BY <1>1 DEF Plan, Leave, AskConfirm, AskRollback, ScanOrphans, Rests
<1>5. /\ proc'[c].pc # "arming"
      /\ proc'[c].pc = "queued" /\ proc'[c].op = "recover" =>
           \E t \in Txns : proc'[c].txn = t /\ State(t) # "NONE"
  <2>1. CASE Plan(c)
    <3>1. PICK view, confirm, rebase :
            proc' = [proc EXCEPT ![c] = [Fresh("queued", "commit", NoTxn) EXCEPT
                       !.view = view, !.confirm = confirm, !.rebase = rebase]]
      BY <2>1 DEF Plan
    <3>2. proc'[c].pc = "queued" /\ proc'[c].op = "commit"
      BY <1>1, <3>1 DEF Fresh
    <3> QED BY <3>2
  <2>2. CASE Leave(c) \/ AskConfirm(c) \/ AskRollback(c)
    BY <1>1, <2>2 DEF Leave, AskConfirm, AskRollback, Ended, Fresh
  <2>3. CASE \E t \in Txns : ScanOrphans(c, t)
    <3>1. PICK t \in Txns : Orphan(t) /\ proc' = [proc EXCEPT ![c] = Fresh("queued", "recover", t)]
      BY <2>3 DEF ScanOrphans
    <3>2. State(t) # "NONE"
      BY <3>1 DEF Orphan, Live, BlockingStates
    <3>3. proc'[c].pc = "queued" /\ proc'[c].txn = t
      BY <1>1, <3>1 DEF Fresh
    <3> QED BY <3>2, <3>3
  <2> QED BY <2>1, <2>2, <2>3
<1> QED BY <1>1, <1>3, <1>4, <1>5, StepWatch

\* A step that sets the program counter of a CLI alone.
LEMMA CliWatch ==
  ASSUME Inv, WatchInv, StateTurns, Mild, NEW c \in Clis,
         proc'[c].pc \notin {"arming", "queued"},
         \A b \in Actors \ {c} : Rests(b)
  PROVE  WatchInv'
  BY Disjoint, StepWatch DEF Actors

LEMMA CommitWatch ==
  ASSUME Inv, WatchInv, StateTurns, NEW c \in Clis, CommitStep(c)
  PROVE  WatchInv'
<1>t. PICK t : t = Txn(c)
  OBVIOUS
<1>a. /\ c \in Actors /\ c \notin Txns /\ proc[c] \in Procs /\ TypeOK
      /\ TxnKnown(c) /\ StateKnown(c) /\ CliKnown(c)
  BY Disjoint DEF Actors, Inv, TypeOK, WatchInv
<1>b. proc[c].pc \in CommitPcs => t \in Txns /\ WdKnown(t) /\ Critical(c)
  BY <1>t, <1>a DEF TxnKnown, Critical, CliCritical, CliPcs, CommitPcs, WatchInv
<1>c. ASSUME NEW d \in Clis, d # c, At(d, "arming")
      PROVE  proc[c].pc \notin CommitPcs
  <2>1. d \in Actors /\ Critical(d)
    BY <1>c DEF Actors, Critical, CliCritical, CliPcs, At
  <2> QED BY <1>a, <1>b, <1>c, <2>1 DEF Inv, LockHeld
<1>1. CASE CommitBegin(c)
  <2>1. PICK u \in Txns : SetState(u, "PENDING")
                        /\ proc' = [proc EXCEPT ![c].pc = "snapshot", ![c].txn = u]
    BY <1>1 DEF CommitBegin
  <2>2. Mild
    BY <1>a, <2>1, SetStateMild
  <2>3. proc'[c].pc = "snapshot" /\ \A b \in Actors \ {c} : Rests(b)
    BY <1>a, <2>1 DEF TypeOK, Procs, Rests
  <2> QED BY <2>2, <2>3, CliWatch
<1>2. CASE Snapshot(c)
  <2>1. Mild
    BY <1>2, <1>a DEF Snapshot, Mild, TypeOK, Journals
  <2>2. proc'[c].pc = "decide" /\ \A b \in Actors \ {c} : Rests(b)
    BY <1>2, <1>a DEF Snapshot, TypeOK, Procs, Rests
  <2> QED BY <2>1, <2>2, CliWatch
<1>9. CASE ApplyStart(c)
  <2>0. PICK r :
          /\ journal' = [journal EXCEPT ![Txn(c)].started = @ \cup {r}]
          /\ proc' = [proc EXCEPT ![c].pc = "write", ![c].todo = @ \ {r}, ![c].item = {r}]
    BY <1>9 DEF ApplyStart
  <2>1. Mild
    BY <2>0, <1>a DEF Mild, TypeOK, Journals
  <2>2. proc'[c].pc = "write" /\ \A b \in Actors \ {c} : Rests(b)
    BY <2>0, <1>a DEF TypeOK, Procs, Rests
  <2> QED BY <2>1, <2>2, CliWatch
<1>3. CASE CloseUnapplied(c) \/ SnapshotFails(c) \/ CommitDone(c) \/ Armed(c)
  <2>1. Mild
    BY <1>3, <1>a, SetStateMild, PrunedMild DEF CloseUnapplied, SnapshotFails, CommitDone, Armed, Mild
  <2>2. proc' = [proc EXCEPT ![c] = Ended(c)]
    BY <1>3 DEF CloseUnapplied, SnapshotFails, CommitDone, Armed, Finish
  <2> QED BY <1>a, <2>1, <2>2, EndWatch
<1>4. CASE StartApplying(c)
  <2>1. Mild
    BY <1>4, <1>a, SetStateMild DEF StartApplying
  <2>2. proc'[c].pc = "apply" /\ \A b \in Actors \ {c} : Rests(b)
    BY <1>4, <1>a DEF StartApplying, TypeOK, Procs, Rests
  <2> QED BY <2>1, <2>2, CliWatch
<1>5. CASE ApplyLands(c) \/ Verified(c)
  <2>1. Mild
    BY <1>5 DEF ApplyLands, Verified, Mild
  <2>2. proc'[c].pc \in {"judge", "apply"} /\ \A b \in Actors \ {c} : Rests(b)
    BY <1>5, <1>a DEF ApplyLands, Verified, TypeOK, Procs, Rests
  <2> QED BY <2>1, <2>2, CliWatch
<1>6. CASE ApplyFails(c) \/ ArmFails(c)
  <2>1. StartRestore(c)
    BY <1>6 DEF ApplyFails, ArmFails
  <2>2. Mild
    BY <1>a, <2>1, SetStateMild DEF StartRestore
  <2>3. proc'[c].pc = "restore" /\ \A b \in Actors \ {c} : Rests(b)
    BY <1>a, <2>1 DEF StartRestore, TypeOK, Procs, Rests
  <2> QED BY <2>2, <2>3, CliWatch
<1>7. CASE OpenWindow(c)
  <2>1. t \in Txns /\ At(t, "none") /\ ~journal[t].pidFile /\ proc[c].pc = "apply"
    BY <1>7, <1>t, <1>a, <1>b DEF OpenWindow, At, CommitPcs, StateKnown, WdKnown, Early
  <2>2. /\ proc'[c].pc = "arming" /\ proc'[c].txn = t
        /\ \A b \in Actors \ {c} : proc'[b] = proc[b]
    BY <1>7, <1>t, <1>a DEF OpenWindow, TypeOK, Procs, Txn
  <2>3. /\ journal'[t].pidFile = journal[t].pidFile /\ State(t)' = "APPLIED_UNCONFIRMED"
        /\ \A u \in Txns \ {t} : journal'[u] = journal[u]
    BY <1>7, <1>t, <1>a, <2>1 DEF OpenWindow, TypeOK, Journals, State
  <2>4. ASSUME NEW u \in Txns PROVE WdKnown(u)'
    <3>1. proc'[u] = proc[u] /\ WdKnown(u)
      BY <1>a, <2>2 DEF Actors, WatchInv
    <3>2. CASE u = t
      BY <2>1, <2>3, <3>1, <3>2 DEF WdKnown, At, Early
    <3>3. CASE u # t
      BY <2>3, <3>1, <3>3 DEF WdKnown, At, State
    <3> QED BY <3>2, <3>3
  <2>5. ASSUME NEW d \in Clis PROVE CliKnown(d)'
    <3>1. CASE d = c
      BY <1>a, <2>1, <2>2, <3>1 DEF CliKnown, At, Txn, Actors
    <3>2. CASE d # c
      <4>1. proc'[d] = proc[d] /\ ~At(d, "arming") /\ CliKnown(d) /\ d \in Actors
        BY <1>c, <2>1, <2>2, <3>2 DEF Actors, WatchInv, CommitPcs
      <4>2. At(d, "queued") /\ proc[d].op = "recover" =>
              \E u \in Txns : proc[d].txn = u /\ State(u) # "NONE" /\ State(u)' # "NONE"
        BY <4>1, EarlyIsOver DEF CliKnown, Inv, TxnKnown, Txn
      <4> QED BY <4>1, <4>2 DEF CliKnown, At, State, Txn
    <3> QED BY <3>1, <3>2
  <2> QED BY <2>4, <2>5 DEF WatchInv
<1>8. CASE SpawnWatchdog(c)
  <2>1. t \in Txns /\ t # c /\ journal' = journal /\ State(t) = "APPLIED_UNCONFIRMED"
        /\ proc[c].pc = "arming"
    BY <1>8, <1>t, <1>a, <1>b DEF SpawnWatchdog, At, CommitPcs, StateKnown
  <2>2. /\ proc'[c].pc = "armwait" /\ proc'[t].pc = "starting"
        /\ \A b \in Actors \ {c, t} : proc'[b] = proc[b]
    <3>1. t \in Actors
      BY <2>1 DEF Actors
    <3>2. proc' = [proc EXCEPT ![c].pc = "armwait", ![t].pc = "starting"]
      BY <1>8, <1>t DEF SpawnWatchdog
    <3>3. proc'[c] = [proc[c] EXCEPT !.pc = "armwait"] /\ proc'[t] = [proc[t] EXCEPT !.pc = "starting"]
      BY <1>a, <2>1, <3>1, <3>2 DEF TypeOK
    <3> QED BY <1>a, <3>1, <3>2, <3>3 DEF TypeOK, Procs
  <2>3. ASSUME NEW u \in Txns PROVE WdKnown(u)'
    <3>1. WdKnown(u) /\ u # c /\ u \in Actors
      BY <1>a DEF WatchInv, Actors
    <3>2. CASE u = t
      BY <2>1, <2>2, <3>2 DEF WdKnown, At, Early, State
    <3>3. CASE u # t
      BY <2>1, <2>2, <3>1, <3>3 DEF WdKnown, At, State
    <3> QED BY <3>2, <3>3
  <2>4. ASSUME NEW d \in Clis PROVE CliKnown(d)'
    <3>1. CASE d = c
      BY <2>2, <3>1 DEF CliKnown, At
    <3>2. CASE d # c
      <4>1. proc'[d] = proc[d] /\ ~At(d, "arming") /\ CliKnown(d)
        BY <1>c, <2>1, <2>2, <3>2, Disjoint DEF Actors, WatchInv, CommitPcs
      <4> QED BY <2>1, <4>1 DEF CliKnown, At, State, Txn
    <3> QED BY <3>1, <3>2
  <2> QED BY <2>3, <2>4 DEF WatchInv
<1> QED BY <1>1, <1>2, <1>3, <1>4, <1>5, <1>6, <1>7, <1>8, <1>9 DEF CommitStep

LEMMA ConfirmWatch ==
  ASSUME Inv, WatchInv, StateTurns, NEW c \in Clis, ConfirmStep(c)
  PROVE  WatchInv'
<1>t. PICK t : t = Txn(c)
  OBVIOUS
<1>a. c \in Actors /\ c \notin Txns /\ proc[c] \in Procs /\ TypeOK /\ TxnKnown(c)
  BY Disjoint DEF Actors, Inv, TypeOK
<1>1. CASE ConfirmSettles(c)
  <2>1. Mild
    BY <1>1, <1>a, PrunedMild DEF ConfirmSettles, Mild
  <2>2. proc' = [proc EXCEPT ![c] = Ended(c)]
    BY <1>1 DEF ConfirmSettles, Finish
  <2> QED BY <1>a, <2>1, <2>2, EndWatch
<1>2. CASE ConfirmClaims(c) \/ ConfirmClaimWrite(c) \/ WriteMarker(c)
  <2>1. Mild
    BY <1>2, <1>a DEF ConfirmClaims, ConfirmClaimWrite, WriteMarker, Mild, TypeOK, Journals
  <2>2. /\ proc'[c].pc \in {"claimwrite", "marking", "killing"}
        /\ \A b \in Actors \ {c} : Rests(b)
    BY <1>2, <1>a DEF ConfirmClaims, ConfirmClaimWrite, WriteMarker, TypeOK, Procs, Rests
  <2> QED BY <2>1, <2>2, CliWatch
<1>3. CASE KillWatchdog(c)
  <2>1. Mild
    BY <1>3 DEF KillWatchdog, Mild
  <2>2. t \in Txns /\ t \in Actors /\ t # c
    BY <1>3, <1>t, <1>a DEF KillWatchdog, TxnKnown, Critical, CliCritical, CliPcs, At, Actors
  <2>3. PICK term : proc' = [proc EXCEPT ![c].pc = "settling", ![t].term = term]
    BY <1>3, <1>t DEF KillWatchdog
  <2>4. /\ proc'[c] = [proc[c] EXCEPT !.pc = "settling"]
        /\ proc'[t] = [proc[t] EXCEPT !.term = term]
        /\ \A b \in Actors \ {c, t} : proc'[b] = proc[b]
    BY <1>a, <2>2, <2>3 DEF TypeOK
  <2>5. proc'[c].pc = "settling" /\ Rests(t)
    BY <1>a, <2>2, <2>4 DEF TypeOK, Procs, Rests
  <2>6. \A b \in Actors \ {c} : Rests(b)
    BY <2>4, <2>5 DEF Rests
  <2> QED BY <2>1, <2>5, <2>6, CliWatch
<1> QED BY <1>1, <1>2, <1>3 DEF ConfirmStep

LEMMA RollbackWatch ==
  ASSUME Inv, WatchInv, StateTurns, NEW c \in Clis, RollbackStep(c)
  PROVE  WatchInv'
<1>a. c \in Actors /\ c \notin Txns /\ proc[c] \in Procs /\ TypeOK
  BY Disjoint DEF Actors, Inv, TypeOK
<1>1. CASE RollbackBegin(c)
  <2>1. PICK u, view :
          /\ SetState(u, "PENDING")
          /\ proc' = [proc EXCEPT ![c].pc = "snapshot", ![c].txn = u, ![c].view = view]
    BY <1>1 DEF RollbackBegin
  <2>2. Mild
    BY <1>a, <2>1, SetStateMild
  <2>3. proc'[c].pc = "snapshot" /\ \A b \in Actors \ {c} : Rests(b)
    BY <1>a, <2>1 DEF TypeOK, Procs, Rests
  <2> QED BY <2>2, <2>3, CliWatch
<1>2. CASE StartRedo(c)
  <2>1. Mild
    BY <1>2, <1>a, SetStateMild DEF StartRedo
  <2>2. proc'[c].pc = "redo" /\ \A b \in Actors \ {c} : Rests(b)
    BY <1>2, <1>a DEF StartRedo, TypeOK, Procs, Rests
  <2> QED BY <2>1, <2>2, CliWatch
<1>3. CASE Redo(c) \/ RedoFails(c)
  <2>1. PICK r : \E value, failed : RedoStep(c, r, value, failed)
    BY <1>3 DEF Redo, RedoFails
  <2>2. Mild
    BY <1>a, <2>1 DEF RedoStep, Mild, TypeOK, Journals
  <2>3. proc'[c].pc = "redo" /\ \A b \in Actors \ {c} : Rests(b)
    BY <1>a, <2>1 DEF RedoStep, TypeOK, Procs, Rests, At
  <2> QED BY <2>2, <2>3, CliWatch
<1>4. CASE RedoDone(c)
  <2>1. Mild
    <3>1. CASE proc[c].bad
      <4>1. SetState(Txn(c), "REVERT_FAILED")
        BY <1>4, <3>1 DEF RedoDone, SetState
      <4> QED BY <1>a, <4>1, SetStateMild
    <3>2. CASE ~proc[c].bad
      BY <1>4, <1>a, <3>2, PrunedMild DEF RedoDone
    <3> QED BY <3>1, <3>2
  <2>2. proc' = [proc EXCEPT ![c] = Ended(c)]
    BY <1>4 DEF RedoDone, Finish
  <2> QED BY <1>a, <2>1, <2>2, EndWatch
<1> QED BY <1>1, <1>2, <1>3, <1>4 DEF RollbackStep

LEMMA RestoreWatch ==
  ASSUME Inv, WatchInv, StateTurns, NEW a \in Actors, RestoreSteps(a) \/ RecoverStep(a)
  PROVE  WatchInv'
<1>a. proc[a] \in Procs /\ TypeOK /\ ~At(a, "none")
  BY DEF Inv, TypeOK, RestoreSteps, RecoverStep, Restore, RestoreFails, RestoreStep, RestoreDone,
         RecoverNothing, RecoverStart, Enter, At
<1>1. CASE Restore(a) \/ RestoreFails(a)
  <2>1. PICK r : \E value, failed : RestoreStep(a, r, value, failed)
    BY <1>1 DEF Restore, RestoreFails
  <2>2. Mild
    BY <2>1 DEF RestoreStep, Mild
  <2>3. proc'[a].pc = "restore" /\ \A b \in Actors \ {a} : Rests(b)
    BY <1>a, <2>1 DEF RestoreStep, TypeOK, Procs, Rests, At
  <2> QED BY <1>a, <2>2, <2>3, StepWatch
<1>2. CASE RestoreDone(a) \/ RecoverNothing(a)
  <2>1. Mild
    BY <1>2, <1>a, SetStateMild DEF RestoreDone, RecoverNothing
  <2>2. proc' = [proc EXCEPT ![a] = Ended(a)]
    BY <1>2 DEF RestoreDone, RecoverNothing, Finish
  <2> QED BY <1>a, <2>1, <2>2, EndWatch
<1>3. CASE RecoverStart(a)
  <2>1. StartRestore(a)
    BY <1>3 DEF RecoverStart
  <2>2. Mild
    BY <1>a, <2>1, SetStateMild DEF StartRestore
  <2>3. proc'[a].pc = "restore" /\ \A b \in Actors \ {a} : Rests(b)
    BY <1>a, <2>1 DEF StartRestore, TypeOK, Procs, Rests
  <2> QED BY <1>a, <2>2, <2>3, StepWatch
<1> QED BY <1>1, <1>2, <1>3 DEF RestoreSteps, RecoverStep

\* The watchdog itself.  Only its own directory and program counter change.
LEMMA OwnWatch ==
  ASSUME Inv, WatchInv, StateTurns, NEW t \in Txns,
         \A b \in Actors \ {t} : proc'[b] = proc[b],
         \A u \in Txns \ {t} : journal'[u] = journal[u],
         ~At(t, "none"), WdKnown(t)'
  PROVE  WatchInv'
<1>1. ASSUME NEW u \in Txns, u # t PROVE WdKnown(u)'
  BY <1>1 DEF Actors, WatchInv, WdKnown, At, State
<1>2. ASSUME NEW c \in Clis PROVE CliKnown(c)'
  <2>1. c \in Actors /\ c # t /\ proc'[c] = proc[c] /\ CliKnown(c)
    BY Disjoint DEF Actors, WatchInv
  <2>2. At(c, "queued") /\ proc[c].op = "recover" =>
          \E u \in Txns : proc[c].txn = u /\ State(u) # "NONE" /\ State(u)' # "NONE"
    BY <2>1, EarlyIsOver DEF CliKnown, Inv, TxnKnown, Txn
  <2>3. At(c, "arming") => \E u \in Txns \ {t} : proc[c].txn = u /\ proc[u].pc = "none"
    BY <2>1 DEF CliKnown, Inv, TxnKnown, Txn, Critical, CliCritical, CliPcs, At
  <2>4. At(c, "arming") => \E u \in Txns \ {t} : proc[c].txn = u /\ proc'[u].pc = "none"
    BY <2>3 DEF Actors
  <2> QED BY <2>1, <2>2, <2>4 DEF CliKnown, At, State, Txn
<1> QED BY <1>1, <1>2 DEF WatchInv

LEMMA WatchdogWatch ==
  ASSUME Inv, WatchInv, StateTurns, NEW t \in Txns, WatchdogStep(t)
  PROVE  WatchInv'
<1>a. t \in Actors /\ t \notin Clis /\ proc[t] \in Procs /\ TypeOK /\ WdKnown(t)
  BY Disjoint DEF Actors, Inv, TypeOK, WatchInv
<1>b. State(t)' \in Early => State(t) \in Early
  BY EarlyIsOver
<1>c. ~At(t, "none")
  BY DEF WatchdogStep, WdComesUp, WdSeesEnd, WdExpires, WdYields, WdClaims, WdClaimWrite,
         WdGivesUp, WdMoves, WdExits, At
<1>1. CASE WdSeesEnd(t) \/ WdYields(t) \/ WdGivesUp(t)
  <2>1. proc' = [proc EXCEPT ![t] = Ended(t)] /\ Mild
    BY <1>1 DEF WdSeesEnd, WdYields, WdGivesUp, WdExits, Mild
  <2> QED BY <1>a, <1>c, <2>1, EndWatch
<1>2. ASSUME NEW from, NEW to, WdMoves(t, from, to)
      PROVE  /\ proc[t].pc = from /\ proc'[t].pc = to
             /\ \A b \in Actors \ {t} : proc'[b] = proc[b]
  BY <1>2, <1>a DEF WdMoves, At, TypeOK, Procs
<1>3. CASE WdComesUp(t)
  <2>1. proc'[t].pc = "watch" /\ \A b \in Actors \ {t} : proc'[b] = proc[b]
    BY <1>2, <1>3 DEF WdComesUp
  <2>2. \A u \in Txns \ {t} : journal'[u] = journal[u]
    BY <1>3, <1>a DEF WdComesUp, TypeOK
  <2>3. WdKnown(t)'
    BY <1>a, <1>b, <1>c, <2>1 DEF WdKnown, At
  <2> QED BY <1>c, <2>1, <2>2, <2>3, OwnWatch
<1>4. CASE WdExpires(t)
  <2>1. /\ proc'[t].pc = "expired" /\ journal' = journal /\ journal[t].deadline # "running"
        /\ \A b \in Actors \ {t} : proc'[b] = proc[b]
    BY <1>2, <1>4 DEF WdExpires
  <2>2. WdKnown(t)'
    BY <1>a, <1>b, <1>c, <2>1 DEF WdKnown, At
  <2> QED BY <1>c, <2>1, <2>2, OwnWatch
<1>5. CASE WdClaims(t) \/ WdClaimWrite(t)
  <2>1. /\ proc[t].pc \in {"expired", "claimwrite"} /\ proc'[t].pc \in {"claimwrite", "queued"}
        /\ \A b \in Actors \ {t} : proc'[b] = proc[b]
    BY <1>2, <1>5 DEF WdClaims, WdClaimWrite
  <2>2. /\ \A u \in Txns \ {t} : journal'[u] = journal[u]
        /\ journal'[t].deadline = journal[t].deadline
    BY <1>5, <1>a DEF WdClaims, WdClaimWrite, TypeOK, Journals
  <2>3. WdKnown(t)'
    BY <1>a, <1>b, <1>c, <2>1, <2>2 DEF WdKnown, At
  <2> QED BY <1>c, <2>1, <2>2, <2>3, OwnWatch
<1> QED BY <1>1, <1>3, <1>4, <1>5 DEF WatchdogStep

LEMMA InitWatch == Init => WatchInv
<1> SUFFICES ASSUME Init PROVE WatchInv
  OBVIOUS
<1>1. \A t \in Txns : t \in Actors /\ proc[t].pc = "none" /\ ~journal[t].pidFile
  BY DEF Init, Fresh, NoJournal, Actors
<1>2. \A c \in Clis : c \in Actors /\ proc[c].pc = "idle"
  BY Disjoint DEF Init, Ended, Fresh, Actors
<1> QED BY <1>1, <1>2 DEF WatchInv, WdKnown, CliKnown, At

LEMMA NextWatch ==
  ASSUME Inv, WatchInv, [Next]_vars
  PROVE  WatchInv'
<1>a. StateTurns
  BY NextTurns
<1>1. ASSUME NEW t \in Txns, Time(t) PROVE WatchInv'
  <2>1. /\ proc' = proc
        /\ \A u \in Txns : /\ State(u)' = State(u) /\ journal'[u].pidFile = journal[u].pidFile
                           /\ journal'[u].deadline = "running" => journal[u].deadline = "running"
    BY <1>1 DEF Time, Inv, TypeOK, Journals, State
  <2>2. \A u \in Txns : WdKnown(u)'
    BY <2>1 DEF WatchInv, WdKnown, At
  <2>3. ASSUME NEW c \in Clis PROVE CliKnown(c)'
    <3>1. At(c, "queued") /\ proc[c].op = "recover" =>
            \E u \in Txns : proc[c].txn = u /\ State(u) # "NONE" /\ State(u)' # "NONE"
      BY <2>1 DEF WatchInv, CliKnown, Inv, TxnKnown, Txn, Actors
    <3> QED BY <2>1, <3>1 DEF WatchInv, CliKnown, At, State, Txn
  <2> QED BY <2>2, <2>3 DEF WatchInv
<1>2. ASSUME NEW a \in Actors, Crash(a) PROVE WatchInv'
  <2>1. proc' = [proc EXCEPT ![a] = Ended(a)] /\ journal' = journal /\ ~At(a, "none")
    BY <1>2 DEF Crash, At
  <2>2. Mild
    BY <2>1 DEF Mild
  <2> QED BY <1>a, <2>1, <2>2, EndWatch
<1>3. CASE UNCHANGED vars
  BY <1>3 DEF vars, WatchInv, WdKnown, CliKnown, At, Txn, State
<1> QED BY <1>a, <1>1, <1>2, <1>3, QueueWatch, CommitWatch, ConfirmWatch, RollbackWatch,
           RestoreWatch, WatchdogWatch DEF Next

-----------------------------------------------------------------------------
(* Confirm windows.                                                        *)

\* What is known of watchdogs, their pid files and their deadlines stays true
\* (watchdog.arm, watchdog.watch).
THEOREM WatchInvariance == Spec => []WatchInv
<1>1. Inv /\ WatchInv /\ [Next]_vars => WatchInv'
  BY NextWatch
<1> QED BY <1>1, InitWatch, Invariance, PTL DEF Spec

\* Recovery starts from a transaction that exists and is not settled.
LEMMA RecoveredIsLive ==
  ASSUME Inv, WatchInv, NEW a \in Actors, NEW t \in Txns, Txn(a) = t,
         RecoverNothing(a) \/ RecoverStart(a)
  PROVE  State(t) \in {"PENDING", "APPLYING", "APPLIED_UNCONFIRMED", "REVERTING"}
<1>1. At(a, "queued") /\ proc[a].op = "recover" /\ ~RecoveryBlocked(a)
  BY DEF RecoverNothing, RecoverStart, Enter
<1>2. ~Settled(t)
  BY <1>1 DEF RecoveryBlocked
<1>3. State(t) # "NONE"
  <2>1. CASE a \in Clis
    BY <1>1, <2>1 DEF WatchInv, CliKnown
  <2>2. CASE a \in Txns
    BY <1>1, <2>2 DEF WatchInv, WdKnown, At, Inv, TxnKnown, Txn, Early
  <2> QED BY <2>1, <2>2 DEF Actors
<1>4. State(t) \in States
  BY DEF Inv, TypeOK, Journals, State
<1> QED BY <1>2, <1>3, <1>4 DEF Settled, States, BlockingStates, Terminal

\* No confirm window is cut short: its restore starts after the deadline, after
\* its watchdog is gone, or because its own commit could not arm one
\* (recovery_blocker, _commit_locked).
THEOREM WindowsRunTheirTime == Spec => WindowNotCutShort
<1>1. Inv /\ WatchInv /\ [Next]_vars =>
        [\A t \in Txns :
          State(t) = "APPLIED_UNCONFIRMED" /\ State(t)' = "REVERTING" =>
          \/ journal[t].deadline # "running"
          \/ ~WatchdogUp(t)
          \/ \E c \in Clis : At(c, "armwait") /\ Txn(c) = t]_vars
  <2> SUFFICES ASSUME Inv, WatchInv, [Next]_vars, NEW t \in Txns,
                      State(t) = "APPLIED_UNCONFIRMED", State(t)' = "REVERTING"
               PROVE  \/ journal[t].deadline # "running"
                      \/ ~WatchdogUp(t)
                      \/ \E c \in Clis : At(c, "armwait") /\ Txn(c) = t
    OBVIOUS
  <2>1. StateTurns
    BY NextTurns
  <2>2. ASSUME NEW u \in Txns, NEW from, NEW to, Turns(u, from, to)
        PROVE  u = t /\ to = "REVERTING" /\ "APPLIED_UNCONFIRMED" \in from
    BY <2>2 DEF Turns
  <2>3. ~SameStates
    BY DEF SameStates
  <2>4. ASSUME NEW c \in Clis, NEW u \in Txns, Confirms(c, u)
        PROVE  FALSE
    BY <2>4, ConfirmsStates
  <2>5. \/ \E c \in Clis : Txn(c) = t /\ ArmFails(c)
        \/ \E a \in Actors : Txn(a) = t /\ RecoverStart(a)
    BY <2>1, <2>2, <2>3, <2>4 DEF StateTurns, CommitTurns, RestoreTurns
  <2>6. ASSUME NEW c \in Clis, Txn(c) = t, ArmFails(c)
        PROVE  ~WatchdogUp(t) \/ At(c, "armwait")
    <3>1. CASE At(c, "arming")
      BY <2>6, <3>1 DEF WatchInv, CliKnown, WdKnown, WatchdogUp
    <3> QED BY <2>6, <3>1 DEF ArmFails
  <2>7. ASSUME NEW a \in Actors, Txn(a) = t, RecoverStart(a)
        PROVE  journal[t].deadline # "running" \/ ~WatchdogUp(t)
    <3>1. CASE a = t
      BY <2>7, <3>1 DEF RecoverStart, Enter, WatchInv, WdKnown, At
    <3>2. CASE a # t
      BY <2>7, <3>2 DEF RecoverStart, RecoveryBlocked
    <3> QED BY <3>1, <3>2
  <2> QED BY <2>5, <2>6, <2>7
<1> QED BY <1>1, Invariance, WatchInvariance, PTL DEF Spec, WindowNotCutShort

-----------------------------------------------------------------------------
(* The engine implements TxnLifecycle.                                     *)

LEMMA Phases ==
  /\ Phase("NONE") = "absent" /\ Phase("PENDING") = "working" /\ Phase("APPLYING") = "working"
  /\ Phase("APPLIED_UNCONFIRMED") = "window" /\ Phase("REVERTING") = "restoring"
  /\ Phase("CONFIRMED") = "confirmed" /\ Phase("REVERTED") = "restored"
  /\ Phase("REVERT_FAILED") = "failed" /\ Phase("AUDIT_ONLY") = "audited"
  /\ Phase("GONE") = "forgotten"
  BY DEF Phase

\* Which states stand for a phase.
LEMMA PhaseIs ==
  ASSUME NEW s \in States
  PROVE  /\ Phase(s) = "absent" => s = "NONE"
         /\ Phase(s) = "window" => s = "APPLIED_UNCONFIRMED"
         /\ s \in Terminal => Phase(s) \in Life!Over
  BY Phases DEF States, BlockingStates, Terminal, Life!Over

LifeMap == [t \in Txns |-> Phase(State(t))]

\* A change of state is a change of phase of the same transaction.
LEMMA TurnsMove ==
  ASSUME NEW t \in Txns, NEW from, NEW to, Turns(t, from, to)
  PROVE  /\ LifeMap' = [LifeMap EXCEPT ![t] = Phase(to)] /\ LifeMap[t] = Phase(State(t))
         /\ State(t) \in from
  BY DEF Turns, LifeMap

LEMMA ConfirmsLife ==
  ASSUME Inv, NEW c \in Clis, NEW t \in Txns, Confirms(c, t)
  PROVE  Life!Confirm(t)
<1> DEFINE j == [journal EXCEPT ![t].state = "CONFIRMED"]
           F == {u \in Txns : State(u)' = "GONE" /\ j[u].state \in Terminal}
<1>1. /\ j \in [Txns -> Journals] /\ j[t].state = "CONFIRMED"
      /\ \A u \in Txns \ {t} : j[u] = journal[u]
  BY StateType DEF Inv, TypeOK, Journals, States, Terminal
<1>2. ASSUME NEW u \in Txns
      PROVE  /\ u \in F => State(u)' = "GONE"
             /\ u \notin F => State(u)' = j[u].state
  <2>1. CASE u \in Evicted(j, {"CONFIRMED"}, Keep)
                    \cup Evicted(j, Terminal \ {"CONFIRMED"}, AuditKeep)
    <3>1. journal'[u].state = "GONE"
      BY <2>1 DEF Confirms, Pruned, NoJournal
    <3>2. j[u].state \in Terminal
      BY <2>1 DEF Evicted, Terminal
    <3> QED BY <3>1, <3>2 DEF State
  <2>2. CASE u \notin Evicted(j, {"CONFIRMED"}, Keep)
                       \cup Evicted(j, Terminal \ {"CONFIRMED"}, AuditKeep)
    <3>1. journal'[u] = j[u]
      BY <2>2 DEF Confirms, Pruned
    <3> QED BY <3>1 DEF State
  <2> QED BY <2>1, <2>2
<1>3. \A u \in F : u = t \/ Phase(State(u)) \in Life!Over
  BY <1>1, PhaseIs DEF State, Inv, TypeOK, Journals
<1>4. ASSUME NEW u \in Txns
      PROVE  Phase(State(u)') = IF u \in F THEN "forgotten"
                                ELSE IF u = t THEN "confirmed" ELSE Phase(State(u))
  BY <1>1, <1>2, Phases DEF State
<1>5. Phase(State(t)) \in {"working", "window"}
  BY Phases DEF Confirms
<1>6. F \in SUBSET {u \in Txns : u = t \/ Phase(State(u)) \in Life!Over}
  BY <1>3
<1>7. LifeMap' = [u \in Txns |-> IF u \in F THEN "forgotten"
                                 ELSE IF u = t THEN "confirmed" ELSE Phase(State(u))]
  BY <1>4 DEF LifeMap
<1> HIDE DEF F
<1>8. LifeMap[t] \in {"working", "window"} /\ \A u \in Txns : LifeMap[u] = Phase(State(u))
  BY <1>5 DEF LifeMap
<1>9. F \in SUBSET {u \in Txns : u = t \/ LifeMap[u] \in Life!Over}
  BY <1>6, <1>8
<1>10. LifeMap' = [u \in Txns |-> IF u \in F THEN "forgotten"
                                  ELSE IF u = t THEN "confirmed" ELSE LifeMap[u]]
  BY <1>7, <1>8
<1> QED BY <1>8, <1>9, <1>10 DEF Life!Confirm, LifeMap

\* The same transaction moves from one phase to another.
LEMMA MovesLife ==
  ASSUME NEW t \in Txns, NEW from, NEW to, NEW phases, NEW phase, Turns(t, from, to),
         Phase(to) = phase, Phase(State(t)) \in phases
  PROVE  Life!Moves(t, phases, phase)
<1>1. LifeMap' = [LifeMap EXCEPT ![t] = phase] /\ LifeMap[t] \in phases
  BY TurnsMove
<1> QED BY <1>1 DEF Life!Moves, LifeMap

LEMMA NextLife ==
  ASSUME Inv, DataInv, WatchInv, [Next]_vars
  PROVE  Life!Next \/ LifeMap' = LifeMap
<1>1. StateTurns
  BY NextTurns
<1>s. \A t \in Txns : State(t) \in States /\ LifeMap[t] = Phase(State(t))
  BY DEF Inv, TypeOK, Journals, State, LifeMap
<1>2. CASE SameStates
  BY <1>2 DEF SameStates, LifeMap
<1>3. ASSUME NEW t \in Txns, NextId(t), Turns(t, {"NONE"}, "PENDING") PROVE Life!Next
  <2>1. Life!Moves(t, {"absent"}, "working")
    BY <1>3, MovesLife, Phases DEF Turns
  <2>2. \A u \in Txns : u < t => LifeMap[u] # "absent"
    BY <1>3, <1>s, PhaseIs DEF NextId
  <2>3. Life!Open(t)
    BY <2>1, <2>2 DEF Life!Open, LifeMap
  <2> QED BY <2>3 DEF Life!Next
<1>4. ASSUME NEW c \in Clis, NEW t \in Txns, Txn(c) = t, CommitTurns(c, t)
      PROVE  Life!Next \/ LifeMap' = LifeMap
  <2>1. CASE Turns(t, {"PENDING"}, "AUDIT_ONLY")
    <3>1. Life!Audit(t)
      BY <2>1, MovesLife, Phases DEF Turns, Life!Audit
    <3> QED BY <3>1 DEF Life!Next
  <2>2. CASE Turns(t, {"PENDING"}, "APPLYING")
    <3>1. State(t) = "PENDING"
      BY <2>2 DEF Turns
    <3>2. LifeMap' = [LifeMap EXCEPT ![t] = Phase("APPLYING")] /\ LifeMap[t] = Phase(State(t))
      BY <2>2, TurnsMove
    <3>3. LifeMap' = [LifeMap EXCEPT ![t] = LifeMap[t]]
      BY <3>1, <3>2, Phases
    <3> QED BY <3>3 DEF LifeMap
  <2>3. CASE OpenWindow(c) /\ Turns(t, {"APPLYING"}, "APPLIED_UNCONFIRMED")
    <3>1. Life!Moves(t, {"working"}, "window")
      BY <2>3, MovesLife, Phases DEF Turns
    <3>2. proc[c].pc \in CommitPcs /\ proc[c].op = "commit"
      BY <2>3 DEF OpenWindow, At, CommitPcs, DataInv, DataKnown, CommitFits, Actors
    <3>3. ASSUME NEW u \in Txns PROVE LifeMap[u] # "window"
      <4>1. SUFFICES ASSUME LifeMap[u] = "window" PROVE FALSE
        OBVIOUS
      <4>2. State(u) = "APPLIED_UNCONFIRMED"
        BY <1>s, <4>1, PhaseIs
      <4>3. u = t
        BY <1>4, <3>2, <4>2 DEF Inv, WindowExclusive, BlockingStates
      <4> QED BY <2>3, <4>2, <4>3 DEF Turns
    <3>4. Life!OpenWindow(t)
      BY <3>1, <3>3 DEF Life!OpenWindow, LifeMap
    <3> QED BY <3>4 DEF Life!Next
  <2>4. CASE \/ Turns(t, {"APPLYING"}, "REVERTING")
             \/ Turns(t, {"APPLIED_UNCONFIRMED"}, "REVERTING")
    <3>1. Life!StartRestore(t)
      BY <2>4, MovesLife, Phases DEF Turns, Life!StartRestore
    <3> QED BY <3>1 DEF Life!Next
  <2>5. CASE Turns(t, {"APPLYING"}, "REVERT_FAILED")
    <3>1. Life!Fail(t)
      BY <2>5, MovesLife, Phases DEF Turns, Life!Fail
    <3> QED BY <3>1 DEF Life!Next
  <2>6. CASE Confirms(c, t)
    BY <2>6, ConfirmsLife DEF Life!Next
  <2> QED BY <1>4, <2>1, <2>2, <2>3, <2>4, <2>5, <2>6 DEF CommitTurns
<1>5. ASSUME NEW a \in Actors, NEW t \in Txns, Txn(a) = t, RestoreTurns(a, t)
      PROVE  Life!Next \/ LifeMap' = LifeMap
  <2>a. RecoverNothing(a) \/ RecoverStart(a) =>
          State(t) \in {"PENDING", "APPLYING", "APPLIED_UNCONFIRMED", "REVERTING"}
    BY <1>5, RecoveredIsLive
  <2>1. CASE RecoverNothing(a) /\ Turns(t, States, "AUDIT_ONLY")
    <3>1. State(t) \in {"PENDING", "APPLYING"}
      BY <1>5, <2>a, <2>1 DEF RecoverNothing, DataInv, DirKnown, BlockingStates
    <3>2. Life!Audit(t)
      BY <2>1, <3>1, MovesLife, Phases DEF Life!Audit
    <3> QED BY <3>2 DEF Life!Next
  <2>2. CASE RecoverStart(a) /\ Turns(t, States, "REVERTING")
    <3>1. CASE State(t) = "REVERTING"
      <4>1. LifeMap' = [LifeMap EXCEPT ![t] = "restoring"] /\ LifeMap[t] = "restoring"
        BY <2>2, <3>1, TurnsMove, Phases
      <4> QED BY <4>1 DEF LifeMap
    <3>2. CASE State(t) # "REVERTING"
      <4>1. Life!StartRestore(t)
        BY <2>a, <2>2, <3>2, MovesLife, Phases DEF Life!StartRestore
      <4> QED BY <4>1 DEF Life!Next
    <3> QED BY <3>1, <3>2
  <2>3. CASE Turns(t, {"REVERTING"}, "REVERT_FAILED") \/ Turns(t, {"REVERTING"}, "REVERTED")
    <3>1. Life!EndRestore(t)
      BY <2>3, MovesLife, Phases DEF Turns, Life!EndRestore
    <3> QED BY <3>1 DEF Life!Next
  <2> QED BY <1>5, <2>1, <2>2, <2>3 DEF RestoreTurns
<1> QED BY <1>1, <1>2, <1>3, <1>4, <1>5 DEF StateTurns

\* The engine implements TxnLifecycle: every step on the journals is a step of
\* the life of one transaction that the contract allows, or none.
THEOREM KeepsThePromises == Spec => KeepsLifecycle
<1>1. Init => Life!Init
  BY Phases DEF Init, NoJournal, Life!Init, State
<1>2. Inv /\ DataInv /\ WatchInv /\ [Next]_vars => [Life!Next]_([t \in Txns |-> Phase(State(t))])
  BY NextLife DEF LifeMap
<1> QED BY <1>1, <1>2, Invariance, DataInvariance, WatchInvariance, PTL
        DEF Spec, KeepsLifecycle, Life!Spec

-----------------------------------------------------------------------------
(* What the contract promises, said of the journals.                       *)

\* At most one transaction is in its confirm window.
OneWindow ==
  \A t, u \in Txns :
    State(t) = "APPLIED_UNCONFIRMED" /\ State(u) = "APPLIED_UNCONFIRMED" => t = u

\* The phase of a state as it appears in TxnLifecycle.
LEMMA LifeIs ==
  ASSUME NEW t \in Txns
  PROVE  LifeMap[t] = Phase(State(t)) /\ LifeMap'[t] = Phase(State(t)')
  BY DEF LifeMap

\* A step of TxnLifecycle that moves a transaction moves no other.
LEMMA LifeMovesOne ==
  ASSUME NEW t \in Txns, NEW from, NEW to, Life!Moves(t, from, to)
  PROVE  /\ LifeMap[t] \in from /\ LifeMap'[t] = to
         /\ \A u \in Txns \ {t} : LifeMap'[u] = LifeMap[u]
<1>1. LifeMap[t] \in from /\ LifeMap' = [LifeMap EXCEPT ![t] = to]
  BY DEF Life!Moves, LifeMap
<1>2. LifeMap \in [Txns -> {LifeMap[u] : u \in Txns}]
  BY DEF LifeMap
<1> QED BY <1>1, <1>2

\* A transaction enters its window only when no other is in one, and one that
\* is over stays what it is or is forgotten.
LEMMA LifeStep ==
  ASSUME Life!Next, NEW u \in Txns
  PROVE  /\ LifeMap'[u] = "window" =>
              \/ LifeMap[u] = "window"
              \/ \A w \in Txns \ {u} : LifeMap'[w] # "window"
         /\ LifeMap[u] \in Life!Over => LifeMap'[u] \in {LifeMap[u], "forgotten"}
<1>1. PICK t \in Txns :
        \/ Life!Open(t) \/ Life!OpenWindow(t) \/ Life!Confirm(t) \/ Life!StartRestore(t)
        \/ Life!EndRestore(t) \/ Life!Audit(t) \/ Life!Fail(t)
  BY DEF Life!Next
<1>2. CASE Life!OpenWindow(t)
  <2>1. Life!Moves(t, {"working"}, "window") /\ \A w \in Txns : LifeMap[w] # "window"
    BY <1>2 DEF Life!OpenWindow, LifeMap
  <2>2. /\ LifeMap[t] = "working" /\ \A w \in Txns \ {t} : LifeMap'[w] = LifeMap[w]
    BY <2>1, LifeMovesOne
  <2> QED BY <2>1, <2>2 DEF Life!Over
<1>3. CASE Life!Confirm(t)
  <2>1. /\ LifeMap[t] \in {"working", "window"}
        /\ \E F \in SUBSET Txns : LifeMap' = [w \in Txns |-> IF w \in F THEN "forgotten"
                              ELSE IF w = t THEN "confirmed" ELSE LifeMap[w]]
    BY <1>3 DEF Life!Confirm, LifeMap
  <2>2. LifeMap'[u] \in {"forgotten", LifeMap[u]} \/ (u = t /\ LifeMap'[u] = "confirmed")
    BY <2>1
  <2> QED BY <2>1, <2>2 DEF Life!Over
<1>4. CASE \/ Life!Open(t) \/ Life!StartRestore(t) \/ Life!EndRestore(t) \/ Life!Audit(t)
           \/ Life!Fail(t)
  <2>1. PICK from \in {{"absent"}, {"working", "window"}, {"restoring"}, {"working"}},
             to \in {"working", "restoring", "restored", "failed", "audited"} :
          Life!Moves(t, from, to)
    BY <1>4 DEF Life!Open, Life!StartRestore, Life!EndRestore, Life!Audit, Life!Fail
  <2>2. LifeMap[t] \in from /\ LifeMap'[t] = to /\ \A w \in Txns \ {t} : LifeMap'[w] = LifeMap[w]
    BY <2>1, LifeMovesOne
  <2> QED BY <2>2 DEF Life!Over
<1> QED BY <1>1, <1>2, <1>3, <1>4

\* Of all the windows that commits ask for, one is open at a time: confirm, which
\* names no transaction, can only mean that one (_confirm_locked).
THEOREM OneWindowAtATime == Spec => []OneWindow
<1> DEFINE Single == \A t, u \in Txns : LifeMap[t] = "window" /\ LifeMap[u] = "window" => t = u
<1>1. Life!Init => Single
  BY DEF Life!Init, LifeMap
<1>2. Single /\ [Life!Next]_([t \in Txns |-> Phase(State(t))]) => Single'
  <2>1. CASE Life!Next
    <3> SUFFICES ASSUME Single, NEW t \in Txns, NEW u \in Txns,
                        LifeMap'[t] = "window", LifeMap'[u] = "window"
                 PROVE  t = u
      OBVIOUS
    <3> QED BY <2>1, LifeStep
  <2>2. CASE LifeMap' = LifeMap
    BY <2>2
  <2> QED BY <2>1, <2>2 DEF LifeMap
<1>3. Single => OneWindow
  BY Phases, LifeIs DEF OneWindow
<1> QED BY <1>1, <1>2, <1>3, KeepsThePromises, PTL DEF KeepsLifecycle, Life!Spec

\* What a transaction's journal says once it is over, it says until it is pruned:
\* no later command, watchdog or recovery writes another outcome over it.
THEOREM OutcomesAreFinal ==
  Spec => [][\A t \in Txns : State(t) \in Terminal => State(t)' \in {State(t), "GONE"}]_vars
<1>1. TypeOK /\ TypeOK' /\ [Life!Next]_([t \in Txns |-> Phase(State(t))]) =>
        \A t \in Txns : State(t) \in Terminal => State(t)' \in {State(t), "GONE"}
  <2> SUFFICES ASSUME TypeOK, TypeOK', [Life!Next]_([t \in Txns |-> Phase(State(t))]),
                      NEW t \in Txns, State(t) \in Terminal
               PROVE  State(t)' \in {State(t), "GONE"}
    OBVIOUS
  <2>1. State(t) \in States /\ State(t)' \in States
    BY DEF TypeOK, Journals, State
  <2>2. Phase(State(t)) \in Life!Over
    BY <2>1, PhaseIs
  <2>3. Phase(State(t)') \in {Phase(State(t)), "forgotten"}
    BY <2>2, LifeIs, LifeStep DEF LifeMap
  <2> QED BY <2>1, <2>3, Phases DEF States, BlockingStates, Terminal
<1> QED BY <1>1, KeepsThePromises, TypeCorrect, PTL DEF KeepsLifecycle, Life!Spec, Spec

-----------------------------------------------------------------------------
(* Only the newest transaction is ever written to or restored, until a     *)
(* process dies.                                                           *)

\* Transactions that have touched the Orchestrator and are not settled, and
\* where the process is that applies one.
Hot == {"APPLYING"} \cup BlockingStates
ApplyPcs == {"apply", "write", "judge", "redo"}

\* Ids are given out in order.
InOrder == \A t, u \in Txns : t < u /\ State(t) = "NONE" => State(u) = "NONE"

\* No command runs that the operators do not use.
OpKnown == \A c \in Clis : proc[c].op = "rollback" => "rollback" \in Ops

\* What is being applied has somebody at work on it,
WorkerKnown ==
  crashes = 0 =>
    \A t \in Txns : State(t) = "APPLYING" =>
      \E c \in Clis : Txn(c) = t /\ proc[c].pc \in ApplyPcs

\* so no transaction is begun after one that is hot, or before its own commit
\* has decided.
NewestIsHot ==
  crashes = 0 /\ "rollback" \notin Ops =>
    /\ \A t, u \in Txns : t < u /\ State(t) \in Hot => State(u) = "NONE"
    /\ \A c \in Clis, u \in Txns :
         proc[c].pc \in {"snapshot", "decide"} /\ u > Txn(c) => State(u) = "NONE"

HotInv == InOrder /\ OpKnown /\ WorkerKnown /\ NewestIsHot

\* A transaction comes into being only with the next id.
LEMMA NoneEnds ==
  ASSUME Inv, WatchInv, StateTurns, NEW u \in Txns, State(u) = "NONE", State(u)' # "NONE"
  PROVE  /\ NextId(u) /\ State(u)' = "PENDING"
         /\ \A t \in Txns \ {u} : State(t)' = State(t)
         /\ \E c \in Clis : (CommitBegin(c) \/ RollbackBegin(c)) /\ Txn(c)' = u
<1>1. ASSUME NEW t \in Txns, NEW from, NEW to, Turns(t, from, to)
      PROVE  t = u /\ "NONE" \in from
  BY <1>1 DEF Turns
<1>2. ASSUME NEW c \in Clis, NEW t \in Txns, Confirms(c, t)
      PROVE  FALSE
  <2>1. u # t
    BY <1>2 DEF Confirms
  <2> DEFINE j == [journal EXCEPT ![t].state = "CONFIRMED"]
  <2>2. j[u].state = "NONE"
    BY <2>1 DEF Inv, TypeOK, Journals, State
  <2>3. journal'[u] = j[u]
    BY <1>2, <2>2 DEF Confirms, Pruned, Evicted, Terminal
  <2> QED BY <2>2, <2>3 DEF State
<1>3. ASSUME NEW c \in Clis, NEW t \in Txns, CommitTurns(c, t)
      PROVE  FALSE
  BY <1>1, <1>2, <1>3 DEF CommitTurns
<1>4. ASSUME NEW a \in Actors, NEW t \in Txns, Txn(a) = t, RestoreTurns(a, t)
      PROVE  FALSE
  <2>1. t = u
    BY <1>1, <1>4 DEF RestoreTurns
  <2>2. ~(RecoverNothing(a) \/ RecoverStart(a))
    BY <1>4, <2>1, RecoveredIsLive
  <2> QED BY <1>1, <1>4, <2>2 DEF RestoreTurns
<1>5. ~SameStates
  BY DEF SameStates
<1>6. PICK c \in Clis, t \in Txns :
        (CommitBegin(c) \/ RollbackBegin(c)) /\ NextId(t) /\ Turns(t, {"NONE"}, "PENDING")
        /\ Txn(c)' = t
  BY <1>3, <1>4, <1>5 DEF StateTurns
<1> QED BY <1>1, <1>6 DEF Turns

\* A transaction gets hot only by the commit or rollback that starts to apply it.
LEMMA HotStarts ==
  ASSUME Inv, DataInv, WatchInv, StateTurns, NEW u \in Txns,
         \/ State(u) \notin Hot /\ State(u)' \in Hot
         \/ State(u) # "APPLYING" /\ State(u)' = "APPLYING"
  PROVE  /\ State(u) = "PENDING" /\ State(u)' = "APPLYING"
         /\ \A t \in Txns \ {u} : State(t)' = State(t)
         /\ \E c \in Clis : Txn(c) = u /\ (StartApplying(c) \/ StartRedo(c))
<1>1. ASSUME NEW t \in Txns, NEW from, NEW to, Turns(t, from, to)
      PROVE  t = u /\ State(u) \in from /\ to \in Hot
             /\ \A w \in Txns \ {u} : State(w)' = State(w)
  BY <1>1 DEF Turns, Hot
<1>2. ASSUME NEW c \in Clis, NEW t \in Txns, Confirms(c, t)
      PROVE  FALSE
  BY <1>2, ConfirmsStates DEF Hot, BlockingStates
<1>3. ASSUME NEW c \in Clis, NEW t \in Txns, CommitTurns(c, t)
      PROVE  (StartApplying(c) \/ StartRedo(c)) /\ Turns(t, {"PENDING"}, "APPLYING")
  <2>1. ASSUME Turns(t, {"PENDING"}, "AUDIT_ONLY") PROVE FALSE
    BY <1>1, <2>1 DEF Hot, BlockingStates
  <2>2. ASSUME \/ Turns(t, {"APPLYING"}, "APPLIED_UNCONFIRMED")
               \/ Turns(t, {"APPLYING"}, "REVERTING")
               \/ Turns(t, {"APPLYING"}, "REVERT_FAILED")
               \/ Turns(t, {"APPLIED_UNCONFIRMED"}, "REVERTING")
        PROVE  FALSE
    BY <2>2 DEF Turns, Hot, BlockingStates
  <2> QED BY <1>2, <1>3, <2>1, <2>2 DEF CommitTurns
<1>4. ASSUME NEW a \in Actors, NEW t \in Txns, Txn(a) = t, RestoreTurns(a, t)
      PROVE  FALSE
  <2>1. CASE RecoverStart(a) /\ Turns(t, States, "REVERTING")
    <3>1. t = u /\ State(u)' = "REVERTING"
      BY <1>1, <2>1 DEF Turns
    <3>2. State(u) = "PENDING"
      BY <1>4, <2>1, <3>1, RecoveredIsLive DEF Hot, BlockingStates
    <3>3. journal[u].started # {}
      BY <1>4, <2>1, <3>1 DEF RecoverStart
    <3> QED BY <3>2, <3>3 DEF DataInv, DirKnown
  <2>2. ASSUME NEW from, NEW to, Turns(t, from, to), to \notin Hot
        PROVE  FALSE
    BY <1>1, <2>2
  <2> QED BY <1>4, <2>1, <2>2 DEF RestoreTurns, Hot, BlockingStates
<1>5. ~SameStates
  BY DEF SameStates, Hot
<1>6. ASSUME NEW t \in Txns, Turns(t, {"NONE"}, "PENDING") PROVE FALSE
  BY <1>1, <1>6 DEF Hot, BlockingStates
<1>7. PICK c \in Clis, t \in Txns : Txn(c) = t /\ CommitTurns(c, t)
  BY <1>4, <1>5, <1>6 DEF StateTurns
<1>8. (StartApplying(c) \/ StartRedo(c)) /\ Turns(t, {"PENDING"}, "APPLYING")
  BY <1>3, <1>7
<1>9. t = u
  BY <1>1, <1>8
<1> QED BY <1>7, <1>8, <1>9 DEF Turns

\* The steps of the process of a CLI.
QueueStep(c) ==
  \/ Plan(c) \/ Leave(c) \/ AskConfirm(c) \/ AskRollback(c)
  \/ \E t \in Txns : ScanOrphans(c, t)

CliStep(c) ==
  \/ QueueStep(c) \/ CommitStep(c) \/ ConfirmStep(c) \/ RollbackStep(c)
  \/ RestoreSteps(c) \/ RecoverStep(c) \/ Crash(c)

\* What every one of them does to the process itself.
CliMoves(c) ==
  /\ proc'[c].pc \in {"snapshot", "decide"} =>
       \/ proc[c].pc = "snapshot" /\ Txn(c)' = Txn(c)
       \/ CommitBegin(c) \/ RollbackBegin(c)
  /\ proc[c].pc \in ApplyPcs =>
       \/ proc'[c].pc \in ApplyPcs /\ Txn(c)' = Txn(c)
       \/ \E t \in Txns : Txn(c) = t /\ State(t)' # "APPLYING"
       \/ Crash(c)
  /\ StartApplying(c) \/ StartRedo(c) => proc'[c].pc \in ApplyPcs /\ Txn(c)' = Txn(c)
  /\ proc'[c].op = "rollback" => proc[c].op = "rollback" \/ "rollback" \in Ops

\* A step that ends the command.
LEMMA EndMoves ==
  ASSUME Inv, NEW c \in Clis, proc' = [proc EXCEPT ![c] = Ended(c)],
         proc[c].pc \in ApplyPcs => Crash(c) \/ \E t \in Txns : Txn(c) = t /\ State(t)' # "APPLYING",
         ~StartApplying(c), ~StartRedo(c)
  PROVE  CliMoves(c)
<1>1. c \in Actors /\ proc'[c].pc = "idle" /\ proc'[c].op = "none"
  BY Disjoint DEF Inv, TypeOK, Actors, Ended, Fresh
<1> QED BY <1>1 DEF CliMoves

\* A step inside a command that neither begins one nor applies.
LEMMA OtherMoves ==
  ASSUME NEW c \in Clis, proc[c].pc \notin ApplyPcs \cup {"decide"},
         proc'[c].pc \notin {"snapshot", "decide"},
         proc'[c].op = proc[c].op \/ proc'[c].op # "rollback" \/ "rollback" \in Ops
  PROVE  CliMoves(c)
  BY DEF CliMoves, StartApplying, StartRedo, At

\* A step that goes on applying.
LEMMA ApplyMoves ==
  ASSUME NEW c \in Clis, proc'[c].pc \in ApplyPcs, proc'[c].txn = proc[c].txn,
         proc'[c].op = proc[c].op
  PROVE  CliMoves(c)
  BY DEF CliMoves, ApplyPcs, Txn

LEMMA QueueMoves ==
  ASSUME Inv, NEW c \in Clis, QueueStep(c)
  PROVE  CliMoves(c)
<1>1. c \in Actors /\ c \notin Txns /\ proc \in [Actors -> Procs]
  BY Disjoint DEF Actors, Inv, TypeOK
<1>2. proc[c].pc \in {"idle", "queued"}
  BY DEF QueueStep, Plan, Leave, AskConfirm, AskRollback, ScanOrphans, At
<1>3. CASE Plan(c)
  <2>1. PICK view, confirm, rebase :
          proc' = [proc EXCEPT ![c] = [Fresh("queued", "commit", NoTxn) EXCEPT
                     !.view = view, !.confirm = confirm, !.rebase = rebase]]
    BY <1>3 DEF Plan
  <2>2. proc'[c].pc = "queued" /\ proc'[c].op = "commit"
    BY <1>1, <2>1 DEF Fresh
  <2> QED BY <1>2, <2>2, OtherMoves DEF ApplyPcs
<1>4. CASE Leave(c) \/ AskConfirm(c) \/ AskRollback(c)
  <2>1. /\ proc'[c].pc \in {"queued", "idle"}
        /\ proc'[c].op # "rollback" \/ "rollback" \in Ops
    BY <1>1, <1>4 DEF Leave, AskConfirm, AskRollback, Ended, Fresh
  <2> QED BY <1>2, <2>1, OtherMoves DEF ApplyPcs
<1>5. CASE \E t \in Txns : ScanOrphans(c, t)
  <2>1. PICK t \in Txns : proc' = [proc EXCEPT ![c] = Fresh("queued", "recover", t)]
    BY <1>5 DEF ScanOrphans
  <2>2. proc'[c].pc = "queued" /\ proc'[c].op = "recover"
    BY <1>1, <2>1 DEF Fresh
  <2> QED BY <1>2, <2>2, OtherMoves DEF ApplyPcs
<1> QED BY <1>3, <1>4, <1>5 DEF QueueStep

\* Confirming transaction t leaves it in no state of a transaction at work.
LEMMA ConfirmedIsCold ==
  ASSUME Inv, NEW t \in Txns, journal' = Pruned([journal EXCEPT ![t].state = "CONFIRMED"])
  PROVE  State(t)' # "APPLYING"
<1>1. journal'[t].state \in {"GONE", [journal EXCEPT ![t].state = "CONFIRMED"][t].state}
  BY DEF Pruned, NoJournal
<1>2. [journal EXCEPT ![t].state = "CONFIRMED"][t].state = "CONFIRMED"
  BY DEF Inv, TypeOK, Journals
<1> QED BY <1>1, <1>2 DEF State

LEMMA CommitMoves ==
  ASSUME Inv, NEW c \in Clis, CommitStep(c)
  PROVE  CliMoves(c)
<1>t. PICK t : t = Txn(c)
  OBVIOUS
<1>a. c \in Actors /\ c \notin Txns /\ proc[c] \in Procs /\ TypeOK /\ TxnKnown(c)
  BY Disjoint DEF Actors, Inv, TypeOK
<1>b. proc[c].pc \in ApplyPcs => t \in Txns
  BY <1>t, <1>a DEF TxnKnown, Critical, CliCritical, CliPcs, ApplyPcs
<1>1. CASE CommitBegin(c)
  <2>1. PICK u : proc' = [proc EXCEPT ![c].pc = "snapshot", ![c].txn = u]
    BY <1>1 DEF CommitBegin
  <2>2. proc[c].pc = "queued" /\ proc'[c].pc = "snapshot" /\ proc'[c].op = proc[c].op
    BY <1>a, <1>1, <2>1 DEF TypeOK, Procs, CommitBegin, Enter, At
  <2> QED BY <1>1, <2>2 DEF CliMoves, ApplyPcs, StartApplying, StartRedo, At
<1>2. CASE Snapshot(c)
  <2>1. /\ proc[c].pc = "snapshot" /\ proc'[c].pc = "decide"
        /\ proc'[c].op = proc[c].op /\ proc'[c].txn = proc[c].txn
    BY <1>a, <1>2 DEF TypeOK, Procs, Snapshot, At
  <2> QED BY <2>1 DEF CliMoves, ApplyPcs, StartApplying, StartRedo, At, Txn
<1>3. CASE SnapshotFails(c)
  <2>1. proc' = [proc EXCEPT ![c] = Ended(c)] /\ proc[c].pc = "snapshot"
    BY <1>3 DEF SnapshotFails, Finish, At
  <2> QED BY <2>1, EndMoves DEF ApplyPcs, StartApplying, StartRedo, At
<1>4. CASE CloseUnapplied(c)
  <2>1. proc'[c].pc = "idle" /\ proc'[c].op = "none" /\ proc[c].pc = "decide"
    BY <1>a, <1>4 DEF TypeOK, CloseUnapplied, Finish, Ended, Fresh, At
  <2>2. ~StartApplying(c) /\ ~StartRedo(c)
    <3>1. StartApplying(c) \/ StartRedo(c) => proc'[c].pc \in {"apply", "redo"}
      BY <1>a DEF TypeOK, Procs, StartApplying, StartRedo
    <3> QED BY <2>1, <3>1
  <2> QED BY <2>1, <2>2 DEF CliMoves, ApplyPcs
<1>5. CASE StartApplying(c) \/ ApplyStart(c) \/ ApplyLands(c) \/ Verified(c)
  <2>1. /\ proc'[c].pc \in {"apply", "write", "judge"}
        /\ proc'[c].op = proc[c].op /\ proc'[c].txn = proc[c].txn
    <3>1. CASE ApplyStart(c)
      <4>1. PICK r : proc' = [proc EXCEPT ![c].pc = "write", ![c].todo = @ \ {r}, ![c].item = {r}]
        BY <3>1 DEF ApplyStart
      <4> QED BY <1>a, <4>1 DEF TypeOK, Procs
    <3>2. CASE StartApplying(c) \/ ApplyLands(c) \/ Verified(c)
      BY <1>a, <3>2 DEF TypeOK, Procs, StartApplying, ApplyLands, Verified
    <3> QED BY <1>5, <3>1, <3>2
  <2> QED BY <2>1, ApplyMoves DEF ApplyPcs
<1>6. CASE ApplyFails(c)
  <2>1. /\ proc[c].pc \in {"write", "judge"} /\ proc'[c].pc = "restore"
        /\ proc'[c].op = proc[c].op /\ SetState(Txn(c), "REVERTING")
    BY <1>a, <1>6 DEF TypeOK, Procs, ApplyFails, StartRestore, At
  <2>2. t \in Txns /\ State(t)' # "APPLYING"
    BY <1>t, <1>a, <1>b, <2>1, SetStateTurns DEF ApplyPcs, Turns
  <2> QED BY <1>t, <2>1, <2>2 DEF CliMoves, StartApplying, StartRedo, At
<1>7. CASE CommitDone(c)
  <2>1. /\ proc' = [proc EXCEPT ![c] = Ended(c)] /\ proc[c].pc = "apply"
        /\ journal' = Pruned([journal EXCEPT ![t].state = "CONFIRMED"])
    BY <1>t, <1>7 DEF CommitDone, Finish, At
  <2>2. t \in Txns /\ State(t)' # "APPLYING"
    BY <1>b, <2>1, ConfirmedIsCold DEF ApplyPcs
  <2> QED BY <1>t, <2>1, <2>2, EndMoves DEF StartApplying, StartRedo, At
<1>8. CASE OpenWindow(c)
  <2>1. proc[c].pc = "apply" /\ proc'[c].pc = "arming" /\ proc'[c].op = proc[c].op
    BY <1>a, <1>8 DEF TypeOK, Procs, OpenWindow, At
  <2>2. t \in Txns
    BY <1>b, <2>1 DEF ApplyPcs
  <2>3. State(t)' # "APPLYING"
    BY <1>a, <1>t, <1>8, <2>2 DEF TypeOK, Journals, OpenWindow, State
  <2> QED BY <1>t, <2>1, <2>2, <2>3 DEF CliMoves, StartApplying, StartRedo, At
<1>9. CASE SpawnWatchdog(c)
  <2>1. t \in Txns /\ t # c
    BY <1>t, <1>a, <1>9 DEF SpawnWatchdog, TxnKnown, Critical, CliCritical, CliPcs, At
  <2>2. proc' = [proc EXCEPT ![c].pc = "armwait", ![t].pc = "starting"]
    BY <1>t, <1>9 DEF SpawnWatchdog
  <2>3. proc[c].pc = "arming" /\ proc'[c].pc = "armwait" /\ proc'[c].op = proc[c].op
    BY <1>a, <1>9, <2>1, <2>2 DEF TypeOK, Procs, SpawnWatchdog, At
  <2> QED BY <2>3, OtherMoves DEF ApplyPcs
<1>10. CASE Armed(c)
  <2>1. proc' = [proc EXCEPT ![c] = Ended(c)] /\ proc[c].pc = "armwait"
    BY <1>10 DEF Armed, Finish, At
  <2> QED BY <2>1, EndMoves DEF ApplyPcs, StartApplying, StartRedo, At
<1>11. CASE ArmFails(c)
  <2>1. /\ proc[c].pc \in {"arming", "armwait"} /\ proc'[c].pc = "restore"
        /\ proc'[c].op = proc[c].op
    BY <1>a, <1>11 DEF TypeOK, Procs, ArmFails, StartRestore, At
  <2> QED BY <2>1, OtherMoves DEF ApplyPcs
<1> QED BY <1>1, <1>2, <1>3, <1>4, <1>5, <1>6, <1>7, <1>8, <1>9, <1>10, <1>11 DEF CommitStep

LEMMA ConfirmMoves ==
  ASSUME Inv, NEW c \in Clis, ConfirmStep(c)
  PROVE  CliMoves(c)
<1>t. PICK t : t = Txn(c)
  OBVIOUS
<1>a. c \in Actors /\ c \notin Txns /\ proc[c] \in Procs /\ TypeOK /\ TxnKnown(c)
  BY Disjoint DEF Actors, Inv, TypeOK
<1>1. CASE ConfirmSettles(c)
  <2>1. proc' = [proc EXCEPT ![c] = Ended(c)] /\ proc[c].pc = "settling"
    BY <1>1 DEF ConfirmSettles, Finish, At
  <2> QED BY <2>1, EndMoves DEF ApplyPcs, StartApplying, StartRedo, At
<1>2. CASE ConfirmClaims(c) \/ ConfirmClaimWrite(c) \/ WriteMarker(c)
  <2>1. /\ proc[c].pc \in {"queued", "claimwrite", "marking"}
        /\ proc'[c].pc \in {"claimwrite", "marking", "killing"} /\ proc'[c].op = proc[c].op
    BY <1>2, <1>a DEF ConfirmClaims, ConfirmClaimWrite, WriteMarker, TypeOK, Procs, Enter, At
  <2> QED BY <2>1, OtherMoves DEF ApplyPcs
<1>3. CASE KillWatchdog(c)
  <2>1. t \in Txns /\ t # c
    BY <1>t, <1>3, <1>a DEF KillWatchdog, TxnKnown, Critical, CliCritical, CliPcs, At
  <2>2. PICK term : proc' = [proc EXCEPT ![c].pc = "settling", ![t].term = term]
    BY <1>3, <1>t DEF KillWatchdog
  <2>3. proc[c].pc = "killing" /\ proc'[c].pc = "settling" /\ proc'[c].op = proc[c].op
    BY <1>a, <1>3, <2>1, <2>2 DEF TypeOK, Procs, KillWatchdog, At
  <2> QED BY <2>3, OtherMoves DEF ApplyPcs
<1> QED BY <1>1, <1>2, <1>3 DEF ConfirmStep

LEMMA RollbackMoves ==
  ASSUME Inv, NEW c \in Clis, RollbackStep(c)
  PROVE  CliMoves(c)
<1>t. PICK t : t = Txn(c)
  OBVIOUS
<1>a. c \in Actors /\ c \notin Txns /\ proc[c] \in Procs /\ TypeOK /\ TxnKnown(c)
  BY Disjoint DEF Actors, Inv, TypeOK
<1>1. CASE RollbackBegin(c)
  <2>1. PICK u, view :
          proc' = [proc EXCEPT ![c].pc = "snapshot", ![c].txn = u, ![c].view = view]
    BY <1>1 DEF RollbackBegin
  <2>2. proc[c].pc = "queued" /\ proc'[c].pc = "snapshot" /\ proc'[c].op = proc[c].op
    BY <1>a, <1>1, <2>1 DEF TypeOK, Procs, RollbackBegin, Enter, At
  <2> QED BY <1>1, <2>2 DEF CliMoves, ApplyPcs, StartApplying, StartRedo, At
<1>2. CASE StartRedo(c) \/ Redo(c) \/ RedoFails(c)
  <2>1. /\ proc'[c].pc = "redo" /\ proc'[c].op = proc[c].op /\ proc'[c].txn = proc[c].txn
    <3>1. CASE StartRedo(c)
      BY <1>a, <3>1 DEF TypeOK, Procs, StartRedo
    <3>2. CASE Redo(c) \/ RedoFails(c)
      <4>1. PICK r : \E value, failed : RedoStep(c, r, value, failed)
        BY <3>2 DEF Redo, RedoFails
      <4> QED BY <1>a, <4>1 DEF RedoStep, TypeOK, Procs, At
    <3> QED BY <1>2, <3>1, <3>2
  <2> QED BY <2>1, ApplyMoves DEF ApplyPcs
<1>3. CASE RedoDone(c)
  <2>1. /\ proc' = [proc EXCEPT ![c] = Ended(c)] /\ proc[c].pc = "redo"
        /\ SetState(t, "REVERT_FAILED")
           \/ journal' = Pruned([journal EXCEPT ![t].state = "CONFIRMED"])
    BY <1>t, <1>3 DEF RedoDone, Finish, At, SetState
  <2>2. t \in Txns
    BY <1>t, <1>a, <2>1 DEF TxnKnown, Critical, CliCritical, CliPcs
  <2>3. State(t)' # "APPLYING"
    BY <1>a, <2>1, <2>2, ConfirmedIsCold, SetStateTurns DEF Turns
  <2> QED BY <1>t, <2>1, <2>2, <2>3, EndMoves DEF StartApplying, StartRedo, At
<1> QED BY <1>1, <1>2, <1>3 DEF RollbackStep

LEMMA RestoreMoves ==
  ASSUME Inv, NEW c \in Clis, RestoreSteps(c) \/ RecoverStep(c)
  PROVE  CliMoves(c)
<1>a. c \in Actors /\ proc[c] \in Procs /\ TypeOK
  BY DEF Actors, Inv, TypeOK
<1>b. proc[c].pc \in {"restore", "queued"}
  BY DEF RestoreSteps, RecoverStep, Restore, RestoreFails, RestoreStep, RestoreDone,
         RecoverNothing, RecoverStart, Enter, At
<1>1. CASE Restore(c) \/ RestoreFails(c)
  <2>1. PICK r : \E value, failed : RestoreStep(c, r, value, failed)
    BY <1>1 DEF Restore, RestoreFails
  <2>2. proc'[c].pc = "restore" /\ proc'[c].op = proc[c].op
    BY <1>a, <2>1 DEF RestoreStep, TypeOK, Procs, At
  <2> QED BY <1>b, <2>2, OtherMoves DEF ApplyPcs
<1>2. CASE RestoreDone(c) \/ RecoverNothing(c)
  <2>1. proc' = [proc EXCEPT ![c] = Ended(c)]
    BY <1>2 DEF RestoreDone, RecoverNothing, Finish
  <2> QED BY <1>b, <2>1, EndMoves DEF ApplyPcs, StartApplying, StartRedo, At
<1>3. CASE RecoverStart(c)
  <2>1. proc'[c].pc = "restore" /\ proc'[c].op = proc[c].op
    BY <1>a, <1>3 DEF RecoverStart, StartRestore, TypeOK, Procs
  <2> QED BY <1>b, <2>1, OtherMoves DEF ApplyPcs
<1> QED BY <1>1, <1>2, <1>3 DEF RestoreSteps, RecoverStep

LEMMA CliStepMoves ==
  ASSUME Inv, NEW c \in Clis, CliStep(c)
  PROVE  CliMoves(c)
<1>1. CASE Crash(c)
  <2>1. c \in Actors /\ proc'[c].pc = "idle" /\ proc'[c].op = "none"
    BY <1>1, Disjoint DEF Crash, Inv, TypeOK, Actors, Ended, Fresh
  <2>2. ~StartApplying(c) /\ ~StartRedo(c)
    <3>1. StartApplying(c) \/ StartRedo(c) => proc'[c].pc \in {"apply", "redo"}
      BY <2>1 DEF Inv, TypeOK, Procs, StartApplying, StartRedo
    <3> QED BY <2>1, <3>1
  <2> QED BY <1>1, <2>1, <2>2 DEF CliMoves
<1> QED BY <1>1, QueueMoves, CommitMoves, ConfirmMoves, RollbackMoves, RestoreMoves DEF CliStep

\* A step of one process leaves every other CLI where it is.
LEMMA OthersRest ==
  ASSUME Inv, NEW a \in Actors, NEW c \in Clis, c # a,
         \/ a \in Clis /\ CliStep(a)
         \/ a \in Txns /\ (WatchdogStep(a) \/ RestoreSteps(a) \/ RecoverStep(a) \/ Crash(a))
  PROVE  Rests(c)
<1>t. PICK t : t = Txn(a)
  OBVIOUS
<1>a. c \in Actors /\ c \notin Txns /\ proc \in [Actors -> Procs] /\ TxnKnown(a)
  BY Disjoint DEF Actors, Inv, TypeOK
<1>1. SUFFICES proc'[c] = proc[c]
  BY DEF Rests
<1>2. CASE QueueStep(a)
  BY <1>a, <1>2 DEF QueueStep, Plan, Leave, AskConfirm, AskRollback, ScanOrphans
<1>3. CASE CommitStep(a) /\ ~SpawnWatchdog(a)
  BY <1>a, <1>3 DEF CommitStep, CommitBegin, Snapshot, SnapshotFails, CloseUnapplied, StartApplying,
       ApplyStart, ApplyLands, Verified, ApplyFails, CommitDone, OpenWindow, Armed, ArmFails,
       StartRestore, Finish
<1>4. CASE a \in Clis /\ (SpawnWatchdog(a) \/ KillWatchdog(a))
  <2>1. t \in Txns
    BY <1>t, <1>a, <1>4 DEF SpawnWatchdog, KillWatchdog, TxnKnown, Critical, CliCritical, CliPcs, At
  <2>2. c # t
    BY <1>a, <2>1
  <2>3. CASE SpawnWatchdog(a)
    <3>1. proc' = [proc EXCEPT ![a].pc = "armwait", ![t].pc = "starting"]
      BY <1>t, <2>3 DEF SpawnWatchdog
    <3> QED BY <1>a, <2>2, <3>1
  <2>4. CASE KillWatchdog(a)
    <3>1. PICK term : proc' = [proc EXCEPT ![a].pc = "settling", ![t].term = term]
      BY <1>t, <2>4 DEF KillWatchdog
    <3> QED BY <1>a, <2>2, <3>1
  <2> QED BY <1>4, <2>3, <2>4
<1>5. CASE ConfirmStep(a) /\ ~KillWatchdog(a)
  BY <1>a, <1>5 DEF ConfirmStep, ConfirmClaims, ConfirmClaimWrite, WriteMarker, ConfirmSettles, Finish
<1>6. CASE RollbackStep(a)
  BY <1>a, <1>6 DEF RollbackStep, RollbackBegin, StartRedo, Redo, RedoFails, RedoStep, RedoDone, Finish
<1>7. CASE RestoreSteps(a) \/ RecoverStep(a) \/ Crash(a)
  BY <1>a, <1>7 DEF RestoreSteps, RecoverStep, Restore, RestoreFails, RestoreStep, RestoreDone,
       RecoverNothing, RecoverStart, StartRestore, Crash, Finish
<1>8. CASE WatchdogStep(a)
  BY <1>a, <1>8 DEF WatchdogStep, WdComesUp, WdSeesEnd, WdExpires, WdYields, WdClaims, WdClaimWrite,
       WdGivesUp, WdMoves, WdExits
<1> QED BY <1>2, <1>3, <1>4, <1>5, <1>6, <1>7, <1>8 DEF CliStep

\* So a CLI either rests or takes a step of its own.
LEMMA CliNext ==
  ASSUME Inv, [Next]_vars, NEW c \in Clis
  PROVE  Rests(c) \/ CliStep(c)
<1>1. c \in Actors
  BY DEF Actors
<1>2. ASSUME NEW d \in Clis, CliStep(d) PROVE Rests(c) \/ CliStep(c)
  <2>1. d \in Actors
    BY DEF Actors
  <2> QED BY <1>1, <1>2, <2>1, OthersRest
<1>3. ASSUME NEW t \in Txns, WatchdogStep(t) \/ RestoreSteps(t) \/ RecoverStep(t) \/ Crash(t)
      PROVE  Rests(c)
  <2>1. t \in Actors /\ t # c
    BY Disjoint DEF Actors
  <2> QED BY <1>3, <2>1, OthersRest
<1>4. ASSUME NEW t \in Txns, Time(t) PROVE Rests(c)
  BY <1>4 DEF Time, Rests
<1>5. CASE UNCHANGED vars
  BY <1>5 DEF vars, Rests
<1>6. CASE \E d \in Clis :
             \/ Plan(d) \/ Leave(d) \/ AskConfirm(d) \/ AskRollback(d)
             \/ \E t \in Txns : ScanOrphans(d, t)
             \/ CommitStep(d) \/ ConfirmStep(d) \/ RollbackStep(d)
  BY <1>2, <1>6 DEF CliStep, QueueStep
<1>7. CASE \E a \in Actors : RestoreSteps(a) \/ RecoverStep(a) \/ Crash(a)
  BY <1>2, <1>3, <1>7 DEF Actors, CliStep
<1>8. CASE \E t \in Txns : WatchdogStep(t) \/ Time(t)
  BY <1>3, <1>4, <1>8
<1> QED BY <1>5, <1>6, <1>7, <1>8 DEF Next

LEMMA CrashCounts ==
  ASSUME Inv, [Next]_vars, crashes' = 0
  PROVE  crashes = 0 /\ \A a \in Actors : ~Crash(a)
<1>1. ASSUME NEW a \in Actors, Crash(a) PROVE FALSE
  BY <1>1 DEF Crash, Inv, TypeOK
<1>2. ASSUME NEW c \in Clis, QueueStep(c) \/ CommitStep(c) PROVE crashes' = crashes
  BY <1>2 DEF QueueStep, Plan, Leave, AskConfirm, AskRollback, ScanOrphans, CommitStep, CommitBegin,
       Snapshot, SnapshotFails, CloseUnapplied, StartApplying, ApplyStart, ApplyLands, Verified,
       ApplyFails, CommitDone, OpenWindow, SpawnWatchdog, Armed, ArmFails
<1>3. ASSUME NEW c \in Clis, ConfirmStep(c) \/ RollbackStep(c) PROVE crashes' = crashes
  BY <1>3 DEF ConfirmStep, ConfirmClaims, ConfirmClaimWrite, WriteMarker, KillWatchdog,
       ConfirmSettles, RollbackStep, RollbackBegin, StartRedo, Redo, RedoFails, RedoStep, RedoDone
<1>4. ASSUME NEW a \in Actors, RestoreSteps(a) \/ RecoverStep(a) PROVE crashes' = crashes
  BY <1>4 DEF RestoreSteps, RecoverStep, Restore, RestoreFails, RestoreStep, RestoreDone,
       RecoverNothing, RecoverStart
<1>5. ASSUME NEW t \in Txns, WatchdogStep(t) \/ Time(t) PROVE crashes' = crashes
  BY <1>5 DEF WatchdogStep, WdComesUp, WdSeesEnd, WdExpires, WdYields, WdClaims, WdClaimWrite,
       WdGivesUp, Time
<1>6. crashes' = crashes \/ \E a \in Actors : Crash(a)
  BY <1>2, <1>3, <1>4, <1>5 DEF Next, vars, QueueStep
<1> QED BY <1>1, <1>6

LEMMA InitHot == Init => HotInv
<1> SUFFICES ASSUME Init PROVE HotInv
  OBVIOUS
<1>1. \A t \in Txns : State(t) = "NONE"
  BY DEF Init, NoJournal, State
<1>2. \A c \in Clis : c \in Actors /\ proc[c].pc = "idle" /\ proc[c].op = "none"
  BY Disjoint DEF Init, Ended, Fresh, Actors
<1> QED BY <1>1, <1>2 DEF HotInv, InOrder, OpKnown, WorkerKnown, NewestIsHot, Hot, BlockingStates

LEMMA NextHot ==
  ASSUME Inv, DataInv, WatchInv, HotInv, [Next]_vars
  PROVE  HotInv'
<1>a. StateTurns
  BY NextTurns
<1>b. ASSUME NEW c \in Clis PROVE Rests(c) \/ CliMoves(c)
  BY CliNext, CliStepMoves
<1>c. ASSUME NEW u \in Txns, State(u)' = "NONE" PROVE State(u) = "NONE"
  BY <1>a, <1>c, EarlyIsOver
<1>1. InOrder'
  <2> SUFFICES ASSUME NEW t \in Txns, NEW u \in Txns, t < u, State(t)' = "NONE"
               PROVE  State(u)' = "NONE"
    BY DEF InOrder, State
  <2>1. State(t) = "NONE" /\ State(u) = "NONE"
    BY <1>c DEF HotInv, InOrder
  <2>2. ~NextId(u)
    BY <2>1 DEF NextId
  <2> QED BY <1>a, <2>1, <2>2, NoneEnds
<1>2. OpKnown'
  <2> SUFFICES ASSUME NEW c \in Clis, proc'[c].op = "rollback"
               PROVE  "rollback" \in Ops
    BY DEF OpKnown
  <2> QED BY <1>b DEF Rests, CliMoves, HotInv, OpKnown
<1>3. WorkerKnown'
  <2> SUFFICES ASSUME crashes' = 0, NEW t \in Txns, State(t)' = "APPLYING"
               PROVE  \E c \in Clis : Txn(c)' = t /\ proc'[c].pc \in ApplyPcs
    BY DEF WorkerKnown, State, Txn
  <2>1. CASE State(t) = "APPLYING"
    <3>1. PICK c \in Clis : Txn(c) = t /\ proc[c].pc \in ApplyPcs
      BY <2>1, CrashCounts DEF HotInv, WorkerKnown
    <3>2. ~Crash(c)
      BY CrashCounts DEF Actors
    <3>3. CASE Rests(c)
      BY <3>1, <3>3 DEF Rests, Txn
    <3>4. CASE CliMoves(c)
      <4>1. ~\E u \in Txns : Txn(c) = u /\ State(u)' # "APPLYING"
        BY <3>1
      <4>2. proc'[c].pc \in ApplyPcs /\ Txn(c)' = Txn(c)
        BY <3>1, <3>2, <3>4, <4>1 DEF CliMoves
      <4> QED BY <3>1, <4>2
    <3> QED BY <1>b, <3>3, <3>4
  <2>2. CASE State(t) # "APPLYING"
    <3>1. PICK c \in Clis : Txn(c) = t /\ (StartApplying(c) \/ StartRedo(c))
      BY <1>a, <2>2, HotStarts
    <3>2. CASE CliMoves(c)
      <4>1. proc'[c].pc \in ApplyPcs /\ Txn(c)' = Txn(c)
        BY <3>1, <3>2 DEF CliMoves
      <4> QED BY <3>1, <4>1
    <3>3. CASE Rests(c)
      <4>1. proc[c] \in Procs /\ proc[c].pc = "decide" /\ proc'[c].pc \in {"apply", "redo"}
        BY <3>1 DEF StartApplying, StartRedo, At, Inv, TypeOK, Actors, Procs
      <4> QED BY <3>3, <4>1 DEF Rests
    <3> QED BY <1>b, <3>2, <3>3
  <2> QED BY <2>1, <2>2
<1>4. NewestIsHot'
  <2> SUFFICES ASSUME crashes' = 0, "rollback" \notin Ops
               PROVE  /\ \A t, u \in Txns : t < u /\ State(t)' \in Hot => State(u)' = "NONE"
                      /\ \A c \in Clis, u \in Txns :
                           proc'[c].pc \in {"snapshot", "decide"} /\ u > Txn(c)' => State(u)' = "NONE"
    BY DEF NewestIsHot, State, Txn
  <2>1. /\ crashes = 0
        /\ \A t, u \in Txns : t < u /\ State(t) \in Hot => State(u) = "NONE"
        /\ \A c \in Clis, u \in Txns :
             proc[c].pc \in {"snapshot", "decide"} /\ u > Txn(c) => State(u) = "NONE"
    BY CrashCounts DEF HotInv, NewestIsHot
  <2>2. \A c \in Clis : ~RollbackBegin(c)
    BY DEF RollbackBegin, Enter, HotInv, OpKnown
  <2>3. ASSUME NEW c \in Clis, CommitBegin(c), NEW t \in Txns
        PROVE  /\ State(t) \notin Hot
               /\ \A d \in Clis : proc[d].pc \notin {"snapshot", "decide"}
    <3>1. lock = NoActor /\ State(t) \notin BlockingStates
      BY <2>3 DEF CommitBegin, Enter, NoPendingConfirm
    <3>2. ASSUME NEW d \in Clis PROVE proc[d].pc \notin ApplyPcs \cup {"snapshot", "decide"}
      <4>1. d \in Actors /\ ~Critical(d)
        BY <3>1, Disjoint DEF Actors, Inv, LockHeld
      <4> QED BY <4>1 DEF Critical, CliCritical, CliPcs, ApplyPcs
    <3>3. State(t) # "APPLYING"
      BY <2>1, <3>2 DEF HotInv, WorkerKnown
    <3> QED BY <3>1, <3>2, <3>3 DEF Hot
  <2>4. ASSUME NEW t \in Txns, NEW u \in Txns, t < u, State(t)' \in Hot
        PROVE  State(u)' = "NONE"
    <3>1. CASE State(t) \in Hot
      <4>1. State(u) = "NONE"
        BY <2>1, <2>4, <3>1
      <4> QED BY <1>a, <2>2, <2>3, <3>1, <4>1, NoneEnds
    <3>2. CASE State(t) \notin Hot
      <4>1. PICK c \in Clis : Txn(c) = t /\ (StartApplying(c) \/ StartRedo(c))
        BY <1>a, <2>4, <3>2, HotStarts
      <4>2. proc[c].pc = "decide"
        BY <4>1 DEF StartApplying, StartRedo, At
      <4>3. State(u) = "NONE"
        BY <2>1, <2>4, <4>1, <4>2
      <4>4. u # t
        BY <2>4 DEF Txns
      <4> QED BY <1>a, <2>4, <3>2, <4>3, <4>4, HotStarts
    <3> QED BY <3>1, <3>2
  <2>5. ASSUME NEW c \in Clis, NEW u \in Txns, proc'[c].pc \in {"snapshot", "decide"}, u > Txn(c)'
        PROVE  State(u)' = "NONE"
    <3>1. CASE Txn(c)' = Txn(c) /\ proc[c].pc \in {"snapshot", "decide"}
      <4>1. State(u) = "NONE"
        BY <2>1, <2>5, <3>1
      <4> QED BY <1>a, <2>2, <2>3, <3>1, <4>1, NoneEnds
    <3>2. CASE CommitBegin(c)
      <4>1. PICK t \in Txns : NextId(t) /\ SetState(t, "PENDING")
                              /\ proc' = [proc EXCEPT ![c].pc = "snapshot", ![c].txn = t]
        BY <3>2 DEF CommitBegin
      <4>2. Txn(c)' = t /\ Turns(t, {State(t)}, "PENDING")
        BY <4>1, SetStateTurns DEF Inv, TypeOK, Procs, Actors, Txn
      <4>3. t < u /\ State(u) = "NONE"
        BY <2>5, <4>1, <4>2 DEF HotInv, InOrder, NextId
      <4>4. u # t
        BY <4>3 DEF Txns
      <4> QED BY <4>2, <4>3, <4>4 DEF Turns
    <3> QED BY <1>b, <2>2, <2>5, <3>1, <3>2 DEF Rests, CliMoves, Txn
  <2> QED BY <2>4, <2>5
<1> QED BY <1>1, <1>2, <1>3, <1>4 DEF HotInv

\* Until a process dies nothing is begun after a transaction that has touched the
\* Orchestrator and is not settled (_guard_no_pending_confirm, the host lock).
THEOREM HotInvariance == Spec => []HotInv
<1>1. Inv /\ DataInv /\ WatchInv /\ HotInv /\ [Next]_vars => HotInv'
  BY NextHot
<1> QED BY <1>1, InitHot, Invariance, DataInvariance, WatchInvariance, PTL DEF Spec

\* A confirmed commit is never undone by the restore of an older transaction,
\* unless a process died or rollback <n> is used (_guard_no_pending_confirm).
THEOREM OnlyADeathErases == Spec => []ErasedOnlyAfterCrash
<1>1. HotInv => ErasedOnlyAfterCrash
  BY DEF HotInv, NewestIsHot, ErasedOnlyAfterCrash, NothingConfirmedIsErased, Hot, BlockingStates
<1> QED BY <1>1, HotInvariance, PTL

=============================================================================
