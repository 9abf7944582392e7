----------------------- MODULE CommitProtocol_proofs -----------------------
(* Theorems about CommitProtocol, for any number of CLIs, transactions,    *)
(* resources and crashes.                                                  *)
EXTENDS CommitProtocol, TLAPS

-----------------------------------------------------------------------------
(* The inductive invariant.                                                *)

\* Program counters of a CLI inside the section the host lock protects; a
\* watchdog is inside it only while it restores.
CliCritical == CliPcs \ {"idle", "queued"}
Critical(a) == IF a \in Clis THEN proc[a].pc \in CliCritical ELSE At(a, "restore")

\* Nobody is in the locked section without the lock.
LockHeld == \A a \in Actors : Critical(a) => lock = a

\* A watchdog is the watchdog of its transaction, and a process that works on
\* a transaction has one.
TxnKnown(a) ==
  /\ a \in Txns => proc[a].txn = a /\ proc[a].op = "recover" /\ proc[a].pc \in WdPcs
  /\ Critical(a) \/ (At(a, "queued") /\ proc[a].op = "recover") => Txn(a) \in Txns

\* What the state on disk is while its transaction is worked on.
StateKnown(a) == LET t == Txn(a) IN
  /\ proc[a].pc \in {"snapshot", "decide"} => State(t) = "PENDING"
  /\ proc[a].pc \in {"apply", "write", "judge", "redo"} => State(t) = "APPLYING"
  /\ proc[a].pc \in {"arming", "armwait"} =>
       State(t) = "APPLIED_UNCONFIRMED" /\ ~journal[t].marker
  /\ proc[a].pc = "restore" => State(t) = "REVERTING"
  /\ a \in Clis /\ proc[a].pc \in {"claimwrite", "marking", "killing", "settling"} =>
       State(t) = "APPLIED_UNCONFIRMED"

Inv ==
  /\ TypeOK
  /\ LockHeld
  /\ \A a \in Actors : TxnKnown(a) /\ StateKnown(a)
  /\ ConfirmedIsNeverRestored
  /\ WindowExclusive

-----------------------------------------------------------------------------
(* Type correctness.                                                       *)

LEMMA FreshType ==
  ASSUME NEW pc \in CliPcs \cup WdPcs, NEW op \in Commands \cup {"none"},
         NEW t \in Txns \cup {NoTxn}
  PROVE  Fresh(pc, op, t) \in Procs
  BY DEF Fresh, Procs, Views

LEMMA EndedType ==
  ASSUME NEW a \in Actors
  PROVE  Ended(a) \in Procs
<1>1. CASE a \in Txns
  BY <1>1, FreshType DEF Ended, CliPcs, WdPcs, Commands
<1>2. CASE a \notin Txns
  BY <1>2, FreshType DEF Ended, CliPcs, WdPcs, Commands
<1> QED BY <1>1, <1>2

LEMMA NoJournalType == NoJournal \in Journals
  BY DEF NoJournal, Journals, Views, States

\* Pruning leaves a journal as it is or removes it.
LEMMA PrunedType ==
  ASSUME NEW j \in [Txns -> Journals]
  PROVE  Pruned(j) \in [Txns -> Journals]
<1>1. [NoJournal EXCEPT !.state = "GONE"] \in Journals
  BY NoJournalType DEF Journals, States
<1> QED BY <1>1 DEF Pruned

LEMMA StateType ==
  ASSUME TypeOK, NEW t, NEW s \in States
  PROVE  [journal EXCEPT ![t].state = s] \in [Txns -> Journals]
  BY DEF TypeOK, Journals

LEMMA FinishType ==
  ASSUME TypeOK, NEW a \in Actors, Finish(a)
  PROVE  lock' \in Actors \cup {NoActor} /\ proc' \in [Actors -> Procs]
  BY EndedType DEF TypeOK, Finish

LEMMA InitType == Init => TypeOK
<1> SUFFICES ASSUME Init PROVE TypeOK
  OBVIOUS
<1>1. journal \in [Txns -> Journals]
  BY NoJournalType DEF Init
<1>2. proc \in [Actors -> Procs]
  <2>1. ASSUME NEW a \in Actors
        PROVE  (IF a \in Txns THEN Fresh("none", "recover", a) ELSE Ended(a)) \in Procs
    BY EndedType, FreshType DEF CliPcs, WdPcs, Commands
  <2> QED BY <2>1 DEF Init
<1>3. fabric \in [Refs -> Values] /\ lock \in Actors \cup {NoActor} /\ crashes \in Nat
  BY ProtocolAssumption DEF Init, Values
<1> QED BY <1>1, <1>2, <1>3 DEF TypeOK

LEMMA PlanType == ASSUME TypeOK, NEW c \in Clis, Plan(c) PROVE TypeOK'
<1>1. PICK R \in SUBSET {r \in Refs : fabric[r] # c},
           confirm \in {b \in BOOLEAN : b => "confirm" \in Ops},
           rebase \in {b \in BOOLEAN : b => "rebase" \in Ops} :
        proc' = [proc EXCEPT ![c] =
            [Fresh("queued", "commit", NoTxn) EXCEPT
               !.view = [r \in Refs |-> IF r \in R THEN fabric[r] ELSE NoSnap],
               !.confirm = confirm,
               !.rebase = rebase]]
  BY DEF Plan
<1>2. Fresh("queued", "commit", NoTxn) \in Procs
  BY FreshType DEF CliPcs, Commands
<1>3. [r \in Refs |-> IF r \in R THEN fabric[r] ELSE NoSnap] \in Views
  BY DEF TypeOK, Views
<1>4. proc'[c] \in Procs
  BY <1>1, <1>2, <1>3 DEF Procs, TypeOK, Actors
<1> QED BY <1>1, <1>4 DEF TypeOK, Plan

LEMMA StartRestoreType ==
  ASSUME TypeOK, NEW a \in Actors, Txn(a) \in Txns, StartRestore(a)
  PROVE  journal' \in [Txns -> Journals] /\ proc' \in [Actors -> Procs]
<1>1. journal' \in [Txns -> Journals]
  BY StateType DEF StartRestore, SetState, States, BlockingStates
<1>2. proc[a] \in Procs /\ journal[Txn(a)].started \in SUBSET Refs
  BY DEF TypeOK, Journals
<1>3. proc' \in [Actors -> Procs]
  BY <1>2 DEF TypeOK, StartRestore, Procs, CliPcs
<1> QED BY <1>1, <1>3

LEMMA CommitType ==
  ASSUME TypeOK, NEW c \in Clis, CommitStep(c), Critical(c) => Txn(c) \in Txns
  PROVE  TypeOK'
<1>a. c \in Actors /\ proc[c] \in Procs
  BY DEF Actors, TypeOK
<1>1. CASE CommitBegin(c)
  <2>1. PICK t \in Txns : SetState(t, "PENDING")
                        /\ proc' = [proc EXCEPT ![c].pc = "snapshot", ![c].txn = t]
    BY <1>1 DEF CommitBegin
  <2>2. journal' \in [Txns -> Journals]
    BY <2>1, StateType DEF SetState, States
  <2>3. proc' \in [Actors -> Procs]
    BY <2>1, <1>a DEF TypeOK, Procs, CliPcs
  <2> QED BY <1>1, <1>a, <2>2, <2>3 DEF TypeOK, CommitBegin, Enter
<1>2. CASE Snapshot(c)
  <2>1. [r \in Refs |-> IF r \in Planned(c) THEN fabric[r] ELSE NoSnap] \in Views
    BY DEF TypeOK, Views
  <2>2. journal' \in [Txns -> Journals]
    BY <1>2, <2>1 DEF TypeOK, Snapshot, Journals
  <2>3. proc' \in [Actors -> Procs]
    BY <1>2, <1>a DEF TypeOK, Snapshot, Procs, CliPcs
  <2> QED BY <1>2, <2>2, <2>3 DEF TypeOK, Snapshot
<1>3. CASE SnapshotFails(c)
  BY <1>3, <1>a, FinishType DEF TypeOK, SnapshotFails
<1>4. CASE CloseUnapplied(c)
  BY <1>4, <1>a, FinishType, StateType DEF TypeOK, CloseUnapplied, SetState, States, Terminal
<1>5. CASE StartApplying(c)
  <2>1. journal' \in [Txns -> Journals]
    BY <1>5, StateType DEF StartApplying, SetState, States
  <2>2. Work(c) \in SUBSET Refs
    BY DEF Work, Planned
  <2>3. proc' \in [Actors -> Procs]
    BY <1>5, <1>a, <2>2 DEF TypeOK, StartApplying, Procs, CliPcs
  <2> QED BY <1>5, <2>1, <2>3 DEF TypeOK, StartApplying
<1>6. CASE ApplyStart(c)
  <2>1. PICK r \in proc[c].todo :
          /\ journal' = [journal EXCEPT ![Txn(c)].started = @ \cup {r}]
          /\ proc' = [proc EXCEPT ![c].pc = "write", ![c].todo = @ \ {r}, ![c].item = {r}]
    BY <1>6 DEF ApplyStart
  <2>2. r \in Refs
    BY <1>a, <2>1 DEF Procs
  <2>3. journal' \in [Txns -> Journals]
    BY <2>1, <2>2 DEF TypeOK, Journals
  <2>4. proc' \in [Actors -> Procs]
    BY <2>1, <2>2, <1>a DEF TypeOK, Procs, CliPcs
  <2> QED BY <1>6, <2>3, <2>4 DEF TypeOK, ApplyStart
<1>7. CASE ApplyLands(c)
  <2>1. fabric' \in [Refs -> Values]
    BY <1>7 DEF TypeOK, ApplyLands, Values
  <2>2. proc' \in [Actors -> Procs]
    BY <1>7, <1>a DEF TypeOK, ApplyLands, Procs, CliPcs
  <2> QED BY <1>7, <2>1, <2>2 DEF TypeOK, ApplyLands
<1>8. CASE Verified(c)
  BY <1>8, <1>a DEF TypeOK, Verified, Procs, CliPcs
<1>9. CASE StartRestore(c) /\ Txn(c) \in Txns /\ UNCHANGED <<fabric, lock, crashes>>
  BY <1>9, <1>a, StartRestoreType DEF TypeOK
<1>10. CASE CommitDone(c)
  <2>1. [journal EXCEPT ![Txn(c)].state = "CONFIRMED"] \in [Txns -> Journals]
    BY StateType DEF States, Terminal
  <2> QED BY <1>10, <1>a, <2>1, FinishType, PrunedType DEF TypeOK, CommitDone
<1>11. CASE OpenWindow(c)
  <2>1. journal' \in [Txns -> Journals]
    <3>1. "APPLIED_UNCONFIRMED" \in States
      BY DEF States, BlockingStates
    <3> QED BY <1>11, <3>1 DEF TypeOK, OpenWindow, Journals
  <2>2. proc' \in [Actors -> Procs]
    BY <1>11, <1>a DEF TypeOK, OpenWindow, Procs, CliPcs
  <2> QED BY <1>11, <2>1, <2>2 DEF TypeOK, OpenWindow
<1>12. CASE SpawnWatchdog(c)
  <2>1. "armwait" \in CliPcs \cup WdPcs /\ "starting" \in CliPcs \cup WdPcs
    BY DEF CliPcs, WdPcs
  <2>2. ASSUME NEW a \in Actors PROVE proc'[a] \in Procs
    BY <1>12, <1>a, <2>1 DEF TypeOK, SpawnWatchdog, Procs
  <2>3. proc' \in [Actors -> Procs]
    BY <1>12, <2>2 DEF TypeOK, SpawnWatchdog
  <2> QED BY <1>12, <2>3 DEF TypeOK, SpawnWatchdog
<1>13. CASE Armed(c)
  BY <1>13, <1>a, FinishType DEF TypeOK, Armed
<1>14. ApplyFails(c) \/ ArmFails(c) =>
         StartRestore(c) /\ Critical(c) /\ UNCHANGED <<fabric, lock, crashes>>
  BY DEF ApplyFails, ArmFails, Critical, CliCritical, CliPcs, At
<1> QED BY <1>1, <1>2, <1>3, <1>4, <1>5, <1>6, <1>7, <1>8, <1>9, <1>10, <1>11, <1>12,
           <1>13, <1>14 DEF CommitStep

LEMMA RestoreType ==
  ASSUME TypeOK, NEW a \in Actors, RestoreSteps(a), Critical(a) => Txn(a) \in Txns
  PROVE  TypeOK'
<1>a. proc[a] \in Procs
  BY DEF TypeOK
<1>b. At(a, "restore") => Txn(a) \in Txns
  BY DEF Critical, CliCritical, CliPcs, At
<1>1. ASSUME NEW r \in proc[a].todo, NEW value \in Values, NEW failed \in BOOLEAN,
             RestoreStep(a, r, value, failed)
      PROVE  TypeOK'
  <2>1. fabric' \in [Refs -> Values]
    BY <1>1 DEF TypeOK, RestoreStep
  <2>2. proc' \in [Actors -> Procs]
    BY <1>1, <1>a DEF TypeOK, RestoreStep, Procs
  <2> QED BY <1>1, <2>1, <2>2 DEF TypeOK, RestoreStep
<1>2. ASSUME NEW r \in proc[a].todo, At(a, "restore")
      PROVE  /\ fabric[r] \in Values
             /\ journal[Txn(a)].snap[r] # NoSnap => journal[Txn(a)].snap[r] \in Values
  BY <1>2, <1>a, <1>b DEF TypeOK, Procs, Journals, Views
<1>3. CASE Restore(a)
  <2>1. PICK r \in proc[a].todo :
          /\ journal[Txn(a)].snap[r] # NoSnap
          /\ \/ RestoreStep(a, r, journal[Txn(a)].snap[r], FALSE)
             \/ RestoreStep(a, r, fabric[r], FALSE)
    BY <1>3 DEF Restore
  <2>2. At(a, "restore")
    BY <2>1 DEF RestoreStep
  <2> QED BY <1>1, <1>2, <2>1, <2>2
<1>4. CASE RestoreFails(a)
  <2>1. PICK r \in proc[a].todo, landed \in BOOLEAN :
          RestoreStep(a, r, IF landed /\ journal[Txn(a)].snap[r] # NoSnap
                              THEN journal[Txn(a)].snap[r] ELSE fabric[r], TRUE)
    BY <1>4 DEF RestoreFails
  <2>2. At(a, "restore")
    BY <2>1 DEF RestoreStep
  <2> QED BY <1>1, <1>2, <2>1, <2>2
<1>5. CASE RestoreDone(a)
  <2>1. journal' \in [Txns -> Journals]
    BY <1>5, StateType DEF RestoreDone, SetState, States, Terminal
  <2> QED BY <1>5, <2>1, FinishType DEF TypeOK, RestoreDone
<1> QED BY <1>3, <1>4, <1>5 DEF RestoreSteps

LEMMA RecoverType ==
  ASSUME TypeOK, NEW a \in Actors, RecoverStep(a),
         At(a, "queued") /\ proc[a].op = "recover" => Txn(a) \in Txns
  PROVE  TypeOK'
<1>a. proc[a] \in Procs
  BY DEF TypeOK
<1>1. CASE RecoverNothing(a)
  <2>1. journal' \in [Txns -> Journals]
    BY <1>1, StateType DEF RecoverNothing, SetState, States, Terminal
  <2> QED BY <1>1, <2>1, EndedType DEF TypeOK, RecoverNothing
<1>2. CASE RecoverStart(a)
  <2>1. Txn(a) \in Txns
    BY <1>2 DEF RecoverStart, Enter
  <2> QED BY <1>2, <2>1, StartRestoreType DEF TypeOK, RecoverStart, Enter
<1> QED BY <1>1, <1>2 DEF RecoverStep

LEMMA ConfirmType ==
  ASSUME TypeOK, NEW c \in Clis, ConfirmStep(c)
  PROVE  TypeOK'
<1>a. c \in Actors /\ proc[c] \in Procs
  BY DEF Actors, TypeOK
<1>b. {"claimwrite", "marking", "killing", "settling"} \subseteq CliPcs \cup WdPcs
  BY DEF CliPcs
<1>1. CASE ConfirmClaims(c)
  <2>1. PICK t \in Txns :
          \/ /\ journal' = [journal EXCEPT ![t].claim = "empty"]
             /\ proc' = [proc EXCEPT ![c].pc = "claimwrite", ![c].txn = t]
          \/ /\ journal' = journal
             /\ proc' = [proc EXCEPT ![c].pc = "marking", ![c].txn = t]
    BY <1>1 DEF ConfirmClaims
  <2>2. journal' \in [Txns -> Journals]
    BY <2>1 DEF TypeOK, Journals
  <2>3. proc' \in [Actors -> Procs]
    BY <2>1, <1>a, <1>b DEF TypeOK, Procs
  <2> QED BY <1>1, <1>a, <2>2, <2>3 DEF TypeOK, ConfirmClaims, Enter
<1>2. CASE ConfirmClaimWrite(c)
  <2>1. journal' \in [Txns -> Journals]
    BY <1>2 DEF TypeOK, ConfirmClaimWrite, Journals
  <2>2. proc' \in [Actors -> Procs]
    BY <1>2, <1>a, <1>b DEF TypeOK, ConfirmClaimWrite, Procs
  <2> QED BY <1>2, <2>1, <2>2 DEF TypeOK, ConfirmClaimWrite
<1>3. CASE WriteMarker(c)
  <2>1. journal' \in [Txns -> Journals]
    BY <1>3 DEF TypeOK, WriteMarker, Journals
  <2>2. proc' \in [Actors -> Procs]
    BY <1>3, <1>a, <1>b DEF TypeOK, WriteMarker, Procs
  <2> QED BY <1>3, <2>1, <2>2 DEF TypeOK, WriteMarker
<1>4. CASE KillWatchdog(c)
  <2>1. proc' = [proc EXCEPT ![c].pc = "settling", ![Txn(c)].term = @ \/ WatchdogUp(Txn(c))]
    BY <1>4 DEF KillWatchdog
  <2>2. WatchdogUp(Txn(c)) \in BOOLEAN
    BY Zenon DEF WatchdogUp
  <2>3. ASSUME NEW a \in Actors PROVE proc'[a] \in Procs
    BY <1>a, <1>b, <2>1, <2>2 DEF TypeOK, Procs
  <2>4. proc' \in [Actors -> Procs]
    BY <2>1, <2>3 DEF TypeOK
  <2> QED BY <1>4, <2>4 DEF TypeOK, KillWatchdog
<1>5. CASE ConfirmSettles(c)
  <2>1. [journal EXCEPT ![Txn(c)].state = "CONFIRMED"] \in [Txns -> Journals]
    BY StateType DEF States, Terminal
  <2>2. journal' \in [Txns -> Journals]
    BY <1>5, <2>1, PrunedType DEF TypeOK, ConfirmSettles
  <2>3. Finish(c) /\ UNCHANGED <<fabric, crashes>>
    BY <1>5 DEF ConfirmSettles
  <2> QED BY <1>a, <2>2, <2>3, FinishType DEF TypeOK
<1> QED BY <1>1, <1>2, <1>3, <1>4, <1>5 DEF ConfirmStep

LEMMA RollbackType ==
  ASSUME TypeOK, NEW c \in Clis, RollbackStep(c)
  PROVE  TypeOK'
<1>a. c \in Actors /\ proc[c] \in Procs
  BY DEF Actors, TypeOK
<1>b. {"snapshot", "redo"} \subseteq CliPcs \cup WdPcs
  BY DEF CliPcs
<1>1. CASE RollbackBegin(c)
  <2>1. PICK s \in Txns, t \in Txns :
          /\ SetState(t, "PENDING")
          /\ proc' = [proc EXCEPT ![c].pc = "snapshot", ![c].txn = t,
               ![c].view = [r \in Refs |-> IF r \in journal[s].started
                                             THEN journal[s].snap[r] ELSE NoSnap]]
    BY <1>1 DEF RollbackBegin
  <2>2. journal' \in [Txns -> Journals]
    BY <2>1, StateType DEF SetState, States
  <2>3. [r \in Refs |-> IF r \in journal[s].started
                          THEN journal[s].snap[r] ELSE NoSnap] \in Views
    BY DEF TypeOK, Journals, Views
  <2>4. proc' \in [Actors -> Procs]
    BY <2>1, <2>3, <1>a, <1>b DEF TypeOK, Procs
  <2> QED BY <1>1, <1>a, <2>2, <2>4 DEF TypeOK, RollbackBegin, Enter
<1>2. CASE StartRedo(c)
  <2>1. journal' \in [Txns -> Journals]
    BY <1>2, StateType DEF StartRedo, SetState, States
  <2>2. Planned(c) \in SUBSET Refs
    BY DEF Planned
  <2>3. proc' \in [Actors -> Procs]
    BY <1>2, <1>a, <1>b, <2>2 DEF TypeOK, StartRedo, Procs
  <2> QED BY <1>2, <2>1, <2>3 DEF TypeOK, StartRedo
<1>3. ASSUME NEW r \in Planned(c), NEW value \in Values, NEW failed \in BOOLEAN,
             RedoStep(c, r, value, failed)
      PROVE  TypeOK'
  <2>1. r \in Refs
    BY <1>3 DEF Planned
  <2>2. fabric' \in [Refs -> Values]
    BY <1>3 DEF TypeOK, RedoStep
  <2>3. journal' \in [Txns -> Journals]
    BY <1>3, <2>1 DEF TypeOK, RedoStep, Journals
  <2>4. proc' \in [Actors -> Procs]
    BY <1>3, <1>a DEF TypeOK, RedoStep, Procs
  <2> QED BY <1>3, <2>2, <2>3, <2>4 DEF TypeOK, RedoStep
<1>4. ASSUME NEW r \in Planned(c)
      PROVE  fabric[r] \in Values /\ proc[c].view[r] \in Values
  BY <1>4, <1>a DEF TypeOK, Planned, Procs, Views
<1>5. CASE Redo(c)
  BY <1>3, <1>4, <1>5 DEF Redo
<1>6. CASE RedoFails(c)
  BY <1>3, <1>4, <1>6 DEF RedoFails
<1>7. CASE RedoDone(c)
  <2>1. /\ [journal EXCEPT ![Txn(c)].state = "CONFIRMED"] \in [Txns -> Journals]
        /\ [journal EXCEPT ![Txn(c)].state = "REVERT_FAILED"] \in [Txns -> Journals]
    BY StateType DEF States, Terminal
  <2>2. journal' \in [Txns -> Journals]
    BY <1>7, <2>1, PrunedType DEF RedoDone
  <2>3. Finish(c) /\ UNCHANGED <<fabric, crashes>>
    BY <1>7 DEF RedoDone
  <2> QED BY <1>a, <2>2, <2>3, FinishType DEF TypeOK
<1> QED BY <1>1, <1>2, <1>5, <1>6, <1>7 DEF RollbackStep

LEMMA WatchdogType ==
  ASSUME TypeOK, NEW t \in Txns, WatchdogStep(t)
  PROVE  TypeOK'
<1>a. t \in Actors /\ proc[t] \in Procs
  BY DEF Actors, TypeOK
<1>1. ASSUME NEW from, NEW to \in WdPcs, WdMoves(t, from, to)
      PROVE  proc' \in [Actors -> Procs]
  BY <1>1, <1>a DEF TypeOK, WdMoves, Procs
<1>2. ASSUME NEW from, WdExits(t, from)
      PROVE  proc' \in [Actors -> Procs]
  BY <1>2, <1>a, EndedType DEF TypeOK, WdExits
<1>3. CASE WdComesUp(t)
  <2>1. journal' \in [Txns -> Journals]
    BY <1>3 DEF TypeOK, WdComesUp, Journals
  <2> QED BY <1>1, <1>3, <2>1 DEF TypeOK, WdComesUp, WdPcs
<1>4. CASE WdSeesEnd(t)
  BY <1>2, <1>4 DEF TypeOK, WdSeesEnd
<1>5. CASE WdExpires(t)
  BY <1>1, <1>5 DEF TypeOK, WdExpires, WdPcs
<1>6. CASE WdYields(t)
  BY <1>2, <1>6 DEF TypeOK, WdYields
<1>7. CASE WdClaims(t)
  <2>1. journal' \in [Txns -> Journals]
    BY <1>7 DEF TypeOK, WdClaims, Journals
  <2> QED BY <1>1, <1>7, <2>1 DEF TypeOK, WdClaims, WdPcs
<1>8. CASE WdClaimWrite(t)
  <2>1. journal' \in [Txns -> Journals]
    BY <1>8 DEF TypeOK, WdClaimWrite, Journals
  <2> QED BY <1>1, <1>8, <2>1 DEF TypeOK, WdClaimWrite, WdPcs
<1>9. CASE WdGivesUp(t)
  BY <1>2, <1>9 DEF TypeOK, WdGivesUp
<1> QED BY <1>3, <1>4, <1>5, <1>6, <1>7, <1>8, <1>9 DEF WatchdogStep

\* The steps by which a CLI starts to wait for the lock or stops waiting.
LEMMA QueueType ==
  ASSUME TypeOK, NEW c \in Clis,
         Leave(c) \/ AskConfirm(c) \/ AskRollback(c) \/ \E t \in Txns : ScanOrphans(c, t)
  PROVE  TypeOK'
<1>1. c \in Actors
  BY DEF Actors
<1>2. ASSUME NEW op \in Commands, NEW t \in Txns \cup {NoTxn}
      PROVE  Fresh("queued", op, t) \in Procs
  BY FreshType DEF CliPcs
<1>3. proc' \in [Actors -> Procs]
  BY <1>1, <1>2, EndedType
     DEF TypeOK, Leave, AskConfirm, AskRollback, ScanOrphans, Commands
<1> QED BY <1>3 DEF TypeOK, Leave, AskConfirm, AskRollback, ScanOrphans

LEMMA EnvironmentType ==
  ASSUME TypeOK, (\E t \in Txns : Time(t)) \/ (\E a \in Actors : Crash(a))
  PROVE  TypeOK'
<1>1. ASSUME NEW t \in Txns, Time(t) PROVE TypeOK'
  <2>1. journal' \in [Txns -> Journals]
    BY <1>1 DEF TypeOK, Time, Journals
  <2> QED BY <1>1, <2>1 DEF TypeOK, Time
<1>2. ASSUME NEW a \in Actors, Crash(a) PROVE TypeOK'
  BY <1>2, EndedType DEF TypeOK, Crash
<1> QED BY <1>1, <1>2

-----------------------------------------------------------------------------
(* How one process can disturb the invariant.  A step either keeps the     *)
(* lock, and then may change the directory of the transaction it works on, *)
(* or leaves its process outside the locked section.                       *)

LEMMA Disjoint == NoActor \notin Actors /\ Clis \cap Txns = {}
  BY ProtocolAssumption DEF Actors

\* b takes no step of its own; a watchdog may be started by its commit.
Untouched(b) ==
  /\ proc'[b].op = proc[b].op /\ proc'[b].txn = proc[b].txn
  /\ proc'[b].pc = proc[b].pc \/ (b \in Txns /\ proc'[b].pc = "starting")

SameDir(t) == State(t)' = State(t) /\ journal'[t].marker = journal[t].marker

MarkerFits(t) == journal[t].marker => State(t) \in {"APPLIED_UNCONFIRMED", "CONFIRMED"}

LEMMA UntouchedStays ==
  ASSUME Inv, NEW b \in Actors, Untouched(b)
  PROVE  /\ TxnKnown(b)'
         /\ Critical(b)' => Critical(b)
         /\ b \in Clis => proc'[b].pc = proc[b].pc
  BY Disjoint DEF Inv, TxnKnown, Untouched, Critical, At, Txn, WdPcs

\* Who is outside the locked section knows nothing about a transaction.
LEMMA OutsideState ==
  ASSUME NEW b \in Actors, TypeOK', TxnKnown(b)', ~Critical(b)'
  PROVE  /\ StateKnown(b)'
         /\ b \in Clis => proc'[b].pc \notin CommitPcs
<1>1. CASE b \in Clis
  <2>1. proc'[b].pc \notin CliCritical
    BY <1>1 DEF Critical
  <2> QED BY <1>1, <2>1 DEF StateKnown, CliCritical, CliPcs, CommitPcs
<1>2. CASE b \in Txns
  <2>1. proc'[b].pc \in WdPcs /\ proc'[b].pc # "restore" /\ b \notin Clis
    BY <1>2, Disjoint DEF TxnKnown, Critical, At
  <2> QED BY <2>1 DEF StateKnown, WdPcs
<1> QED BY <1>1, <1>2 DEF Actors

LEMMA Alone ==
  ASSUME Inv, NEW a \in Actors, lock \in {a, NoActor}, NEW b \in Actors \ {a}
  PROVE  ~Critical(b)
  BY Disjoint DEF Inv, LockHeld

LEMMA HoldStep ==
  ASSUME Inv, TypeOK', NEW a \in Actors,
         lock \in {a, NoActor}, lock' = a,
         \A b \in Actors \ {a} : Untouched(b),
         TxnKnown(a)', StateKnown(a)',
         \A t \in Txns : t = Txn(a)' \/ SameDir(t),
         \A t \in Txns : t = Txn(a)' => MarkerFits(t)',
         a \in Clis /\ proc'[a].pc \in CommitPcs /\ proc'[a].op = "commit" =>
           \A t \in Txns : t = Txn(a)' \/ State(t) \notin BlockingStates
  PROVE  Inv'
<1>1. \A b \in Actors \ {a} : ~Critical(b)' /\ TxnKnown(b)'
  BY Alone, UntouchedStays
<1>2. LockHeld'
  BY <1>1 DEF LockHeld
<1>3. \A b \in Actors : TxnKnown(b)' /\ StateKnown(b)'
  BY <1>1, OutsideState
<1>4. ConfirmedIsNeverRestored'
  BY DEF Inv, ConfirmedIsNeverRestored, SameDir, MarkerFits
<1>5. WindowExclusive'
  <2> SUFFICES ASSUME NEW c \in Clis, NEW t \in Txns,
                      proc'[c].pc \in CommitPcs, proc'[c].op = "commit",
                      State(t)' \in BlockingStates
               PROVE  t = Txn(c)'
    BY DEF WindowExclusive
  <2>1. c = a
    BY <1>1, OutsideState DEF Actors
  <2> QED BY <2>1 DEF SameDir
<1> QED BY <1>2, <1>3, <1>4, <1>5 DEF Inv

LEMMA FreeStep ==
  ASSUME Inv, TypeOK', NEW a \in Actors,
         \A b \in Actors \ {a} : Untouched(b),
         TxnKnown(a)', ~Critical(a)',
         \A t \in Txns : MarkerFits(t)',
         \/ lock \in {a, NoActor}
         \/ lock' = lock /\ \A t \in Txns : SameDir(t)
  PROVE  Inv'
<1>1. \A b \in Actors : TxnKnown(b)'
  BY UntouchedStays
<1>2. ConfirmedIsNeverRestored'
  BY DEF ConfirmedIsNeverRestored, MarkerFits
<1>3. CASE lock \in {a, NoActor}
  <2>1. \A b \in Actors : ~Critical(b)'
    BY <1>3, Alone, UntouchedStays
  <2>2. LockHeld' /\ \A b \in Actors : StateKnown(b)'
    BY <1>1, <2>1, OutsideState DEF LockHeld
  <2>3. WindowExclusive'
    BY <1>1, <2>1, OutsideState DEF WindowExclusive, Actors
  <2> QED BY <1>1, <1>2, <2>2, <2>3 DEF Inv
<1>4. CASE lock' = lock /\ \A t \in Txns : SameDir(t)
  <2>1. \A b \in Actors : Critical(b)' => Critical(b)
    BY UntouchedStays
  <2>2. LockHeld'
    BY <1>4, <2>1 DEF Inv, LockHeld
  <2>3. ASSUME NEW b \in Actors, Critical(b)'
        PROVE  StateKnown(b)'
    <3>1. b # a /\ Critical(b) /\ StateKnown(b) /\ Txn(b) \in Txns
      BY <2>1, <2>3 DEF Inv, TxnKnown
    <3>2. Untouched(b)
      BY <3>1
    <3>3. Txn(b)' = Txn(b) /\ SameDir(Txn(b)) /\ proc'[b].pc = proc[b].pc
      BY <1>4, <2>3, <3>1, <3>2, Disjoint DEF Txn, Untouched, Critical, At
    <3> QED BY <3>1, <3>3 DEF StateKnown, SameDir, State
  <2>4. WindowExclusive'
    <3> SUFFICES ASSUME NEW c \in Clis, NEW t \in Txns,
                        proc'[c].pc \in CommitPcs, proc'[c].op = "commit",
                        State(t)' \in BlockingStates
                 PROVE  t = Txn(c)'
      BY DEF WindowExclusive
    <3>1. c \in Actors /\ c # a
      BY <1>1, OutsideState DEF Actors
    <3>2. Untouched(c) /\ proc'[c].pc = proc[c].pc
      BY <3>1, UntouchedStays
    <3> QED BY <1>4, <3>2 DEF Inv, WindowExclusive, Untouched, SameDir, Txn
  <2> QED BY <1>1, <1>2, <2>2, <2>3, <2>4, OutsideState DEF Inv
<1> QED BY <1>3, <1>4

-----------------------------------------------------------------------------
(* Every step preserves the invariant.                                     *)

LEMMA PrunedFits ==
  ASSUME NEW j \in [Txns -> Journals], NEW t \in Txns
  PROVE  /\ Pruned(j)[t].marker => j[t].marker /\ Pruned(j)[t].state = j[t].state
  BY DEF Pruned, NoJournal, Journals

LEMMA EndedOutside ==
  ASSUME TypeOK, NEW a \in Actors, proc' = [proc EXCEPT ![a] = Ended(a)]
  PROVE  /\ TxnKnown(a)' /\ ~Critical(a)'
         /\ \A b \in Actors \ {a} : Untouched(b)
<1>1. proc'[a] = Ended(a) /\ \A b \in Actors \ {a} : proc'[b] = proc[b]
  BY DEF TypeOK
<1> QED BY <1>1, Disjoint
        DEF TxnKnown, Critical, CliCritical, At, Ended, Fresh, WdPcs, Untouched

\* A process in the locked section ends it.
LEMMA FinishInv ==
  ASSUME Inv, TypeOK', NEW a \in Actors, Finish(a), lock = a,
         \A t \in Txns : MarkerFits(t)'
  PROVE  Inv'
<1>1. proc' = [proc EXCEPT ![a] = Ended(a)] /\ TypeOK
  BY DEF Finish, Inv
<1> QED BY <1>1, EndedOutside, FreeStep

\* A CLI queues up, leaves the queue or asks for something.
LEMMA QueueInv ==
  ASSUME Inv, TypeOK', NEW c \in Clis,
         Plan(c) \/ Leave(c) \/ AskConfirm(c) \/ AskRollback(c) \/ \E t \in Txns : ScanOrphans(c, t)
  PROVE  Inv'
<1>1. c \in Actors /\ c \notin Txns /\ proc[c] \in Procs
  BY Disjoint DEF Actors, Inv, TypeOK
<1>2. lock' = lock /\ journal' = journal
  BY DEF Plan, Leave, AskConfirm, AskRollback, ScanOrphans
<1>3. \A b \in Actors \ {c} : Untouched(b)
  BY <1>1 DEF Plan, Leave, AskConfirm, AskRollback, ScanOrphans, Inv, TypeOK, Untouched
<1>4. /\ proc'[c].pc \in {"queued", "idle"}
      /\ proc'[c].pc = "queued" /\ proc'[c].op = "recover" => proc'[c].txn \in Txns
  <2>1. CASE Plan(c)
    <3>1. PICK view, confirm, rebase :
            proc' = [proc EXCEPT ![c] = [Fresh("queued", "commit", NoTxn) EXCEPT
                       !.view = view, !.confirm = confirm, !.rebase = rebase]]
      BY <2>1 DEF Plan
    <3>2. proc'[c].pc = "queued" /\ proc'[c].op = "commit"
      BY <1>1, <3>1 DEF Fresh, Inv, TypeOK
    <3> QED BY <3>2
  <2>2. CASE Leave(c) \/ AskConfirm(c) \/ AskRollback(c)
    BY <1>1, <2>2 DEF Leave, AskConfirm, AskRollback, Inv, TypeOK, Ended, Fresh
  <2>3. CASE \E t \in Txns : ScanOrphans(c, t)
    BY <1>1, <2>3 DEF ScanOrphans, Inv, TypeOK, Fresh
  <2> QED BY <2>1, <2>2, <2>3
<1>5. TxnKnown(c)' /\ ~Critical(c)'
  BY <1>1, <1>4 DEF TxnKnown, Critical, CliCritical, At, Txn
<1>6. \A t \in Txns : SameDir(t) /\ MarkerFits(t)'
  BY <1>2 DEF SameDir, MarkerFits, State, Inv, ConfirmedIsNeverRestored
<1> QED BY <1>1, <1>2, <1>3, <1>5, <1>6, FreeStep

\* A process stays in the locked section and with its transaction.
LEMMA InsideStep ==
  ASSUME Inv, TypeOK', NEW a \in Actors, Critical(a), lock' = lock,
         \A b \in Actors \ {a} : Untouched(b),
         proc'[a].txn = proc[a].txn /\ proc'[a].op = proc[a].op,
         a \in Txns => proc'[a].pc = "restore",
         a \in Clis /\ proc'[a].pc \in CommitPcs => proc[a].pc \in CommitPcs,
         StateKnown(a)',
         \A t \in Txns : t = Txn(a) \/ SameDir(t),
         MarkerFits(Txn(a))'
  PROVE  Inv'
<1>1. Txn(a) \in Txns /\ Txn(a)' = Txn(a) /\ lock = a
  BY DEF Inv, TxnKnown, LockHeld, Txn
<1>2. TxnKnown(a)'
  BY <1>1 DEF Inv, TxnKnown, Txn, WdPcs
<1>3. a \in Clis /\ proc'[a].pc \in CommitPcs /\ proc'[a].op = "commit" =>
        \A t \in Txns : t = Txn(a)' \/ State(t) \notin BlockingStates
  BY <1>1 DEF Inv, WindowExclusive
<1>4. \A t \in Txns : t = Txn(a)' => MarkerFits(t)'
  BY <1>1 DEF MarkerFits, State, Txn
<1> QED BY <1>1, <1>2, <1>3, <1>4, HoldStep

\* Only the program counter and local data of c change.
Steps(c, pc) ==
  /\ proc'[c].pc = pc /\ proc'[c].txn = proc[c].txn /\ proc'[c].op = proc[c].op
  /\ \A b \in Actors \ {c} : Untouched(b)

\* c, in the locked section, changes the state of its own transaction.
DirSteps(c, s) ==
  /\ State(Txn(c))' = s
  /\ journal'[Txn(c)].marker = journal[Txn(c)].marker
  /\ \A t \in Txns : t = Txn(c) \/ SameDir(t)

LEMMA SetStateSteps ==
  ASSUME Inv, NEW a \in Actors, Txn(a) \in Txns, NEW s,
         journal' = [journal EXCEPT ![Txn(a)].state = s],
         Txn(a)' = Txn(a)
  PROVE  DirSteps(a, s)
  BY DEF Inv, TypeOK, Journals, DirSteps, SameDir, State

LEMMA StartRestoreInv ==
  ASSUME Inv, TypeOK', NEW a \in Actors, Critical(a), StartRestore(a), lock' = lock,
         ~journal[Txn(a)].marker
  PROVE  Inv'
<1>1. Txn(a) \in Txns /\ proc[a] \in Procs
  BY DEF Inv, TypeOK, TxnKnown
<1>2. Steps(a, "restore")
  BY <1>1 DEF Inv, TypeOK, StartRestore, Steps, Untouched
<1>3. Txn(a)' = Txn(a)
  BY <1>2 DEF Steps, Txn
<1>4. DirSteps(a, "REVERTING")
  BY <1>1, <1>3, SetStateSteps DEF StartRestore, SetState
<1>5. StateKnown(a)' /\ MarkerFits(Txn(a))'
  BY <1>2, <1>3, <1>4 DEF StateKnown, MarkerFits, DirSteps, Steps, State, Txn
<1> QED BY <1>2, <1>4, <1>5, InsideStep DEF Steps, DirSteps, CommitPcs

\* c goes on inside the locked section; its transaction is in state s now.
LEMMA WorkStep ==
  ASSUME Inv, TypeOK', NEW c \in Clis, Critical(c), lock' = lock,
         NEW pc, Steps(c, pc), NEW s, DirSteps(c, s),
         pc \in CommitPcs => proc[c].pc \in CommitPcs,
         StateKnown(c)',
         journal[Txn(c)].marker => s \in {"APPLIED_UNCONFIRMED", "CONFIRMED"}
  PROVE  Inv'
<1>1. c \in Actors /\ c \notin Txns /\ Txn(c)' = Txn(c)
  BY Disjoint DEF Actors, Steps, Txn
<1>2. MarkerFits(Txn(c))'
  BY <1>1 DEF MarkerFits, DirSteps, State, Txn
<1> QED BY <1>1, <1>2, InsideStep DEF Steps, DirSteps

LEMMA CommitInv ==
  ASSUME Inv, TypeOK', NEW c \in Clis, CommitStep(c)
  PROVE  Inv'
<1>a. c \in Actors /\ c \notin Txns /\ proc[c] \in Procs /\ TypeOK /\ TxnKnown(c) /\ StateKnown(c)
  BY Disjoint DEF Actors, Inv, TypeOK
<1>b. Critical(c) => lock = c /\ Txn(c) \in Txns /\ MarkerFits(Txn(c))
  BY <1>a DEF Inv, LockHeld, TxnKnown, ConfirmedIsNeverRestored, MarkerFits
<1>c. proc[c].pc \in CommitPcs => Critical(c)
  BY DEF Critical, CliCritical, CliPcs, CommitPcs
<1>d. ASSUME journal' = journal, Txn(c) \in Txns, Txn(c)' = Txn(c)
      PROVE  DirSteps(c, State(Txn(c)))
  BY <1>d DEF DirSteps, SameDir, State
<1>1. CASE CommitBegin(c)
  <2>1. PICK t \in Txns : /\ NextId(t) /\ SetState(t, "PENDING")
                          /\ proc' = [proc EXCEPT ![c].pc = "snapshot", ![c].txn = t]
    BY <1>1 DEF CommitBegin
  <2>2. lock = NoActor /\ lock' = c /\ NoPendingConfirm
    BY <1>1 DEF CommitBegin, Enter
  <2>3. /\ proc'[c].pc = "snapshot" /\ Txn(c)' = t
        /\ \A b \in Actors \ {c} : Untouched(b)
    BY <1>a, <2>1 DEF TypeOK, Procs, Untouched, Txn
  <2>4. State(t)' = "PENDING" /\ ~journal'[t].marker /\ \A u \in Txns : u = t \/ SameDir(u)
    BY <1>a, <2>1 DEF SetState, TypeOK, Journals, State, SameDir, NextId,
                      Inv, ConfirmedIsNeverRestored
  <2>5. TxnKnown(c)' /\ StateKnown(c)'
    BY <1>a, <2>3, <2>4 DEF TxnKnown, StateKnown, At
  <2>6. \A u \in Txns : u = t => MarkerFits(u)'
    BY <2>4 DEF MarkerFits
  <2>7. \A u \in Txns : State(u) \notin BlockingStates
    BY <2>2 DEF NoPendingConfirm
  <2> QED BY <1>a, <2>2, <2>3, <2>4, <2>5, <2>6, <2>7, HoldStep
<1>2. CASE Snapshot(c)
  <2>1. Steps(c, "decide") /\ Critical(c) /\ Txn(c)' = Txn(c)
    BY <1>2, <1>a, <1>c DEF Snapshot, Steps, Untouched, TypeOK, At, CommitPcs, Txn
  <2>2. DirSteps(c, State(Txn(c)))
    BY <1>2, <1>a, <1>b, <2>1 DEF Snapshot, DirSteps, SameDir, State, TypeOK, Journals
  <2>3. StateKnown(c)'
    BY <1>2, <1>a, <2>1, <2>2 DEF Snapshot, At, StateKnown, Steps, DirSteps
  <2> QED BY <1>2, <1>b, <2>1, <2>2, <2>3, WorkStep DEF Snapshot, At, CommitPcs, MarkerFits
<1>3. CASE SnapshotFails(c)
  <2>1. Critical(c) /\ Finish(c) /\ \A t \in Txns : MarkerFits(t)'
    BY <1>3, <1>c DEF SnapshotFails, At, CommitPcs, Inv, ConfirmedIsNeverRestored,
                      MarkerFits, State
  <2> QED BY <1>a, <1>b, <2>1, FinishInv
<1>4. CASE CloseUnapplied(c)
  <2>1. Critical(c) /\ Finish(c) /\ State(Txn(c)) = "PENDING" /\ lock = c /\ Txn(c) \in Txns
    BY <1>4, <1>a, <1>b, <1>c DEF CloseUnapplied, At, CommitPcs, StateKnown
  <2>2. \A t \in Txns : MarkerFits(t)'
    BY <1>4, <1>a, <2>1 DEF CloseUnapplied, SetState, Inv, ConfirmedIsNeverRestored,
                            MarkerFits, State, TypeOK, Journals
  <2> QED BY <1>a, <2>1, <2>2, FinishInv
<1>5. CASE StartApplying(c)
  <2>1. /\ Steps(c, "apply") /\ Critical(c) /\ Txn(c)' = Txn(c) /\ proc[c].pc = "decide"
        /\ State(Txn(c)) = "PENDING" /\ lock' = lock
    BY <1>5, <1>a, <1>c DEF StartApplying, Steps, Untouched, TypeOK, At, CommitPcs, Txn, StateKnown
  <2>2. DirSteps(c, "APPLYING")
    BY <1>5, <1>a, <1>b, <2>1, SetStateSteps DEF StartApplying, SetState
  <2>3. StateKnown(c)'
    BY <2>1, <2>2 DEF StateKnown, Steps, DirSteps
  <2> QED BY <1>b, <2>1, <2>2, <2>3, WorkStep DEF CommitPcs, MarkerFits
<1>6. CASE ApplyStart(c)
  <2>1. Steps(c, "write") /\ Critical(c) /\ Txn(c)' = Txn(c) /\ proc[c].pc = "apply"
    BY <1>6, <1>a, <1>c DEF ApplyStart, Steps, Untouched, TypeOK, At, CommitPcs, Txn
  <2>2. DirSteps(c, State(Txn(c)))
    BY <1>6, <1>a, <1>b, <2>1 DEF ApplyStart, DirSteps, SameDir, State, TypeOK, Journals
  <2>3. StateKnown(c)'
    BY <1>a, <2>1, <2>2 DEF StateKnown, Steps, DirSteps
  <2> QED BY <1>6, <1>b, <2>1, <2>2, <2>3, WorkStep DEF ApplyStart, CommitPcs, MarkerFits
<1>7. CASE ApplyLands(c)
  <2>1. Steps(c, "judge") /\ Critical(c) /\ Txn(c)' = Txn(c) /\ proc[c].pc = "write"
    BY <1>7, <1>a, <1>c DEF ApplyLands, Steps, Untouched, TypeOK, At, CommitPcs, Txn
  <2>2. DirSteps(c, State(Txn(c)))
    BY <1>7, <1>b, <1>d, <2>1 DEF ApplyLands
  <2>3. StateKnown(c)'
    BY <1>a, <2>1, <2>2 DEF StateKnown, Steps, DirSteps
  <2> QED BY <1>7, <1>b, <2>1, <2>2, <2>3, WorkStep DEF ApplyLands, CommitPcs, MarkerFits
<1>8. CASE Verified(c)
  <2>1. Steps(c, "apply") /\ Critical(c) /\ Txn(c)' = Txn(c) /\ proc[c].pc = "judge"
    BY <1>8, <1>a, <1>c DEF Verified, Steps, Untouched, TypeOK, At, CommitPcs, Txn
  <2>2. DirSteps(c, State(Txn(c)))
    BY <1>8, <1>b, <1>d, <2>1 DEF Verified
  <2>3. StateKnown(c)'
    BY <1>a, <2>1, <2>2 DEF StateKnown, Steps, DirSteps
  <2> QED BY <1>8, <1>b, <2>1, <2>2, <2>3, WorkStep DEF Verified, CommitPcs, MarkerFits
<1>9. CASE ApplyFails(c)
  <2>1. Critical(c) /\ State(Txn(c)) = "APPLYING"
    BY <1>9, <1>a, <1>c DEF ApplyFails, At, CommitPcs, StateKnown
  <2>2. ~journal[Txn(c)].marker
    BY <1>b, <2>1 DEF MarkerFits
  <2> QED BY <1>9, <1>a, <2>1, <2>2, StartRestoreInv DEF ApplyFails
<1>10. CASE ArmFails(c)
  <2>1. Critical(c) /\ ~journal[Txn(c)].marker
    BY <1>10, <1>a, <1>c DEF ArmFails, At, CommitPcs, StateKnown
  <2> QED BY <1>10, <1>a, <2>1, StartRestoreInv DEF ArmFails
<1>11. CASE CommitDone(c)
  <2>1. Critical(c) /\ Finish(c) /\ lock = c /\ Txn(c) \in Txns
    BY <1>11, <1>b, <1>c DEF CommitDone, At, CommitPcs
  <2> DEFINE j == [journal EXCEPT ![Txn(c)].state = "CONFIRMED"]
  <2>2. j \in [Txns -> Journals] /\ journal' = Pruned(j)
    BY <1>11, <1>a, StateType DEF CommitDone, States, Terminal
  <2>3. \A t \in Txns : j[t].marker => j[t].state \in {"APPLIED_UNCONFIRMED", "CONFIRMED"}
    BY <1>a, <2>1 DEF Inv, ConfirmedIsNeverRestored, State, TypeOK, Journals
  <2>4. \A t \in Txns : MarkerFits(t)'
    BY <2>2, <2>3, PrunedFits DEF MarkerFits, State
  <2> QED BY <1>a, <2>1, <2>4, FinishInv
<1>12. CASE OpenWindow(c)
  <2>1. /\ Steps(c, "arming") /\ Critical(c) /\ Txn(c)' = Txn(c) /\ proc[c].pc = "apply"
        /\ State(Txn(c)) = "APPLYING" /\ lock' = lock
    BY <1>12, <1>a, <1>c DEF OpenWindow, Steps, Untouched, TypeOK, At, CommitPcs, Txn, StateKnown
  <2>2. DirSteps(c, "APPLIED_UNCONFIRMED")
    BY <1>12, <1>a, <1>b, <2>1 DEF OpenWindow, DirSteps, SameDir, State, TypeOK, Journals
  <2>3. ~journal[Txn(c)].marker
    BY <1>b, <2>1 DEF MarkerFits
  <2>4. StateKnown(c)'
    BY <2>1, <2>2, <2>3 DEF StateKnown, Steps, DirSteps
  <2> QED BY <1>b, <2>1, <2>2, <2>4, WorkStep DEF CommitPcs
<1>13. CASE SpawnWatchdog(c)
  <2>1. Critical(c) /\ lock = c /\ Txn(c) \in Txns /\ proc[c].pc = "arming"
    BY <1>13, <1>b, <1>c DEF SpawnWatchdog, At, CommitPcs
  <2>2. Steps(c, "armwait") /\ Txn(c)' = Txn(c)
    <3>1. Txn(c) \in Actors /\ Txn(c) # c
      BY <1>a, <2>1 DEF Actors
    <3>2. proc'[c] = [proc[c] EXCEPT !.pc = "armwait"]
      BY <1>13, <1>a, <3>1 DEF SpawnWatchdog, TypeOK
    <3>3. proc'[Txn(c)] = [proc[Txn(c)] EXCEPT !.pc = "starting"]
      BY <1>13, <1>a, <3>1 DEF SpawnWatchdog, TypeOK
    <3>4. \A b \in Actors \ {c, Txn(c)} : proc'[b] = proc[b]
      BY <1>13, <1>a, <3>1 DEF SpawnWatchdog, TypeOK
    <3>5. Untouched(Txn(c))
      BY <1>a, <2>1, <3>1, <3>3 DEF Untouched, TypeOK, Procs
    <3>6. proc'[c].pc = "armwait" /\ proc'[c].txn = proc[c].txn /\ proc'[c].op = proc[c].op
      BY <1>a, <3>2 DEF Procs
    <3> QED BY <3>4, <3>5, <3>6 DEF Steps, Untouched, Txn
  <2>3. DirSteps(c, State(Txn(c)))
    BY <1>13, <1>d, <2>1, <2>2 DEF SpawnWatchdog
  <2>4. StateKnown(c)'
    BY <1>a, <2>1, <2>2, <2>3 DEF StateKnown, Steps, DirSteps
  <2> QED BY <1>13, <1>b, <2>1, <2>2, <2>3, <2>4, WorkStep DEF SpawnWatchdog, CommitPcs, MarkerFits
<1>14. CASE Armed(c)
  <2>1. Critical(c) /\ Finish(c) /\ \A t \in Txns : MarkerFits(t)'
    BY <1>14, <1>c DEF Armed, At, CommitPcs, Inv, ConfirmedIsNeverRestored,
                       MarkerFits, State
  <2> QED BY <1>a, <1>b, <2>1, FinishInv
<1> QED BY <1>1, <1>2, <1>3, <1>4, <1>5, <1>6, <1>7, <1>8, <1>9, <1>10, <1>11, <1>12,
           <1>13, <1>14 DEF CommitStep

LEMMA RestoreInv ==
  ASSUME Inv, TypeOK', NEW a \in Actors, RestoreSteps(a)
  PROVE  Inv'
<1>a. At(a, "restore")
  BY DEF RestoreSteps, Restore, RestoreFails, RestoreStep, RestoreDone
<1>b. proc[a] \in Procs /\ TypeOK /\ TxnKnown(a) /\ StateKnown(a)
  BY DEF Inv, TypeOK
<1>c. /\ Critical(a) /\ lock = a /\ Txn(a) \in Txns
      /\ State(Txn(a)) = "REVERTING" /\ ~journal[Txn(a)].marker
  BY <1>a, <1>b DEF Inv, LockHeld, TxnKnown, StateKnown, Critical, CliCritical, CliPcs, At,
                    ConfirmedIsNeverRestored
<1>1. ASSUME NEW r, NEW value, NEW failed, RestoreStep(a, r, value, failed)
      PROVE  Inv'
  <2>1. Steps(a, "restore") /\ Txn(a)' = Txn(a) /\ journal' = journal /\ lock' = lock
    BY <1>1, <1>a, <1>b DEF RestoreStep, Steps, Untouched, TypeOK, At, Txn
  <2>2. DirSteps(a, "REVERTING")
    BY <1>c, <2>1 DEF DirSteps, SameDir, State
  <2>3. StateKnown(a)' /\ MarkerFits(Txn(a))'
    BY <1>c, <2>1, <2>2 DEF StateKnown, Steps, DirSteps, MarkerFits, State, Txn
  <2> QED BY <1>c, <2>1, <2>2, <2>3, InsideStep DEF Steps, DirSteps, CommitPcs
<1>2. CASE RestoreDone(a)
  <2>1. Finish(a)
    BY <1>2 DEF RestoreDone
  <2>2. \A t \in Txns : MarkerFits(t)'
    BY <1>2, <1>b, <1>c DEF RestoreDone, SetState, Inv, ConfirmedIsNeverRestored,
                            MarkerFits, State, TypeOK, Journals
  <2> QED BY <1>c, <2>1, <2>2, FinishInv
<1> QED BY <1>1, <1>2 DEF RestoreSteps, Restore, RestoreFails

LEMMA RecoverInv ==
  ASSUME Inv, TypeOK', NEW a \in Actors, RecoverStep(a)
  PROVE  Inv'
<1>a. /\ At(a, "queued") /\ proc[a].op = "recover" /\ lock = NoActor /\ ~RecoveryBlocked(a)
  BY DEF RecoverStep, RecoverNothing, RecoverStart, Enter
<1>b. proc[a] \in Procs /\ TypeOK /\ TxnKnown(a) /\ Txn(a) \in Txns
  BY <1>a DEF Inv, TypeOK, TxnKnown
<1>c. ~journal[Txn(a)].marker
  BY <1>a DEF RecoveryBlocked
<1>1. CASE RecoverNothing(a)
  <2>1. \A t \in Txns : MarkerFits(t)'
    BY <1>1, <1>b, <1>c DEF RecoverNothing, SetState, Inv, ConfirmedIsNeverRestored,
                            MarkerFits, State, TypeOK, Journals
  <2>2. proc' = [proc EXCEPT ![a] = Ended(a)]
    BY <1>1 DEF RecoverNothing
  <2> QED BY <1>a, <1>b, <2>1, <2>2, EndedOutside, FreeStep
<1>2. CASE RecoverStart(a)
  <2>1. StartRestore(a) /\ lock' = a
    BY <1>2 DEF RecoverStart, Enter
  <2>2. Steps(a, "restore") /\ Txn(a)' = Txn(a)
    BY <1>b, <2>1 DEF StartRestore, Steps, Untouched, TypeOK, Txn
  <2>3. DirSteps(a, "REVERTING")
    BY <1>b, <2>1, <2>2, SetStateSteps DEF StartRestore, SetState
  <2>4. StateKnown(a)' /\ TxnKnown(a)'
    BY <1>b, <2>2, <2>3 DEF StateKnown, TxnKnown, Steps, DirSteps, WdPcs, Txn
  <2>5. \A t \in Txns : t = Txn(a)' => MarkerFits(t)'
    BY <1>c, <2>2, <2>3 DEF DirSteps, MarkerFits
  <2> QED BY <1>a, <1>b, <2>1, <2>2, <2>3, <2>4, <2>5, HoldStep DEF Steps, DirSteps, CommitPcs
<1> QED BY <1>1, <1>2 DEF RecoverStep

LEMMA ConfirmInv ==
  ASSUME Inv, TypeOK', NEW c \in Clis, ConfirmStep(c)
  PROVE  Inv'
<1>a. c \in Actors /\ c \notin Txns /\ proc[c] \in Procs /\ TypeOK /\ TxnKnown(c) /\ StateKnown(c)
  BY Disjoint DEF Actors, Inv, TypeOK
<1>b. proc[c].pc \in {"claimwrite", "marking", "killing", "settling"} =>
        Critical(c) /\ lock = c /\ Txn(c) \in Txns /\ State(Txn(c)) = "APPLIED_UNCONFIRMED"
  BY <1>a DEF Inv, LockHeld, TxnKnown, StateKnown, Critical, CliCritical, CliPcs
<1>1. CASE ConfirmClaims(c)
  <2>1. PICK t \in Txns :
          /\ Newest(t, "APPLIED_UNCONFIRMED")
          /\ \/ /\ journal' = [journal EXCEPT ![t].claim = "empty"]
                /\ proc' = [proc EXCEPT ![c].pc = "claimwrite", ![c].txn = t]
             \/ /\ journal' = journal
                /\ proc' = [proc EXCEPT ![c].pc = "marking", ![c].txn = t]
    BY <1>1 DEF ConfirmClaims
  <2>2. lock = NoActor /\ lock' = c
    BY <1>1 DEF ConfirmClaims, Enter
  <2>3. /\ proc'[c].pc \in {"claimwrite", "marking"} /\ Txn(c)' = t
        /\ \A b \in Actors \ {c} : Untouched(b)
    BY <1>a, <2>1 DEF TypeOK, Procs, Untouched, Txn
  <2>4. \A u \in Txns : SameDir(u)
    BY <1>a, <2>1 DEF TypeOK, Journals, State, SameDir
  <2>5. TxnKnown(c)' /\ StateKnown(c)'
    BY <1>a, <2>1, <2>3, <2>4 DEF TxnKnown, StateKnown, At, Newest, SameDir
  <2>6. \A u \in Txns : MarkerFits(u)'
    BY <2>4 DEF MarkerFits, SameDir, Inv, ConfirmedIsNeverRestored
  <2> QED BY <1>a, <2>2, <2>3, <2>4, <2>5, <2>6, HoldStep DEF CommitPcs
<1>2. CASE ConfirmClaimWrite(c)
  <2>1. Steps(c, "marking") /\ Txn(c)' = Txn(c) /\ proc[c].pc = "claimwrite" /\ lock' = lock
    BY <1>2, <1>a DEF ConfirmClaimWrite, Steps, Untouched, TypeOK, At, Txn
  <2>2. DirSteps(c, "APPLIED_UNCONFIRMED")
    BY <1>2, <1>a, <1>b, <2>1 DEF ConfirmClaimWrite, DirSteps, SameDir, State, TypeOK, Journals
  <2>3. StateKnown(c)'
    BY <2>1, <2>2 DEF StateKnown, Steps, DirSteps
  <2> QED BY <1>b, <2>1, <2>2, <2>3, WorkStep DEF CommitPcs
<1>3. CASE WriteMarker(c)
  <2>1. Steps(c, "killing") /\ Txn(c)' = Txn(c) /\ proc[c].pc = "marking" /\ lock' = lock
    BY <1>3, <1>a DEF WriteMarker, Steps, Untouched, TypeOK, At, Txn
  <2>2. /\ State(Txn(c))' = "APPLIED_UNCONFIRMED"
        /\ \A t \in Txns : t = Txn(c) \/ SameDir(t)
    <3>1. /\ journal'[Txn(c)].state = journal[Txn(c)].state
          /\ \A t \in Txns : t = Txn(c) \/ journal'[t] = journal[t]
      BY <1>3, <1>a, <1>b, <2>1 DEF WriteMarker, TypeOK, Journals
    <3> QED BY <1>b, <2>1, <3>1 DEF SameDir, State
  <2>3. StateKnown(c)' /\ MarkerFits(Txn(c))'
    BY <2>1, <2>2 DEF StateKnown, Steps, MarkerFits, State, Txn
  <2> QED BY <1>a, <1>b, <2>1, <2>2, <2>3, InsideStep DEF Steps, CommitPcs
<1>4. CASE KillWatchdog(c)
  <2>1. proc[c].pc = "killing" /\ journal' = journal /\ lock' = lock /\ Txn(c) \in Txns
    BY <1>4, <1>b DEF KillWatchdog, At
  <2>2. Steps(c, "settling") /\ Txn(c)' = Txn(c)
    <3>1. Txn(c) \in Actors /\ Txn(c) # c
      BY <1>a, <2>1 DEF Actors
    <3>2. PICK term : proc' = [proc EXCEPT ![c].pc = "settling", ![Txn(c)].term = term]
      BY <1>4 DEF KillWatchdog
    <3>3. proc'[c] = [proc[c] EXCEPT !.pc = "settling"]
      BY <1>a, <3>1, <3>2 DEF TypeOK
    <3>4. proc'[Txn(c)] = [proc[Txn(c)] EXCEPT !.term = term]
      BY <1>a, <3>1, <3>2 DEF TypeOK
    <3>5. \A b \in Actors \ {c, Txn(c)} : proc'[b] = proc[b]
      BY <1>a, <3>1, <3>2 DEF TypeOK
    <3>6. Untouched(Txn(c))
      BY <1>a, <3>1, <3>4 DEF Untouched, TypeOK, Procs
    <3>7. proc'[c].pc = "settling" /\ proc'[c].txn = proc[c].txn /\ proc'[c].op = proc[c].op
      BY <1>a, <3>3 DEF Procs
    <3> QED BY <3>5, <3>6, <3>7 DEF Steps, Untouched, Txn
  <2>3. DirSteps(c, "APPLIED_UNCONFIRMED")
    BY <1>b, <2>1, <2>2 DEF DirSteps, SameDir, State
  <2>4. StateKnown(c)'
    BY <2>2, <2>3 DEF StateKnown, Steps, DirSteps
  <2> QED BY <1>b, <2>1, <2>2, <2>3, <2>4, WorkStep DEF CommitPcs
<1>5. CASE ConfirmSettles(c)
  <2>1. Finish(c) /\ lock = c /\ Txn(c) \in Txns /\ State(Txn(c)) = "APPLIED_UNCONFIRMED"
    BY <1>5, <1>b DEF ConfirmSettles, At
  <2> DEFINE j == [journal EXCEPT ![Txn(c)].state = "CONFIRMED"]
  <2>2. j \in [Txns -> Journals] /\ journal' = Pruned(j)
    BY <1>5, <1>a, <2>1, StateType DEF ConfirmSettles, States, Terminal
  <2>3. \A t \in Txns : j[t].marker => j[t].state \in {"APPLIED_UNCONFIRMED", "CONFIRMED"}
    BY <1>a, <2>1 DEF Inv, ConfirmedIsNeverRestored, State, TypeOK, Journals
  <2>4. \A t \in Txns : MarkerFits(t)'
    BY <2>2, <2>3, PrunedFits DEF MarkerFits, State
  <2> QED BY <1>a, <2>1, <2>4, FinishInv
<1> QED BY <1>1, <1>2, <1>3, <1>4, <1>5 DEF ConfirmStep

LEMMA RollbackInv ==
  ASSUME Inv, TypeOK', NEW c \in Clis, RollbackStep(c)
  PROVE  Inv'
<1>a. c \in Actors /\ c \notin Txns /\ proc[c] \in Procs /\ TypeOK /\ TxnKnown(c) /\ StateKnown(c)
  BY Disjoint DEF Actors, Inv, TypeOK
<1>b. proc[c].pc \in {"decide", "redo"} =>
        Critical(c) /\ lock = c /\ Txn(c) \in Txns /\ MarkerFits(Txn(c))
  BY <1>a DEF Inv, LockHeld, TxnKnown, Critical, CliCritical, CliPcs,
              ConfirmedIsNeverRestored, MarkerFits
<1>1. CASE RollbackBegin(c)
  <2>1. PICK t, view :
          /\ t \in Txns /\ NextId(t) /\ SetState(t, "PENDING")
          /\ proc' = [proc EXCEPT ![c].pc = "snapshot", ![c].txn = t, ![c].view = view]
    BY <1>1 DEF RollbackBegin
  <2>t. t \in Txns
    BY <2>1
  <2>2. lock = NoActor /\ lock' = c /\ proc[c].op = "rollback"
    BY <1>1 DEF RollbackBegin, Enter
  <2>3. /\ proc'[c].pc = "snapshot" /\ Txn(c)' = t /\ proc'[c].op = "rollback"
        /\ \A b \in Actors \ {c} : Untouched(b)
    BY <1>a, <2>1, <2>2 DEF TypeOK, Procs, Untouched, Txn
  <2>4. State(t)' = "PENDING" /\ ~journal'[t].marker /\ \A u \in Txns : u = t \/ SameDir(u)
    BY <1>a, <2>1 DEF SetState, TypeOK, Journals, State, SameDir, NextId,
                      Inv, ConfirmedIsNeverRestored
  <2>5. TxnKnown(c)' /\ StateKnown(c)'
    BY <1>a, <2>t, <2>3, <2>4 DEF TxnKnown, StateKnown, At
  <2>6. \A u \in Txns : u = t => MarkerFits(u)'
    BY <2>4 DEF MarkerFits
  <2> QED BY <1>a, <2>t, <2>2, <2>3, <2>4, <2>5, <2>6, HoldStep
<1>2. CASE StartRedo(c)
  <2>1. /\ Steps(c, "redo") /\ Txn(c)' = Txn(c) /\ proc[c].pc = "decide"
        /\ State(Txn(c)) = "PENDING" /\ lock' = lock
    BY <1>2, <1>a DEF StartRedo, Steps, Untouched, TypeOK, At, Txn, StateKnown
  <2>2. DirSteps(c, "APPLYING")
    BY <1>2, <1>a, <1>b, <2>1, SetStateSteps DEF StartRedo, SetState
  <2>3. StateKnown(c)'
    BY <2>1, <2>2 DEF StateKnown, Steps, DirSteps
  <2> QED BY <1>b, <2>1, <2>2, <2>3, WorkStep DEF CommitPcs, MarkerFits
<1>3. ASSUME NEW r, NEW value, NEW failed, RedoStep(c, r, value, failed)
      PROVE  Inv'
  <2>1. Steps(c, "redo") /\ Txn(c)' = Txn(c) /\ proc[c].pc = "redo" /\ lock' = lock
    BY <1>3, <1>a DEF RedoStep, Steps, Untouched, TypeOK, At, Txn
  <2>2. DirSteps(c, State(Txn(c)))
    BY <1>3, <1>a, <1>b, <2>1 DEF RedoStep, DirSteps, SameDir, State, TypeOK, Journals
  <2>3. StateKnown(c)'
    BY <1>a, <2>1, <2>2 DEF StateKnown, Steps, DirSteps
  <2> QED BY <1>b, <2>1, <2>2, <2>3, WorkStep DEF CommitPcs, MarkerFits
<1>4. CASE RedoDone(c)
  <2>1. Finish(c) /\ lock = c /\ Txn(c) \in Txns /\ State(Txn(c)) = "APPLYING"
    BY <1>4, <1>a, <1>b DEF RedoDone, At, StateKnown
  <2>2. CASE proc[c].bad
    <3>1. journal' = [journal EXCEPT ![Txn(c)].state = "REVERT_FAILED"]
      BY <1>4, <2>2 DEF RedoDone
    <3>2. \A t \in Txns : MarkerFits(t)'
      BY <1>a, <2>1, <3>1 DEF Inv, ConfirmedIsNeverRestored, MarkerFits, State, TypeOK, Journals
    <3> QED BY <1>a, <2>1, <3>2, FinishInv
  <2>3. CASE ~proc[c].bad
    <3> DEFINE j == [journal EXCEPT ![Txn(c)].state = "CONFIRMED"]
    <3>1. j \in [Txns -> Journals] /\ journal' = Pruned(j)
      BY <1>4, <1>a, <2>3, StateType DEF RedoDone, States, Terminal
    <3>2. \A t \in Txns : j[t].marker => j[t].state \in {"APPLIED_UNCONFIRMED", "CONFIRMED"}
      BY <1>a, <2>1 DEF Inv, ConfirmedIsNeverRestored, State, TypeOK, Journals
    <3>3. \A t \in Txns : MarkerFits(t)'
      BY <3>1, <3>2, PrunedFits DEF MarkerFits, State
    <3> QED BY <1>a, <2>1, <3>3, FinishInv
  <2> QED BY <2>2, <2>3
<1> QED BY <1>1, <1>2, <1>3, <1>4 DEF RollbackStep, Redo, RedoFails

LEMMA WatchdogInv ==
  ASSUME Inv, TypeOK', NEW t \in Txns, WatchdogStep(t)
  PROVE  Inv'
<1>a. t \in Actors /\ t \notin Clis /\ proc[t] \in Procs /\ TypeOK /\ TxnKnown(t)
  BY Disjoint DEF Actors, Inv, TypeOK
<1>1. lock' = lock
  BY DEF WatchdogStep, WdComesUp, WdSeesEnd, WdExpires, WdYields, WdClaims, WdClaimWrite, WdGivesUp
<1>2. \A u \in Txns : SameDir(u)
  <2>1. CASE WdComesUp(t) \/ WdClaims(t) \/ WdClaimWrite(t)
    BY <2>1, <1>a DEF WdComesUp, WdClaims, WdClaimWrite, SameDir, State, TypeOK, Journals
  <2>2. CASE journal' = journal
    BY <2>2 DEF SameDir, State
  <2> QED BY <2>1, <2>2 DEF WatchdogStep, WdSeesEnd, WdExpires, WdYields, WdGivesUp
<1>3. \A u \in Txns : MarkerFits(u)'
  BY <1>2 DEF MarkerFits, SameDir, Inv, ConfirmedIsNeverRestored
<1>4. CASE \E from : \E to \in WdPcs \ {"restore"} : WdMoves(t, from, to)
  <2>1. PICK to \in WdPcs \ {"restore"} : proc' = [proc EXCEPT ![t].pc = to]
    BY <1>4 DEF WdMoves
  <2>2. /\ proc'[t].pc = to /\ proc'[t].txn = proc[t].txn /\ proc'[t].op = proc[t].op
        /\ \A b \in Actors \ {t} : Untouched(b)
    BY <1>a, <2>1 DEF TypeOK, Procs, Untouched
  <2>3. TxnKnown(t)' /\ ~Critical(t)'
    BY <1>a, <2>2 DEF TxnKnown, Critical, At, Txn
  <2> QED BY <1>a, <1>1, <1>2, <1>3, <2>2, <2>3, FreeStep
<1>5. CASE \E from : WdExits(t, from)
  <2>1. proc' = [proc EXCEPT ![t] = Ended(t)]
    BY <1>5 DEF WdExits
  <2> QED BY <1>a, <1>1, <1>2, <1>3, <2>1, EndedOutside, FreeStep
<1> QED BY <1>4, <1>5 DEF WatchdogStep, WdComesUp, WdSeesEnd, WdExpires, WdYields, WdClaims,
                          WdClaimWrite, WdGivesUp, WdPcs

LEMMA EnvironmentInv ==
  ASSUME Inv, TypeOK', (\E t \in Txns : Time(t)) \/ (\E a \in Actors : Crash(a))
  PROVE  Inv'
<1>1. ASSUME NEW t \in Txns, Time(t) PROVE Inv'
  <2>1. \A u \in Txns : SameDir(u)
    BY <1>1 DEF Time, SameDir, State, Inv, TypeOK, Journals
  <2>2. proc' = proc /\ lock' = lock
    BY <1>1 DEF Time
  <2>3. \A u \in Txns : State(u)' = State(u) /\ journal'[u].marker = journal[u].marker
    BY <2>1 DEF SameDir
  <2>4. \A a \in Actors : TxnKnown(a)' /\ (Critical(a)' <=> Critical(a)) /\ Txn(a)' = Txn(a)
    BY <2>2 DEF Inv, TxnKnown, Critical, At, Txn
  <2>5. LockHeld' /\ ConfirmedIsNeverRestored' /\ WindowExclusive'
    <3>1. LockHeld'
      BY <2>2, <2>4 DEF Inv, LockHeld
    <3>2. ConfirmedIsNeverRestored'
      BY <2>3 DEF Inv, ConfirmedIsNeverRestored
    <3>3. WindowExclusive'
      BY <2>2, <2>3 DEF Inv, WindowExclusive, Txn
    <3> QED BY <3>1, <3>2, <3>3
  <2>6. ASSUME NEW a \in Actors PROVE StateKnown(a)'
    <3>1. CASE Critical(a)
      BY <2>2, <2>3, <2>4, <3>1 DEF Inv, StateKnown, TxnKnown, State
    <3>2. CASE ~Critical(a)
      BY <2>4, <3>2, OutsideState
    <3> QED BY <3>1, <3>2
  <2> QED BY <2>4, <2>5, <2>6 DEF Inv
<1>2. ASSUME NEW a \in Actors, Crash(a) PROVE Inv'
  <2>1. /\ proc' = [proc EXCEPT ![a] = Ended(a)] /\ journal' = journal
        /\ lock = a \/ lock' = lock
    BY <1>2 DEF Crash
  <2>2. \A t \in Txns : SameDir(t) /\ MarkerFits(t)'
    BY <2>1 DEF SameDir, State, MarkerFits, Inv, ConfirmedIsNeverRestored
  <2>3. TypeOK
    BY DEF Inv
  <2> QED BY <2>1, <2>2, <2>3, EndedOutside, FreeStep
<1> QED BY <1>1, <1>2

-----------------------------------------------------------------------------
LEMMA InitInv == Init => Inv
<1> SUFFICES ASSUME Init PROVE Inv
  OBVIOUS
<1>1. TypeOK
  BY InitType
<1>2. \A a \in Actors : /\ proc[a].pc = IF a \in Txns THEN "none" ELSE "idle"
                        /\ a \in Txns => proc[a].txn = a /\ proc[a].op = "recover"
  BY Disjoint DEF Init, Ended, Fresh
<1>3. \A a \in Actors : TxnKnown(a) /\ ~Critical(a) /\ StateKnown(a)
  BY <1>2, Disjoint DEF TxnKnown, Critical, CliCritical, StateKnown, At, WdPcs, Actors
<1>4. LockHeld
  BY <1>3 DEF LockHeld
<1>5. ConfirmedIsNeverRestored
  BY DEF Init, NoJournal, ConfirmedIsNeverRestored
<1>6. WindowExclusive
  BY <1>2, Disjoint DEF WindowExclusive, CommitPcs, Actors
<1> QED BY <1>1, <1>3, <1>4, <1>5, <1>6 DEF Inv

LEMMA NextInv == Inv /\ [Next]_vars => Inv'
<1> SUFFICES ASSUME Inv, [Next]_vars PROVE Inv'
  OBVIOUS
<1>a. TypeOK /\ \A a \in Actors :
        Critical(a) \/ (At(a, "queued") /\ proc[a].op = "recover") => Txn(a) \in Txns
  BY DEF Inv, TxnKnown
<1>b. Clis \subseteq Actors
  BY DEF Actors
<1>1. ASSUME NEW c \in Clis, Plan(c) PROVE Inv'
  BY <1>1, <1>a, PlanType, QueueInv
<1>2. ASSUME NEW c \in Clis,
             Leave(c) \/ AskConfirm(c) \/ AskRollback(c) \/ \E t \in Txns : ScanOrphans(c, t)
      PROVE  Inv'
  BY <1>2, <1>a, QueueType, QueueInv
<1>3. ASSUME NEW c \in Clis, CommitStep(c) PROVE Inv'
  BY <1>3, <1>a, <1>b, CommitType, CommitInv
<1>4. ASSUME NEW c \in Clis, ConfirmStep(c) PROVE Inv'
  BY <1>4, <1>a, ConfirmType, ConfirmInv
<1>5. ASSUME NEW c \in Clis, RollbackStep(c) PROVE Inv'
  BY <1>5, <1>a, RollbackType, RollbackInv
<1>6. ASSUME NEW a \in Actors, RestoreSteps(a) PROVE Inv'
  BY <1>6, <1>a, RestoreType, RestoreInv
<1>7. ASSUME NEW a \in Actors, RecoverStep(a) PROVE Inv'
  BY <1>7, <1>a, RecoverType, RecoverInv
<1>8. ASSUME NEW t \in Txns, WatchdogStep(t) PROVE Inv'
  BY <1>8, <1>a, WatchdogType, WatchdogInv
<1>9. ASSUME (\E t \in Txns : Time(t)) \/ (\E a \in Actors : Crash(a)) PROVE Inv'
  BY <1>9, <1>a, EnvironmentType, EnvironmentInv
<1>10. CASE UNCHANGED vars
  BY <1>10 DEF vars, Inv, TypeOK, LockHeld, TxnKnown, StateKnown, ConfirmedIsNeverRestored,
               WindowExclusive, Critical, At, Txn, State
<1> QED BY <1>1, <1>2, <1>3, <1>4, <1>5, <1>6, <1>7, <1>8, <1>9, <1>10 DEF Next

-----------------------------------------------------------------------------
(* What holds in every reachable state.                                    *)

\* The invariant: mutual exclusion under the host lock, and the state on disk
\* known to whoever works on a transaction.
THEOREM Invariance == Spec => []Inv
  BY InitInv, NextInv, PTL DEF Spec

\* Type correctness.
THEOREM TypeCorrect == Spec => []TypeOK
<1>1. Inv => TypeOK
  BY DEF Inv
<1> QED BY <1>1, Invariance, PTL

\* A transaction whose confirm left its marker is never restored, however many
\* CLIs, watchdogs and scans race and wherever they die.
THEOREM ConfirmIsFinal == Spec => []ConfirmedIsNeverRestored
<1>1. Inv => ConfirmedIsNeverRestored
  BY DEF Inv
<1> QED BY <1>1, Invariance, PTL

\* A commit at work never shares the Orchestrator with an open confirm window
\* or a restore.
THEOREM CommitsRunAlone == Spec => []WindowExclusive
<1>1. Inv => WindowExclusive
  BY DEF Inv
<1> QED BY <1>1, Invariance, PTL

=============================================================================
