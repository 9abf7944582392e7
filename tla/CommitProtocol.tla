--------------------------- MODULE CommitProtocol ---------------------------
(***************************************************************************)
(* The transaction engine of pyecsdwan against one Orchestrator: the       *)
(* commands an operator runs in separate processes (commit, confirm,       *)
(* rollback --pending, rollback <n>), the detached watchdog of a commit    *)
(* confirm window, the host lock that serializes them, and the journal     *)
(* directory of each transaction (src/src/pyecsdwan/txn.py, journal.py and *)
(* watchdog.py).  Processes may die between any two steps.                 *)
(*                                                                         *)
(* Data is abstracted: a resource holds Absent, Base (what it held before  *)
(* anyone committed) or the name of the CLI whose intent it carries, and a *)
(* CLI always stages its own name.  Resources of one transaction are       *)
(* visited in an arbitrary order.                                          *)
(***************************************************************************)
EXTENDS Naturals, FiniteSets

CONSTANTS
  Clis,        \* processes an operator starts commands in
  MaxTxn,      \* bound: number of transactions ever created
  Refs,        \* resources on the Orchestrator
  Absent,      \* a resource that does not exist
  Base,        \* what a resource held before the first commit
  Initial,     \* bound: which of the two a resource may hold at first
  NoSnap,      \* no snapshot taken, or resource not part of the plan
  NoActor,     \* holder of a free lock
  Ops,         \* commands and commit options the operators use
  Keep,        \* settings.rollback_history
  AuditKeep,   \* prune_history's audit_keep
  MaxCrashes   \* bound: number of processes that die

Commands == {"commit", "confirm", "recover", "rollback"}

\* Transactions are numbered in the order their journals are created, which
\* is the order list_txns sorts by; the watchdog of t is the actor t.
Txns   == 1..MaxTxn
NoTxn  == 0
Actors == Clis \cup Txns
Values == Clis \cup {Absent, Base}
Views  == [Refs -> Values \cup {NoSnap}]

ASSUME ProtocolAssumption ==
  /\ MaxTxn \in Nat /\ Keep \in Nat /\ AuditKeep \in Nat /\ MaxCrashes \in Nat
  /\ Clis \cap (Txns \cup {NoTxn, NoActor}) = {}
  /\ NoActor \notin Txns
  /\ NoSnap \notin Values
  /\ {Absent, Base} \cap Clis = {}
  /\ Absent # Base /\ Initial \subseteq {Absent, Base}
  /\ Ops \subseteq Commands \cup {"rebase"}

VARIABLES
  fabric,   \* what each resource holds
  lock,     \* the actor holding HostLock(origin, "commit")
  journal,  \* the directory of each transaction
  proc,     \* program counter and local variables of each process
  crashes   \* processes that died so far

vars == <<fabric, lock, journal, proc, crashes>>

-----------------------------------------------------------------------------
(* Journal directories.                                                    *)

Terminal == {"CONFIRMED", "REVERTED", "REVERT_FAILED", "AUDIT_ONLY"}
BlockingStates == {"APPLIED_UNCONFIRMED", "REVERTING"}

\* NONE: not created yet.  GONE: removed by prune_history.
States == {"NONE", "PENDING", "APPLYING", "GONE"} \cup BlockingStates \cup Terminal

\* claim: decision.claim does not exist, exists but is still empty, or holds
\* a decision.  deadline: none set, ahead, passed, or passed by more than the
\* grace period of the orphan scan.
Journals ==
  [state    : States,
   snap     : Views,
   started  : SUBSET Refs,
   deadline : {"none", "running", "passed", "overdue"},
   marker   : BOOLEAN,
   claim    : {"none", "empty", "confirm", "revert"},
   pidFile  : BOOLEAN]

NoJournal ==
  [state |-> "NONE", snap |-> [r \in Refs |-> NoSnap], started |-> {},
   deadline |-> "none", marker |-> FALSE, claim |-> "none", pidFile |-> FALSE]

State(t)   == journal[t].state
Settled(t) == State(t) \in Terminal \cup {"GONE"}
Live(t)    == State(t) \in {"PENDING", "APPLYING"} \cup BlockingStates

\* Ids follow the clock: the next one is the first not used.
NextId(t) == State(t) = "NONE" /\ \A u \in Txns : u < t => State(u) # "NONE"

\* Prune journal j: of the confirmed transactions the newest Keep remain, of
\* the other terminal ones the newest AuditKeep.
Evicted(j, S, n) ==
  {t \in Txns : /\ j[t].state \in S
                /\ Cardinality({u \in Txns : u > t /\ j[u].state \in S}) >= n}

Pruned_OneQuota(j) ==   \* mutant: audit records count against the history
  [t \in Txns |-> IF t \in Evicted(j, Terminal, Keep)
                    THEN [NoJournal EXCEPT !.state = "GONE"] ELSE j[t]]

Pruned(j) ==
  LET out == Evicted(j, {"CONFIRMED"}, Keep)
               \cup Evicted(j, Terminal \ {"CONFIRMED"}, AuditKeep)
  IN  [t \in Txns |-> IF t \in out THEN [NoJournal EXCEPT !.state = "GONE"]
                                   ELSE j[t]]

-----------------------------------------------------------------------------
(* Processes.                                                              *)

CliPcs == {"idle", "queued", "snapshot", "decide", "apply", "write", "judge",
           "arming", "armwait", "restore", "redo",
           "claimwrite", "marking", "killing", "settling"}
WdPcs  == {"none", "starting", "watch", "expired", "claimwrite", "queued",
           "restore", "exited"}

Procs ==
  [pc      : CliPcs \cup WdPcs,
   op      : Commands \cup {"none"},
   txn     : Txns \cup {NoTxn},
   todo    : SUBSET Refs,      \* resources still to apply or restore
   item    : SUBSET Refs,      \* the resource being applied
   bad     : BOOLEAN,          \* a restore step failed
   view    : Views,            \* what the plan read, or what rollback restores
   confirm : BOOLEAN,          \* commit --confirm-minutes
   rebase  : BOOLEAN,          \* commit --rebase
   term    : BOOLEAN]          \* SIGTERM received

Fresh(pc, op, t) ==
  [pc |-> pc, op |-> op, txn |-> t, todo |-> {}, item |-> {}, bad |-> FALSE,
   view |-> [r \in Refs |-> NoSnap], confirm |-> FALSE, rebase |-> FALSE,
   term |-> FALSE]

\* How a process looks once its command is over.
Ended(a) == IF a \in Txns THEN Fresh("exited", "recover", a)
                          ELSE Fresh("idle", "none", NoTxn)

Init ==
  /\ fabric \in [Refs -> Initial]
  /\ lock = NoActor
  /\ journal = [t \in Txns |-> NoJournal]
  /\ proc = [a \in Actors |-> IF a \in Txns THEN Fresh("none", "recover", a)
                                             ELSE Ended(a)]
  /\ crashes = 0

At(a, pc)     == proc[a].pc = pc
Txn(a)        == proc[a].txn
Planned(a)    == {r \in Refs : proc[a].view[r] # NoSnap}
WatchdogUp(t) == journal[t].pidFile /\ ~At(t, "exited")

\* Every locked section ends by leaving the lock and the command.
Finish(a) == /\ lock' = NoActor
             /\ proc' = [proc EXCEPT ![a] = Ended(a)]

\* First step of a locked section.  Waiting for the lock and the first reads
\* under it are one step: all that is read is written under the lock only.
Enter(a, op) == /\ At(a, "queued") /\ proc[a].op = op
                /\ lock = NoActor
                /\ lock' = a

SetState(t, s) == journal' = [journal EXCEPT ![t].state = s]

-----------------------------------------------------------------------------
(* commit                                                                  *)

\* compare: the plan keeps what it read of every resource it will change.
Plan(c) ==
  /\ "commit" \in Ops
  /\ At(c, "idle")
  /\ \E t \in Txns : NextId(t)
  /\ \E R \in SUBSET {r \in Refs : fabric[r] # c},
        confirm \in {b \in BOOLEAN : b => "confirm" \in Ops},
        rebase \in {b \in BOOLEAN : b => "rebase" \in Ops} :
       /\ R # {}
       /\ proc' = [proc EXCEPT ![c] =
            [Fresh("queued", "commit", NoTxn) EXCEPT
               !.view = [r \in Refs |-> IF r \in R THEN fabric[r] ELSE NoSnap],
               !.confirm = confirm,
               !.rebase = rebase]]
  /\ UNCHANGED <<fabric, lock, journal, crashes>>

\* A command leaves the queue without effect: LockBusy, an early return of its
\* locked section (a pending window, nothing to confirm or to roll back), or
\* the operator interrupts it.
Leave(c) ==
  /\ At(c, "queued")
  /\ proc' = [proc EXCEPT ![c] = Ended(c)]
  /\ UNCHANGED <<fabric, lock, journal, crashes>>

NoPendingConfirm_WindowsOnly ==   \* mutant: REVERTING does not block a commit
  \A t \in Txns : State(t) # "APPLIED_UNCONFIRMED"

NoPendingConfirm_RestoresOnly ==   \* mutant: a confirm window does not (#100)
  \A t \in Txns : State(t) # "REVERTING"

NoPendingConfirm == \A t \in Txns : State(t) \notin BlockingStates

CommitBegin(c) ==
  /\ Enter(c, "commit")
  /\ NoPendingConfirm
  /\ \E t \in Txns :
       /\ NextId(t)
       /\ SetState(t, "PENDING")
       /\ proc' = [proc EXCEPT ![c].pc = "snapshot", ![c].txn = t]
  /\ UNCHANGED <<fabric, crashes>>

\* Every planned resource is fetched again and recorded before any write.
Snapshot(c) ==
  /\ At(c, "snapshot")
  /\ journal' = [journal EXCEPT ![Txn(c)].snap =
                   [r \in Refs |-> IF r \in Planned(c) THEN fabric[r] ELSE NoSnap]]
  /\ proc' = [proc EXCEPT ![c].pc = "decide"]
  /\ UNCHANGED <<fabric, lock, crashes>>

\* A fetch raises, or the snapshot cannot be sealed: the command ends and its
\* journal stays PENDING.
SnapshotFails(c) ==
  /\ At(c, "snapshot")
  /\ Finish(c)
  /\ UNCHANGED <<fabric, journal, crashes>>

Stale(c) == {r \in Planned(c) : journal[Txn(c)].snap[r] # proc[c].view[r]}
Work(c)  == {r \in Planned(c) : journal[Txn(c)].snap[r] # c}

\* Nothing was written: the server moved and there is no rebase, it already
\* matches, or (which may happen to any commit with work) a template took
\* ownership of a resource since compare.
CloseUnapplied(c) ==
  /\ At(c, "decide") /\ proc[c].op = "commit"
  /\ SetState(Txn(c), "AUDIT_ONLY")
  /\ Finish(c)
  /\ UNCHANGED <<fabric, crashes>>

StartApplying_NoDriftAbort(c) ==   \* mutant: applies whatever moved
  /\ At(c, "decide") /\ proc[c].op = "commit"
  /\ Work(c) # {}
  /\ SetState(Txn(c), "APPLYING")
  /\ proc' = [proc EXCEPT ![c].pc = "apply", ![c].todo = Work(c)]
  /\ UNCHANGED <<fabric, lock, crashes>>

StartApplying(c) ==
  /\ At(c, "decide") /\ proc[c].op = "commit"
  /\ proc[c].rebase \/ Stale(c) = {}
  /\ Work(c) # {}
  /\ SetState(Txn(c), "APPLYING")
  /\ proc' = [proc EXCEPT ![c].pc = "apply", ![c].todo = Work(c)]
  /\ UNCHANGED <<fabric, lock, crashes>>

ApplyStart_Unlogged(c) ==   \* mutant: APPLY_START is not flushed
  /\ At(c, "apply")
  /\ \E r \in proc[c].todo :
       proc' = [proc EXCEPT ![c].pc = "write", ![c].todo = @ \ {r}, ![c].item = {r}]
  /\ UNCHANGED <<fabric, lock, journal, crashes>>

\* APPLY_START is in the journal before the resource is written.
ApplyStart(c) ==
  /\ At(c, "apply")
  /\ \E r \in proc[c].todo :
       /\ journal' = [journal EXCEPT ![Txn(c)].started = @ \cup {r}]
       /\ proc' = [proc EXCEPT ![c].pc = "write", ![c].todo = @ \ {r},
                               ![c].item = {r}]
  /\ UNCHANGED <<fabric, lock, crashes>>

ApplyLands(c) ==
  /\ At(c, "write")
  /\ fabric' = [r \in Refs |-> IF r \in proc[c].item THEN c ELSE fabric[r]]
  /\ proc' = [proc EXCEPT ![c].pc = "judge"]
  /\ UNCHANGED <<lock, journal, crashes>>

Verified(c) ==
  /\ At(c, "judge")
  /\ proc' = [proc EXCEPT ![c].pc = "apply", ![c].item = {}]
  /\ UNCHANGED <<fabric, lock, journal, crashes>>

StartRestore_SkipFailed(a) ==   \* mutant: the failed step is not restored
  /\ SetState(Txn(a), "REVERTING")
  /\ proc' = [proc EXCEPT ![a].pc = "restore", ![a].item = {}, ![a].bad = FALSE,
                          ![a].todo = journal[Txn(a)].started \ proc[a].item]

\* _revert_items: the failed step and everything applied before it.
StartRestore(a) ==
  /\ SetState(Txn(a), "REVERTING")
  /\ proc' = [proc EXCEPT ![a].pc = "restore", ![a].item = {},
                          ![a].todo = journal[Txn(a)].started, ![a].bad = FALSE]

ApplyFails_Abandon(c) ==   \* mutant: the transaction is left FAILED
  /\ At(c, "write") \/ At(c, "judge")
  /\ SetState(Txn(c), "FAILED")
  /\ Finish(c)
  /\ UNCHANGED <<fabric, crashes>>

\* apply raised or reported failure, or verify did, whether or not the write
\* had landed.
ApplyFails(c) ==
  /\ At(c, "write") \/ At(c, "judge")
  /\ StartRestore(c)
  /\ UNCHANGED <<fabric, lock, crashes>>

CommitDone(c) ==
  /\ At(c, "apply") /\ proc[c].todo = {} /\ ~proc[c].confirm
  /\ journal' = Pruned([journal EXCEPT ![Txn(c)].state = "CONFIRMED"])
  /\ Finish(c)
  /\ UNCHANGED <<fabric, crashes>>

OpenWindow(c) ==
  /\ At(c, "apply") /\ proc[c].todo = {} /\ proc[c].confirm
  /\ journal' = [journal EXCEPT ![Txn(c)] =
                   [@ EXCEPT !.state = "APPLIED_UNCONFIRMED", !.deadline = "running"]]
  /\ proc' = [proc EXCEPT ![c].pc = "arming"]
  /\ UNCHANGED <<fabric, lock, crashes>>

SpawnWatchdog(c) ==
  /\ At(c, "arming")
  /\ proc' = [proc EXCEPT ![c].pc = "armwait", ![Txn(c)].pc = "starting"]
  /\ UNCHANGED <<fabric, lock, journal, crashes>>

Armed(c) ==
  /\ At(c, "armwait") /\ journal[Txn(c)].pidFile
  /\ Finish(c)
  /\ UNCHANGED <<fabric, journal, crashes>>

\* Popen failed, the launched process did not return, or no pid file was seen
\* in time: the watchdog may still come up, or just have.
ArmFails(c) ==
  /\ At(c, "arming") \/ At(c, "armwait")
  /\ StartRestore(c)
  /\ UNCHANGED <<fabric, lock, crashes>>

-----------------------------------------------------------------------------
(* Restoring from the snapshots: a failed commit, an expired window or     *)
(* rollback --pending (actor a restores the journal Txn(a)).               *)

RestoreStep(a, r, value, failed) ==
  /\ At(a, "restore")
  /\ fabric' = [fabric EXCEPT ![r] = value]
  /\ proc' = [proc EXCEPT ![a].todo = @ \ {r}, ![a].bad = @ \/ failed]
  /\ UNCHANGED <<lock, journal, crashes>>

\* Restored and read back; a resource that was absent is deleted, and that
\* deletion is believed without being read back.
Restore(a) ==
  \E r \in proc[a].todo : LET was == journal[Txn(a)].snap[r] IN
    /\ was # NoSnap
    /\ \/ RestoreStep(a, r, was, FALSE)
       \/ was = Absent /\ RestoreStep(a, r, fabric[r], FALSE)

\* No snapshot to restore from, the restore failed, or it could not be read
\* back.
RestoreFails(a) ==
  \E r \in proc[a].todo, landed \in BOOLEAN : LET was == journal[Txn(a)].snap[r] IN
    RestoreStep(a, r, IF landed /\ was # NoSnap THEN was ELSE fabric[r], TRUE)

RestoreDone(a) ==
  /\ At(a, "restore") /\ proc[a].todo = {}
  /\ SetState(Txn(a), IF proc[a].bad THEN "REVERT_FAILED" ELSE "REVERTED")
  /\ Finish(a)
  /\ UNCHANGED <<fabric, crashes>>

-----------------------------------------------------------------------------
(* rollback --pending, and the locked half of the watchdog's revert.       *)

\* A process holds the lock in the name of t.  confirm names no transaction.
DrivenNow(t) ==
  \E a \in Actors : lock = a /\ Txn(a) = t /\ proc[a].op # "confirm"

Orphan_WindowsOnly(t) ==   \* mutant: a commit that died is no orphan
  /\ State(t) \in BlockingStates /\ ~journal[t].marker /\ ~DrivenNow(t)
  /\ journal[t].deadline = "overdue" \/ ~WatchdogUp(t)

Orphan(t) ==
  /\ Live(t) /\ ~journal[t].marker /\ ~DrivenNow(t)
  /\ journal[t].deadline = "overdue" \/ ~WatchdogUp(t)

\* The scan reads outside the lock; what it found may be old when the lock is
\* free.
ScanOrphans(c, t) ==
  /\ "recover" \in Ops
  /\ At(c, "idle") /\ Orphan(t)
  /\ proc' = [proc EXCEPT ![c] = Fresh("queued", "recover", t)]
  /\ UNCHANGED <<fabric, lock, journal, crashes>>

RecoveryBlocked_NoConfirm(a) == LET t == Txn(a) IN   \* mutant: marker, claim unread
  \/ Settled(t)
  \/ journal[t].deadline # "overdue" /\ WatchdogUp(t) /\ a # t

RecoveryBlocked_NoWatchdog(a) == LET t == Txn(a) IN   \* mutant: no watchdog check
  Settled(t) \/ journal[t].marker \/ journal[t].claim = "confirm"

RecoveryBlocked_NoReopen(a) == LET t == Txn(a) IN   \* mutant: state read before the wait
  \/ journal[t].marker
  \/ journal[t].claim = "confirm"
  \/ journal[t].deadline # "overdue" /\ WatchdogUp(t) /\ a # t

\* Why a restore must stand down, asked again under the lock.
RecoveryBlocked(a) == LET t == Txn(a) IN
  \/ Settled(t)
  \/ journal[t].marker
  \/ journal[t].claim = "confirm"
  \/ journal[t].deadline # "overdue" /\ WatchdogUp(t) /\ a # t

RecoverNothing(a) ==
  /\ At(a, "queued") /\ proc[a].op = "recover" /\ lock = NoActor
  /\ ~RecoveryBlocked(a)
  /\ journal[Txn(a)].started = {}
  /\ SetState(Txn(a), "AUDIT_ONLY")
  /\ proc' = [proc EXCEPT ![a] = Ended(a)]
  /\ UNCHANGED <<fabric, lock, crashes>>

RecoverStart(a) ==
  /\ Enter(a, "recover")
  /\ ~RecoveryBlocked(a)
  /\ journal[Txn(a)].started # {}
  /\ StartRestore(a)
  /\ UNCHANGED <<fabric, crashes>>

-----------------------------------------------------------------------------
(* confirm                                                                 *)

AskConfirm(c) ==
  /\ "confirm" \in Ops
  /\ At(c, "idle")
  /\ \E t \in Txns : State(t) = "APPLIED_UNCONFIRMED"
  /\ proc' = [proc EXCEPT ![c] = Fresh("queued", "confirm", NoTxn)]
  /\ UNCHANGED <<fabric, lock, journal, crashes>>

Newest(t, s) == State(t) = s /\ \A u \in Txns : State(u) = s => u <= t

\* try_claim: creating decision.claim and writing it are two steps, and a
\* caller that finds the file empty takes the decision for its own.
ConfirmClaims(c) ==
  /\ Enter(c, "confirm")
  /\ \E t \in Txns :
       /\ Newest(t, "APPLIED_UNCONFIRMED")
       /\ \/ /\ journal[t].claim = "none"
             /\ journal' = [journal EXCEPT ![t].claim = "empty"]
             /\ proc' = [proc EXCEPT ![c].pc = "claimwrite", ![c].txn = t]
          \/ /\ journal[t].claim \in {"empty", "confirm"}
             /\ journal' = journal
             /\ proc' = [proc EXCEPT ![c].pc = "marking", ![c].txn = t]
  /\ UNCHANGED <<fabric, crashes>>

ConfirmClaimWrite(c) ==
  /\ At(c, "claimwrite")
  /\ journal' = [journal EXCEPT ![Txn(c)].claim = "confirm"]
  /\ proc' = [proc EXCEPT ![c].pc = "marking"]
  /\ UNCHANGED <<fabric, lock, crashes>>

WriteMarker(c) ==
  /\ At(c, "marking")
  /\ journal' = [journal EXCEPT ![Txn(c)].marker = TRUE]
  /\ proc' = [proc EXCEPT ![c].pc = "killing"]
  /\ UNCHANGED <<fabric, lock, crashes>>

KillWatchdog(c) == LET t == Txn(c) IN
  /\ At(c, "killing")
  /\ proc' = [proc EXCEPT ![c].pc = "settling", ![t].term = @ \/ WatchdogUp(t)]
  /\ UNCHANGED <<fabric, lock, journal, crashes>>

\* The state is read once more before CONFIRMED is written.
ConfirmSettles(c) == LET t == Txn(c) IN
  /\ At(c, "settling")
  /\ journal' = IF State(t) \in {"APPLIED_UNCONFIRMED", "CONFIRMED"}
                  THEN Pruned([journal EXCEPT ![t].state = "CONFIRMED"])
                  ELSE journal
  /\ Finish(c)
  /\ UNCHANGED <<fabric, crashes>>

-----------------------------------------------------------------------------
(* rollback <n>: a new transaction that writes an old one's snapshots.     *)

AskRollback(c) ==
  /\ "rollback" \in Ops
  /\ At(c, "idle")
  /\ \E t \in Txns : NextId(t)
  /\ \E s \in Txns : State(s) = "CONFIRMED"
  /\ proc' = [proc EXCEPT ![c] = Fresh("queued", "rollback", NoTxn)]
  /\ UNCHANGED <<fabric, lock, journal, crashes>>

RollbackBegin(c) ==
  /\ Enter(c, "rollback")
  /\ \E s, t \in Txns :
       /\ State(s) = "CONFIRMED" /\ journal[s].started # {}
       /\ NextId(t)
       /\ SetState(t, "PENDING")
       /\ proc' = [proc EXCEPT ![c].pc = "snapshot", ![c].txn = t,
            ![c].view = [r \in Refs |-> IF r \in journal[s].started
                                          THEN journal[s].snap[r] ELSE NoSnap]]
  /\ UNCHANGED <<fabric, crashes>>

StartRedo(c) ==
  /\ At(c, "decide") /\ proc[c].op = "rollback"
  /\ SetState(Txn(c), "APPLYING")
  /\ proc' = [proc EXCEPT ![c].pc = "redo", ![c].todo = Planned(c)]
  /\ UNCHANGED <<fabric, lock, crashes>>

RedoStep(c, r, value, failed) ==
  /\ At(c, "redo") /\ r \in proc[c].todo
  /\ journal' = [journal EXCEPT ![Txn(c)].started = @ \cup {r}]
  /\ fabric' = [fabric EXCEPT ![r] = value]
  /\ proc' = [proc EXCEPT ![c].todo = @ \ {r}, ![c].bad = @ \/ failed]
  /\ UNCHANGED <<lock, crashes>>

Redo(c) ==
  \E r \in Planned(c) : LET was == proc[c].view[r] IN
    \/ RedoStep(c, r, was, FALSE)
    \/ was = Absent /\ RedoStep(c, r, fabric[r], FALSE)

RedoFails(c) ==
  \E r \in Planned(c), landed \in BOOLEAN :
    RedoStep(c, r, IF landed THEN proc[c].view[r] ELSE fabric[r], TRUE)

RedoDone_TrustsPlugin(c) ==   \* mutant: failed restores are not counted
  /\ At(c, "redo") /\ proc[c].todo = {}
  /\ journal' = Pruned([journal EXCEPT ![Txn(c)].state = "CONFIRMED"])
  /\ Finish(c)
  /\ UNCHANGED <<fabric, crashes>>

\* A rollback that fails is not reverted; one that succeeds enters the history.
RedoDone(c) ==
  /\ At(c, "redo") /\ proc[c].todo = {}
  /\ journal' = IF proc[c].bad
                  THEN [journal EXCEPT ![Txn(c)].state = "REVERT_FAILED"]
                  ELSE Pruned([journal EXCEPT ![Txn(c)].state = "CONFIRMED"])
  /\ Finish(c)
  /\ UNCHANGED <<fabric, crashes>>

-----------------------------------------------------------------------------
(* The watchdog of transaction t.                                          *)

WdMoves(t, from, to) == /\ At(t, from)
                        /\ proc' = [proc EXCEPT ![t].pc = to]
WdExits(t, from) == /\ At(t, from)
                    /\ proc' = [proc EXCEPT ![t] = Ended(t)]

WdComesUp(t) ==
  /\ WdMoves(t, "starting", "watch")
  /\ State(t) # "GONE"
  /\ journal' = [journal EXCEPT ![t].pidFile = TRUE]
  /\ UNCHANGED <<fabric, lock, crashes>>

NothingToWatch(t) == proc[t].term \/ journal[t].marker \/ Settled(t)

WdSeesEnd(t) ==
  /\ \/ WdExits(t, "watch") /\ NothingToWatch(t)
     \/ WdExits(t, "starting") /\ State(t) = "GONE"
  /\ UNCHANGED <<fabric, lock, journal, crashes>>

WdExpires(t) ==
  /\ WdMoves(t, "watch", "expired")
  /\ ~NothingToWatch(t)
  /\ journal[t].deadline # "running"
  /\ UNCHANGED <<fabric, lock, journal, crashes>>

\* The marker is read again and the decision claimed.
ConfirmWon(t) == journal[t].marker \/ journal[t].claim = "confirm" \/ State(t) = "GONE"

WdYields(t) ==
  /\ WdExits(t, "expired")
  /\ ConfirmWon(t)
  /\ UNCHANGED <<fabric, lock, journal, crashes>>

WdClaims(t) ==
  /\ ~ConfirmWon(t)
  /\ \/ /\ journal[t].claim = "none"
        /\ WdMoves(t, "expired", "claimwrite")
        /\ journal' = [journal EXCEPT ![t].claim = "empty"]
     \/ /\ journal[t].claim # "none"
        /\ WdMoves(t, "expired", "queued")
        /\ journal' = journal
  /\ UNCHANGED <<fabric, lock, crashes>>

WdClaimWrite(t) ==
  /\ WdMoves(t, "claimwrite", "queued")
  /\ journal' = [journal EXCEPT ![t].claim = "revert"]
  /\ UNCHANGED <<fabric, lock, crashes>>

\* The lock stays taken for fifteen minutes, a blocker stands in the way, or no
\* session with the Orchestrator can be built: no restore, and no second try.
WdGivesUp(t) ==
  /\ WdExits(t, "queued")
  /\ UNCHANGED <<fabric, lock, journal, crashes>>

-----------------------------------------------------------------------------
(* The environment: time passes and processes die.                         *)

\* Nobody reads the deadline of a settled transaction.
Time(t) ==
  /\ Live(t)
  /\ \/ journal[t].deadline = "running"
          /\ journal' = [journal EXCEPT ![t].deadline = "passed"]
     \/ journal[t].deadline = "passed"
          /\ journal' = [journal EXCEPT ![t].deadline = "overdue"]
  /\ UNCHANGED <<fabric, lock, proc, crashes>>

\* The kernel drops a dead holder's lock; everything on disk stays.
Crash(a) ==
  /\ crashes < MaxCrashes
  /\ proc[a].pc \notin {"idle", "none", "exited"}
  /\ crashes' = crashes + 1
  /\ lock' = IF lock = a THEN NoActor ELSE lock
  /\ proc' = [proc EXCEPT ![a] = Ended(a)]
  /\ UNCHANGED <<fabric, journal>>

-----------------------------------------------------------------------------
CommitStep(c) ==
  \/ CommitBegin(c) \/ Snapshot(c) \/ SnapshotFails(c) \/ CloseUnapplied(c)
  \/ StartApplying(c) \/ ApplyStart(c) \/ ApplyLands(c) \/ Verified(c)
  \/ ApplyFails(c) \/ CommitDone(c) \/ OpenWindow(c) \/ SpawnWatchdog(c)
  \/ Armed(c) \/ ArmFails(c)

RestoreSteps(a) == Restore(a) \/ RestoreFails(a) \/ RestoreDone(a)

RecoverStep(a) == RecoverNothing(a) \/ RecoverStart(a)

ConfirmStep(c) ==
  \/ ConfirmClaims(c) \/ ConfirmClaimWrite(c) \/ WriteMarker(c)
  \/ KillWatchdog(c) \/ ConfirmSettles(c)

RollbackStep(c) ==
  RollbackBegin(c) \/ StartRedo(c) \/ Redo(c) \/ RedoFails(c) \/ RedoDone(c)

WatchdogStep(t) ==
  \/ WdComesUp(t) \/ WdSeesEnd(t) \/ WdExpires(t) \/ WdYields(t) \/ WdClaims(t)
  \/ WdClaimWrite(t) \/ WdGivesUp(t)

Next ==
  \/ \E c \in Clis :
       \/ Plan(c) \/ Leave(c) \/ AskConfirm(c) \/ AskRollback(c)
       \/ \E t \in Txns : ScanOrphans(c, t)
       \/ CommitStep(c) \/ ConfirmStep(c) \/ RollbackStep(c)
  \/ \E a \in Actors : RestoreSteps(a) \/ RecoverStep(a) \/ Crash(a)
  \/ \E t \in Txns : WatchdogStep(t) \/ Time(t)

Spec == Init /\ [][Next]_vars

\* A process that is running a command takes its next step sooner or later
\* (every wait on the lock has a timeout), and so does a watchdog; time passes.
\* What an operator types next is left to the operator.
CliRuns(c) ==
  Leave(c) \/ CommitStep(c) \/ ConfirmStep(c) \/ RollbackStep(c)
  \/ RestoreSteps(c) \/ RecoverStep(c)
WatchdogRuns(t) == WatchdogStep(t) \/ RestoreSteps(t) \/ RecoverStep(t)

Fairness ==
  /\ \A c \in Clis : WF_vars(CliRuns(c))
  /\ \A t \in Txns : WF_vars(WatchdogRuns(t)) /\ WF_vars(Time(t))

FairSpec == Spec /\ Fairness

-----------------------------------------------------------------------------
(* What must hold.                                                         *)

\* Every variable holds a value of its kind.
TypeOK ==
  /\ fabric \in [Refs -> Values]
  /\ lock \in Actors \cup {NoActor}
  /\ journal \in [Txns -> Journals]
  /\ proc \in [Actors -> Procs]
  /\ crashes \in Nat

\* Once the operator's confirm has left its marker, no watchdog and no
\* rollback --pending ever starts to restore that transaction, whoever dies in
\* between (recovery_blocker, _confirm_locked).
ConfirmedIsNeverRestored ==
  \A t \in Txns : journal[t].marker => State(t) \in {"APPLIED_UNCONFIRMED", "CONFIRMED"}

CommitPcs == {"snapshot", "decide", "apply", "write", "judge", "arming", "armwait"}

\* While a commit is at work no other transaction is in its confirm window or
\* being restored, so nothing can revert the commit away (#100,
\* _guard_no_pending_confirm inside the lock).
WindowExclusive ==
  \A c \in Clis, t \in Txns :
    /\ proc[c].pc \in CommitPcs /\ proc[c].op = "commit"
    /\ State(t) \in BlockingStates
    => t = Txn(c)

\* A resource is only overwritten while it still holds what this transaction
\* has journaled for it, and, without --rebase, what the operator saw in the
\* plan, however long ago compare was (_commit_locked's DRIFT abort).
NoLostUpdate ==
  \A c \in Clis : At(c, "write") =>
    \A r \in proc[c].item :
      /\ fabric[r] = journal[Txn(c)].snap[r]
      /\ proc[c].rebase \/ fabric[r] = proc[c].view[r]

\* Wherever a commit or a restore dies, the journal names every resource that
\* no longer holds its snapshot, so recovery puts all of them back.
RecoveryCoversEveryWrite ==
  \A c \in Clis : proc[c].pc \in CommitPcs \ {"snapshot"} /\ proc[c].op = "commit" =>
    \A r \in Refs \ journal[Txn(c)].started :
      journal[Txn(c)].snap[r] \in {NoSnap, fabric[r]}

\* A confirm window ends in a restore only once its deadline has passed, its
\* watchdog is gone, or its own commit could not arm one; never because a scan
\* that was right when it looked is acted on later.
WindowNotCutShort ==
  [][ \A t \in Txns :
        State(t) = "APPLIED_UNCONFIRMED" /\ State(t)' = "REVERTING" =>
          \/ journal[t].deadline # "running"
          \/ ~WatchdogUp(t)
          \/ \E c \in Clis : At(c, "armwait") /\ Txn(c) = t ]_vars

\* REVERTED is the truth about the Orchestrator: each resource the transaction
\* started to write, first by the failed commit or later by a recovery that was
\* itself interrupted, holds its snapshot again (a deletion excepted, which the
\* code believes unread).
RevertedMeansRestored ==
  [][ \A t \in Txns :
        State(t) # "REVERTED" /\ State(t)' = "REVERTED" =>
          \A r \in journal[t].started : journal[t].snap[r] \in {Absent, fabric[r]} ]_vars

\* A transaction being restored never shares a resource with a newer commit
\* that was confirmed: nothing reported as complete is silently undone
\* (BLOCKING_STATES).
NothingConfirmedIsErased ==
  \A t, u \in Txns :
    t < u /\ State(t) = "REVERTING" /\ State(u) = "CONFIRMED" =>
      journal[t].started \cap journal[u].started = {}

\* It takes a process that dies, or a rollback <n>, which is exempt from the
\* guard that keeps commits out of a confirm window (_guard_no_pending_confirm).
ErasedOnlyAfterCrash ==
  crashes = 0 /\ "rollback" \notin Ops => NothingConfirmedIsErased

\* rollback <n> enters the history only once every resource of the old
\* transaction holds its old snapshot (deletions are believed unread), and its
\* own journal can take the whole of it back.
RollbackRestores ==
  [][ \A c \in Clis, t \in Txns :
        At(c, "redo") /\ Txn(c) = t /\ State(t)' = "CONFIRMED" =>
          \A r \in Planned(c) :
            /\ r \in journal[t].started /\ journal[t].snap[r] # NoSnap
            /\ proc[c].view[r] \in {Absent, fabric[r]} ]_vars

\* A rollback point leaves the history only when Keep newer ones exist; audit
\* records and failed reverts never push one out (prune_history's quotas).
HistoryKept ==
  [][ \A t \in Txns :
        State(t) = "CONFIRMED" /\ State(t)' = "GONE" =>
          Cardinality({u \in Txns : u > t /\ State(u)' = "CONFIRMED"}) >= Keep ]_vars

\* The two sides of the confirm window agree on who decided it: once the
\* operator's marker is there, the claim does not say revert (try_claim).
ClaimHasOneWinner ==
  \A t \in Txns : journal[t].marker => journal[t].claim # "revert"

\* The phase of TxnLifecycle each state on disk stands for.
Phase(s) ==
  CASE s = "NONE"                    -> "absent"
    [] s \in {"PENDING", "APPLYING"} -> "working"
    [] s = "APPLIED_UNCONFIRMED"     -> "window"
    [] s = "REVERTING"               -> "restoring"
    [] s = "CONFIRMED"               -> "confirmed"
    [] s = "REVERTED"                -> "restored"
    [] s = "REVERT_FAILED"           -> "failed"
    [] s = "AUDIT_ONLY"              -> "audited"
    [] s = "GONE"                    -> "forgotten"

Life == INSTANCE TxnLifecycle WITH Ids <- Txns, life <- [t \in Txns |-> Phase(State(t))]

\* The engine keeps the promises of TxnLifecycle: one window at a time, one
\* outcome per transaction, an outcome never changes, however the processes
\* interleave and die.
KeepsLifecycle == Life!Spec

\* Whatever dies and whoever races, a transaction that owns the Orchestrator is
\* eventually settled, offered for recovery, or confirmed by a marker.
NoTransactionIsStranded ==
  \A t \in Txns : Live(t) ~> Settled(t) \/ Orphan(t) \/ journal[t].marker

=============================================================================
