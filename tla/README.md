# A TLA+ model of pyecsdwan

`pyecsdwan` (`src/src/pyecsdwan/`) is a transactional command line for an
SD-WAN Orchestrator: operators stage changes, compare them with the server,
commit them (optionally with a confirm window that rolls back by itself), and
roll back. The program is a set of short-lived processes and a detached
watchdog that share nothing but files: journals, locks, staged intent, keys.
Everything hard about it is in how those processes interleave and die.

## Inventory

| Component | State it keeps | Operations | Talks to | What makes it correct |
|---|---|---|---|---|
| Transaction engine, `txn.py` | none of its own | `commit`, `confirm_pending`, `revert_txn_dir`, `rollback_history_txn` | lock, journal, watchdog, resources | commits run alone; an unseen change is never overwritten; a failed commit restores all it touched; an outcome is final and true |
| Journal, `journal.py` | one directory per transaction: `meta.json` (state, deadline), `events.jsonl`, private snapshots, `confirm.marker`, `decision.claim`, `watchdog.pid` | create, append, set_state, record_snapshot, try_claim, orphan scan, prune | read by every process | written before the write it describes; decisions have one winner; what is unsettled can be found; rollback points survive |
| Watchdog, `watchdog.py` | a daemon per confirm window | arm, watch, expire, restore | journal, lock, `revert_txn_dir` | restores only what nobody confirmed |
| Host lock, `locking.py` | a lock file and its owner record; a process-wide depth table | acquire, release, probe | commit, confirm, recovery, staging | mutual exclusion; dead holders do not block; no deadlock with the legacy name |
| Candidate store, `candidate.py` | a JSON file per Orchestrator | set, delete, drop, clear, clear_committed, adopt_legacy | lock, vault, commit | no staged change is lost or applied twice |
| Vault, `vault.py` | the envelope key and the previous one in the keyring | seal, unseal, rotate_key | candidate files, private journals | everything sealed on disk opens |
| Job poller, `jobs.py` | none | wait_for_action, wait_for_recent_action, save_changes | client | success is never reported for somebody else's push |
| Client and retry policy, `client.py`, `retry.py` | latency window | request | Orchestrator | a call that changes something is sent at most once |
| Ownership, `ownership.py` | bodies of templates in the resolver's cache | managed_by | client, plan, commit | no write a template push would undo, unless overridden |
| Desired state, diff, registry, resolver | none | load, materialize, diff, order | plan | pure functions |
| Resource plugins, `resources/` | none | fetch, normalize, diff, apply, verify, rollback | client, jobs | per-endpoint translation |
| CLI and shell, `cli/` | a shell session | one handler per command | everything | the right engine call |

Not the program's own logic, and left out: the vendored SDK `pyedgeconnect/`,
`contrib/`, `examples/`, `tools/`, generated models, reports; of the mock server
only how an action is registered and listed.

Hard behaviours: several operators' processes and watchdogs at once; every
decision taken from files read earlier; a process may die between any two file
operations; REST writes may fail before or after they took effect; waiting for
locks and daemons has timeouts. `PROJECT.json` lists the hazards line by line
with the property that watches each.

## Plan

In order of importance; all but the last are done.

1. `CommitProtocol`: engine, journal state, watchdog and lock composed,
   with `TxnLifecycle` as the abstract specification it implements.
2. `HostLock`: the flock mechanism with its owner record, its nesting
   objects and the lock of builds before the slug was in the name.
3. `JournalLog`: the event log and the private file of one transaction
   under torn writes, repair and strict reading.
4. `CandidateStore`: staging shells, scriptable commands, commits,
   `discard` and adoption, with `StagingArea` as the abstract specification it
   implements.
5. `KeyRotation`: the envelope key, its rotation with interruptions and
   re-runs, and the sessions that seal secrets meanwhile.
6. `GuardedCommit`, on the operators of `TemplateOwnership`: the two ownership
   checks of a commit, the drift abort and `--rebase`, on data.
7. `JobPoller`: how a write learns what became of it, among concurrent pushes,
   lost calls and retries.
8. To come: dependency order and write collisions, checked against reference
   definitions; the guards of the declarative apply once it can write.

## CommitProtocol

### State

| Variable | In the code |
|---|---|
| `fabric` | what each resource on the Orchestrator holds: `Absent`, `Base` (before anyone committed) or the name of the CLI whose intent it carries |
| `lock` | who holds `HostLock(origin, "commit")`; the transaction it was taken for is the holder's `txn` |
| `journal[t]` | the directory of transaction `t`: `state` and `deadline` from `meta.json`, `snap` and `started` from the SNAPSHOT and APPLY_START records, `marker`, `claim`, `pidFile` for the three small files |
| `proc[a]` | program counter and local variables of each process: CLIs, and the watchdog of `t` which is the actor `t` |
| `crashes` | how many processes died (bound only) |

Transactions are numbered in the order their journals are created, which is how
`list_txns` sorts them. A CLI always stages its own name, so values tell who
wrote a resource, and the order in which a transaction visits its resources is
arbitrary.

### Actions

Every file operation somebody else can see is a step of its own; everything
between two of them is one step.

| Actions | Code |
|---|---|
| `Plan`, `Leave` | `build_plan`; `LockBusy`, the early returns of the locked sections |
| `CommitBegin` .. `CommitDone` | `_commit_locked`: guard and create, snapshots, drift/ownership/no-op abort, APPLYING, one APPLY_START/write/verify per resource, failure at each, CONFIRMED and prune |
| `OpenWindow`, `SpawnWatchdog`, `Armed`, `ArmFails` | deadline and APPLIED_UNCONFIRMED, `watchdog.arm`, its timeout |
| `StartRestore` (operator), `Restore`, `RestoreFails`, `RestoreDone` | `_revert_items` and `_confirm_restored` |
| `ScanOrphans`, `RecoverNothing`, `RecoverStart` | `orphaned_txns`, then `revert_txn_dir` under the lock with `recovery_blocker` |
| `AskConfirm` .. `ConfirmSettles` | `_confirm_locked`: claim, claim's content, marker, SIGTERM, state |
| `AskRollback` .. `RedoDone` | `_rollback_locked` |
| `Wd...` | `watchdog.watch` |
| `Time`, `Crash` | the clock; a process dies, the kernel drops its lock |

Abstractions a reader should know. A restore by a watchdog and one by
`rollback --pending` are the same code and the same actions, by different
actors. The snapshots of a transaction are taken in one step: all ec-cli
writers hold the lock. Other clients of the Orchestrator are not modelled, nor
are journals written before origins were recorded, more than one Orchestrator
(every list is scoped to one), and `ec-cli api`, whose journal has no snapshot
and no APPLY_START. A pid identifies a process for ever. The torn tail of a
journal file is left to `JournalLog`.

### Runs

`MCCommitProtocol` instantiates the module; two CLIs unless stated, `Refs` and
`Clis` symmetric except in the liveness run. Deadlock is not checked: the
program stops when nobody types a command, and the model when its
transaction numbers are used up.

| Run | Bounds | Shows |
|---|---|---|
| `CommitWindows` | 2 transactions, 1 resource, confirm and recover, 1 crash | `TypeOK`; `ConfirmedIsNeverRestored`; `WindowExclusive`; `ErasedOnlyAfterCrash`; `WindowNotCutShort`; `KeepsLifecycle` (implements `TxnLifecycle`) |
| `CommitPartial` | 2 transactions, 2 resources, recover and rebase, 1 crash | `NoLostUpdate`; `RecoveryCoversEveryWrite`; `RevertedMeansRestored` |
| `CommitHistory` | 3 transactions, 2 resources, rollback, Keep 2, AuditKeep 1 | `RollbackRestores`, `HistoryKept` |
| `CommitLive` | 1 transaction, confirm, recover, 1 crash, fairness | `NoTransactionIsStranded` |
| `CommitClaim` | 1 CLI, 1 transaction, confirm | violated: `ClaimHasOneWinner` |

Why these bounds are enough: the conflicts are between two transactions (one in
its window or dead, one new) and at most four processes (two CLIs, two
watchdogs); two resources are what partial failure needs; a rollback of a rollback takes
three transactions, and with three a prune must weigh two confirmed ones
against an audit record that fills its own quota. Resources start at `Base` (`Initial`); in `CommitPartial` and
`CommitHistory` some may also start absent, so that a restore deletes. One crash at any step reaches each half-done state; the
second process then meets it.

Fairness (`CommitLive`): a process in the middle of a command takes its next
step, because every wait in the code has a timeout (`DEFAULT_TIMEOUT` and
`REVERT_LOCK_TIMEOUT` for the lock, `_ARM_TIMEOUT` for the daemon, HTTP and job
timeouts for the rest), a watchdog polls once a second, and time passes. Nothing
is assumed of operators: no command has to be typed, which is why the property
says "settled, offered for recovery, or confirmed by a marker".

### What the runs found

* `CommitClaim`: `try_claim` creates the file and writes it later; whoever
  finds it empty takes the decision for itself, so the operator's confirm and
  the watchdog's revert can both win (`journal.py:483`). No confirmed
  transaction is restored all the same (`ConfirmedIsNeverRestored`), because the
  restore reads the marker again under the lock; but if confirm dies right
  after its marker, the transaction stays APPLIED_UNCONFIRMED with a claim that
  says revert: the scan hides it, confirm is refused, and commits are blocked.
* A commit that dies in APPLYING blocks nobody (`BLOCKING_STATES`, `txn.py:374`,
  whose comment says that what owns the fabric until it is resolved blocks); a
  later commit is CONFIRMED and then erased by `rollback --pending` of the
  first. Without crashes it cannot happen to a commit, which is what
  `ErasedOnlyAfterCrash` says; with `NothingConfirmedIsErased` in its place, TLC
  shows the loss.
* `rollback <n>` may be used inside a confirm window (`txn.py:490` exempts it
  from the guard on purpose), and then the expiry of the window restores over
  it although it was CONFIRMED. Trying to prove `ErasedOnlyAfterCrash` without
  regard to rollbacks brought this to light; the property is therefore about
  operators that do not use it (`"rollback" \notin Ops`), as in `CommitWindows`.

### Proofs

`CommitProtocol_proofs` proves, for any sets of processes and resources, any
number of transactions and crashes and any quota (`ProtocolAssumption` only
says that the kinds of values do not overlap):

* `TypeCorrect`: `Spec => []TypeOK`;
* `ConfirmIsFinal`: `Spec => []ConfirmedIsNeverRestored`;
* `CommitsRunAlone`: `Spec => []WindowExclusive`.

None is inductive alone. `Inv` (theorem `Invariance`) adds three things.
`LockHeld`: a process inside a locked section holds the lock. `TxnKnown`: what a
process in the middle of a command knows of its transaction (that it has one,
that the journal is in the state the program counter implies). `StateKnown`:
what each state on disk says, in the other direction, about who is driving it.
Confirming is final because a restore starts only when there is no marker,
and only under the lock; `confirm` writes the marker under the lock, having
found the transaction APPLIED_UNCONFIRMED, so no restore can be in between.
Commits run alone because the guard is read under the lock, and only holders of
the lock open windows or start restores. `Inv` was first checked with
TLC on the bounds of `CommitWindows` and `CommitHistory`, then proved action by
action: a type lemma per group of actions, frame lemmas (`HoldStep`,
`FreeStep`, `InsideStep`, `WorkStep`) for what a step leaves alone, and one
lemma per group for what it changes.

`CommitOutcome_proofs` proves how transactions end, from the same assumptions.
It first names the change each step makes to the states on disk (`StateTurns`,
lemma `NextTurns`): one transaction turns from one of a few states to another,
or is confirmed and the history pruned. Every later argument about states goes
through it, never through every action again. On top stand three
invariants, each inductive together with `Inv` and the earlier ones, and each
checked with TLC on the bounds of the runs before it was proved:

* `DataInv` (theorem `DataInvariance`): a transaction in a window or being
  restored has started a write and one not yet applying has not (`DirKnown`);
  before the first write everything planned is as recorded; while a commit is
  at work only what is in its started log differs from the snapshots, what it
  has to do is planned, recorded and not started, and records and plan agree
  unless it rebases; a restore without a failed step has put back all it no
  longer has to do, and so has a rollback <n>. The frame lemma `HoldData` does
  the interleavings: only the holder of the lock has anything to keep. From it:
  `NothingIsOverwrittenUnseen` (`NoLostUpdate`), `JournalCoversEveryWrite`
  (`RecoveryCoversEveryWrite`), `RevertsAreTrue` (`RevertedMeansRestored`),
  `RollbackIsComplete` (`RollbackRestores`).
* `WatchInv` (`WatchInvariance`): a pid file means a watchdog was launched, it
  was launched only for a window that had been opened, it passed its watch only
  after the deadline, a commit about to arm has not armed, and a recovery is of
  a transaction that exists. The last is what makes a scan that is acted on
  later harmless. From it: `WindowsRunTheirTime` (`WindowNotCutShort`) and,
  with `DataInv`, `KeepsThePromises` (`KeepsLifecycle`): every turn of
  `StateTurns` maps to one step of `TxnLifecycle`, or, from PENDING to APPLYING
  and when an interrupted restore is begun again, to a stutter. What every
  behaviour of `TxnLifecycle` promises then holds of the journals:
  `OneWindowAtATime`, and `OutcomesAreFinal` (an outcome on disk is never
  replaced by another, only pruned).
* `HotInv` (`HotInvariance`): ids are given out in order; until a process dies,
  what is APPLYING has a process at work on it, hence a lock that is held, so
  no transaction is begun after one that is applying, in its window or being
  restored. From it: `OnlyADeathErases` (`ErasedOnlyAfterCrash`).

`HistoryIsKept` (`HistoryKept`) needs only `StateTurns` and an argument about
cardinalities (`PrunedKeeps`): either nothing newer than the evicted
transaction goes with it, or the newest that goes had its quota above it.

Only model-checked: `NoTransactionIsStranded`, a liveness property under
fairness, which is outside what the prover handles.

## HostLock

The commit lock of `CommitProtocol` is one variable with a holder. `HostLock`
models what stands behind it: `HostLock` objects of several processes, two lock
files, their kernel locks and the owner record in each.

| Variable | In the code |
|---|---|
| `kernel[f]` | which process's descriptor holds the flock on file `f` |
| `record[f]` | who the JSON in `f` names (`_write_owner`), if anybody |
| `legacyFile` | whether the file named by the display host exists (`_legacy_barrier_path`) |
| `depth[p][f]` | the process-wide table `_HELD` |
| `mine[p][o]`, `barriers[p][o]` | `_mine` of object `o`, and how many barriers it pushed |
| `op[p]` | the call the process is in, and where |

| Actions | Code |
|---|---|
| `Acquire`, `Nest`, `TakeLock`, `Wipe`, `Write`, `GiveUp` | `acquire` and `_acquire_own`: the old name first if its file exists; a nested acquisition only counts; the record is truncated, then written; `LockBusy` gives the barrier back |
| `Release`, `Pop`, `Erase`, `Unlock` | `release` and `_release_own`: nothing through an object that holds nothing; the record is erased before the lock is dropped; then the last barrier |
| `ProbeFile` | `active_locks`, which takes and drops every lock it finds free |
| `Crash` | the kernel closes the descriptors, the record stays |

Processes in `OldProcs` run a build from before the slug was in the name and
lock only the old file: docs/ROADMAP.md 146-148 is about them.

| Run | Bounds | Shows |
|---|---|---|
| `LockUpgraded` | 2 processes and an old one, 2 objects each, 2 acquisitions per object, 2 crashes; the old file exists | `TypeOK`; `OneInside`; `NotDroppedUnder`; `LiveRecordIsTrue`; `InsideIsRecorded` |

Two processes and an old one are all the kinds there are, two objects and a
depth of two show the difference between what an object holds and what its
process holds, and a process that finds a dead one's record needs one crash.
Deadlock is checked: waits have a timeout (`GiveUp`).

The transition rule has a hole that the constant `LegacyAtStart` opens: a process
of this build takes the old name only when its file is already there, so an old
process whose first acquisition comes after the look creates it, and both are
inside. Once the file exists, it is never removed and the rule holds.

`HostLock_proofs` proves for any number of processes, objects and files held:
`TypeCorrect`; `RecordsAreTrue` (`LiveRecordIsTrue`, on which `_driven_now` and
with it the orphan scan of `CommitProtocol` rest); `HoldersAreRecorded`
(`InsideIsRecorded`); `MutualExclusion` (`OneInside`, if the old file was there
from the start). Their invariant is `IInv`: `TypeOK`, `FilesInv` (a file is in a
process's table exactly when its kernel lock is the process's, and a record is
written and erased only under that lock) and `Barriers` (a process that holds
the new file also holds the old one: each of its acquisitions pushed one
barrier, which is released after it); and `NeverDroppedUnder`
(`NotDroppedUnder`). For the last, `HeldInv` says that the count in a process's
table is the number of tokens its objects hold, one for each acquisition not yet
released: a sum over objects, stated as the cardinality of a set so that one
acquisition adds one element and one release takes one away.

Left out: the exclusive-create fallback (for platforms the program does not
support) and errors of the disk while the record is written, which the code
ignores.

## JournalLog

`CommitProtocol` treats a record as written or not. `JournalLog` models the
file: one transaction's `events.jsonl`, its private file and `meta.json`, with
every process that appends to them, each append in its separate steps.

| Variable | In the code |
|---|---|
| `lines`, `tail` | the lines of `events.jsonl` that have their newline, and what follows the last newline: nothing, a torn record, or a whole one without its newline |
| `body` | resources whose snapshot is in the private file |
| `state`, `marker` | `meta.json`'s state, `confirm.marker` |
| `touched` | resources that may differ from their snapshot because of this transaction |
| `lock` | who holds the commit lock |
| `proc[a]` | where the commit, the watchdog and each operator's process is, the step of `append` it is at, the record it is writing, and what it remembers of the tail it read |

| Actions | Code |
|---|---|
| `Look`, `Mend`, `Report`, `Write` | `append`: `_repair_tail` reads the last bytes, then truncates a torn record where it began or completes a whole one; TAIL_REPAIRED; the record itself |
| `SnapshotBody`, `SnapshotEvent` | `record_snapshot`: the private file first |
| `CloseUnapplied` .. `ArmEnds` | `_commit_locked`, with `set_state` as two writes (`SetState`) |
| `Undo` .. `RestoreDone`, `Refuse`, `Finish` | `_revert_items` by whichever process; `JournalCorrupt` |
| `ScanOrphans`, `RecoverEnters`, `Plan`, `GiveUp` | `orphaned_txns`, then `revert_txn_dir` |
| `Confirm`, `Settle`, `Wd...` | `_confirm_locked`; `watchdog.watch`, which appends `WATCHDOG_*` records without the lock |
| `Crash`, `Tear` | a process dies between two file operations, or inside a write, which leaves part of the record or all but the newline |

Abstractions. Records nobody reads are all `Note`, and two in a row by one
process with nothing in between are one. A deadline may have passed whenever
there is one, and the decision claim is left out (both belong to
`CommitProtocol`); each only adds behaviours. The private file cannot have a torn
line that is read: only the commit writes it, a torn write ends the commit, and
a SNAPSHOT event is written only after the body. Lengths are counted in lines,
so beside the lock one torn write is enough for a stale truncation and all the
assumption allows: with two, a truncation could fall inside a longer record, which
lines cannot express. While every writer holds the lock there is no such limit.

| Run | Bounds | Shows |
|---|---|---|
| `LogWindows` | 2 resources, the commit, its watchdog, an operator's process used again and again, 2 deaths, 1 of them in a write | `TypeOK`; `WriteAhead`; `SnapshotHasBody`; `MetaIsAhead`; `NoHoleUnderLock`; `AppendOnly` |
| `LogTorn` | 1 death, in a write, without windows | violated: `RefusedMeansHole` |

The first death leaves the state another process must cope with, the second
kills the one that copes. Two resources make a partly applied commit. Deadlock
is not checked: the transaction ends.

What the runs found:

* `LogTorn`: a commit dies inside an append. The documentation says a torn last line
  is tolerated on reading, and the strict reader's comment that a repair precedes any
  append; but the recovery reads strictly *before* it appends, nothing has
  repaired the tail, and `rollback --pending` refuses for ever. The watchdog gets
  through, because it appends first.
* The watchdog appends without the lock. If it looked at a clean tail
  and a process under the lock then dies inside its append, the watchdog writes
  onto the fragment, and no strict reader accepts the log again: this is why
  `NoHoleUnderLock` speaks only of the time before a watchdog is started. What
  the transaction wrote is still covered by records before the bad line
  (`WriteAhead`), so the damage can be repaired by hand.
* `journal.py` says that events win over `meta.json`. No code reads the STATE
  events; `MetaIsAhead` shows why this is harmless: `meta.json` is written first and
  never misses a state the log knows.

`JournalLog_proofs` proves for any number of resources, processes and deaths
(and of torn writes, while no window is ever open): `TypeCorrect`,
`EveryWriteIsCovered` (`WriteAhead`), `EventsHaveBodies` (`SnapshotHasBody`),
`LockKeepsLogWhole` (`NoHoleUnderLock`), `LockKeepsRecords` (`AppendOnly`) and
`MetaStaysAhead` (`MetaIsAhead`).
The invariant `IInv` says who holds the lock where (`PcInv`, `EarlyInv`: until the
watchdog is started, last of all, whoever appends holds it); what a process in the
middle of `append` knows of the tail when it is alone (`UnderLock`) and when it
may not be (`TearInv`: one torn tail at most, and one place to cut); what the
commit has put on disk at each point (`JobInv`); that no truncation under way
reaches back to the records that cover a write (`CoverInv`, stronger than
`WriteAhead`, which alone would not survive a stale truncation); and that every
SNAPSHOT record, written or about to be, has its body (`BodyInv`). `IInv` was
checked with TLC, with windows and without, before it was proved. A step that
leaves the log alone is `Calm`, and one lemma per conjunct covers all of them;
each step of `append` has its own. `MetaStaysAhead` needs more
than `IInv`: that every STATE record that is written, left torn or about to be
appended tells of a state `meta.json` has reached (`Told`), and what `meta.json`
says while a process is on its way (`Place`), which nobody else can change because
a set_state is only ever made under the lock.

## CandidateStore

What operators stage survives between commands in one file per Orchestrator. A
scriptable command reads it, changes it and ends; a shell keeps what it read in
memory while others go on staging. `StagedItems` says what each command makes
of what is staged, `StagingArea` what the store promises, `CandidateStore` how
the code keeps it.

| Variable | In the code |
|---|---|
| `file[o]` | `<origin slug>.json` of an Orchestrator, or `Missing` |
| `legacy` | whether `<display host>.json`, written by a build before origins were told apart, exists |
| `lock[o]`, `claim` | `HostLock(origin, "candidate")` and the lock `candidate-legacy`, shared by the origins of one display host |
| `proc[s]` | a session: the step it is at, its command, `self.items` (`view`), `self.unadopted_legacy`; `blind`, a history: its last `_load` could not read a store that is there |
| `saved`, `applied` | history: the items each file ever held, and the items commits applied |
| `left` | what remains of the bounds |

| Actions | Code |
|---|---|
| `Start`, `Quit` | the constructor, whose `_load` is the session's first view; the end of a session |
| `Load`, in `Start` and `TakeLock` | `_load`: what the file holds, or, when reading it raises `OSError`, nothing (`candidate.py:455-456`) |
| `Ask`, `TakeLock`, `Save` | `set_path`, `set_desired`, `delete`, `drop`, `clear`, each one `_mutate`: lock, re-read, change, save, release |
| `SaveFails`, `Busy` | `_save` raises (no envelope key for a secret, no disk); `LockBusy` |
| `AskAdopt`, `TakeClaim`, `ReadLegacy`, `Unlink` | `adopt_legacy`: decided on the view, then both locks, the look at the old file, its items read, the file removed, and `Save` |
| `Commit`, `CommitSucceeds`, `CommitFails` | `commit_candidate`: it plans from the view; on success `clear_committed` acknowledges those items (`Ack`, a command like the others), otherwise nothing |
| `Crash` | a session dies between two file operations; its locks are free |

Abstractions. An item is its mode, the set of paths it sets and the set it
prunes: values and nesting are left out, and so is how often a path was pruned.
The intent of an item of the old build is one path, `Old`, that nobody stages
again, so that it can be followed. The file is replaced in one step (the code
writes a temporary file and renames it). A commit just succeeds or fails;
`CommitProtocol` says how. Corrupt and foreign files, which make their reader
refuse, are left out.

`StagingArea` is the mutation interface as one would wish it: what is staged, a
`pool` of old staging that belongs to nobody, and the command each session
waits for. A command takes effect in one step or fails; an adoption may also
lose the pool (`Lose`), and a session may go blind (`GoBlind`): its command then
takes effect on nothing instead of on what is staged. The refinement maps `staged` to the files (a missing
one is empty), `pool` to the old build's items while its file exists or an
adoption has taken it and not yet saved it, `asked` to the command between
being asked and answered, and `blind` to the sessions that hold the lock and
could not read the store under it.

| Run | Bounds | Shows |
|---|---|---|
| `Staging` | 2 sessions for one Orchestrator and 1 for another, 1 resource, 2 paths, 3 commands or commits, 1 death, 1 failed save, 1 read that fails | `TypeOK`; `KeepsStagingArea` (implements `StagingArea`); `NothingVanishes`; `LegacyGoesToOne` |

Two sessions of one Orchestrator are what a lost update takes, a third of
another Orchestrator competes for the old build's file, and three commands let
one session stage, commit, and find the item changed under it by the other.
Resources do not interact (a command changes one item, or all in the same way),
so that one is enough; the theorems hold for any number. Two paths distinguish
an item from what an edit made of it. Deadlock is checked: waiting for a lock
ends with `Busy`, and a session may always quit.

`NothingVanishes` does not count what a command was asked to do: an edit of
that resource, a discard, or an adoption of an old item for it. Nor does it
count what a session saves that could not read the store; without that
exception TLC finds it violated (the first finding below), and with it both
properties say that there is no other way for staged work to go unasked.

What was found:

* A store that is there and cannot be read is an empty view: `_load` returns on
  `OSError`. Under the lock the next save then replaces the file by that view
  and its own edit, and everything else that was staged is gone without an
  error. The comment three lines below (`candidate.py:458`) says of a corrupt
  store that it "must not silently read as empty", because then commit reports
  "no changes" and the next save overwrites the evidence; that is what happens
  here.
* `_mutate` changes the session's items and then saves. When
  the save raises, because a secret cannot be sealed, a shell goes on with the
  changed items, and its next commit applies them, though `vault.py:20-21` says
  that such a box refuses before anything lands on the fabric (TLC finds a
  state in which `applied` has an item that `saved` has not).
* A shell commits the view it read with its last command. What others have
  discarded or changed since is applied as it was; the acknowledgement compares
  items, so what they made of it stays staged.
* An adoption removes the old file before it saves its own, where the
  constructor's comment (`candidate.py:224`) has it the other way round. A
  death or a failed save in between loses the old staging: this is `Lose`.
* Whether there is old staging to adopt is decided on the view. If another
  session stages the same resource before the locks are taken, the old item
  takes its place. If it stages first, there is a store file, and the old
  staging is neither reported nor can it be adopted.

`CandidateStore_proofs` proves, for any number of sessions, Orchestrators,
resources, paths, commands, deaths, failed saves and unreadable stores: `TypeCorrect`;
`StoreImplementsArea` (`KeepsStagingArea`); `WorkIsKept` (`NothingVanishes`);
`OldStagingGoesToOne` (`LegacyGoesToOne`). The invariant `IInv` says who holds
which lock at each step (`LockInv`), which command is under way there
(`CmdInv`), that a view re-read under the lock is still what the file holds, or
is empty if it could not be read (`ViewInv`: the reason for re-reading inside the
lock), that an adoption finds
the file it is about to remove and nobody takes it first (`LegacyInv`), and
that what is being acknowledged was applied (`AckInv`). The step that saves
maps to `Perform`, because the view it changed is the store, or nothing in a
session that is blind; a read that fails under the lock maps to `GoBlind`, and
every other step stutters, asks or fails. For the old staging a second invariant, `OneInv`,
follows its path through views, commands and files.

Assumed: `CandidateStoreAssumption` and `StagedItemsAssumption`, which only say
that the kinds of values do not overlap and that every session has one
Orchestrator.

## KeyRotation

Secrets in candidate files and in the private files of journals are sealed
under an envelope key that is kept in the keyring. `KeyRotation` follows, for
every secret on disk, the key it is sealed under.

| Variable | In the code |
|---|---|
| `current`, `previous` | the keyring entries `envelope-key` and `envelope-key-previous`; `NoKey` if there is none |
| `made` | keys are numbered as they are made: each is new |
| `disk[f]` | the key of each secret in a candidate file (`Stores`) or a `private.jsonl` (`Journals`) |
| `lock[f]` | the candidate lock of a store; of a journal, the one commit that writes it |
| `proc[s]` | a session that saves or appends: its file, the secrets it will leave there, the key it found |
| `rot[p]` | a process that rotates: where it is, the key it read, the files still to read, those it passed over, the file read and its secrets still to be re-sealed |
| `wanted`, `exposed`, `stranded`, `crossed`, `ousted`, `lost`, `half` | history: the secrets writers left in each file; files written while a rotation ran; files passed over by a rotation that then deleted the previous key; rotations that were not alone; first keys that another first key replaced; keys a rotation that was not alone took off the keyring; keys kept by a rotation that then made no new one |
| `left` | what remains of the bounds on stagings and rotations |

| Actions | Code |
|---|---|
| `Stage`, `Snapshot` | a mutation has re-read its store under the lock (what does not open refuses) and has its new items; a commit has one secret-bearing snapshot to record |
| `FindKey`, `CreateKey` | `load_keys(create=True)`: look, and store a new key if there was none |
| `Write` | `_save` replaces the file; `record_snapshot` appends |
| `RotBegin`, `Look`, `KeepOld`, `NewKey` | `rotate_key` up to line 340, one access to the keyring each: the current key is read, the previous slot is looked at (a left-over entry means that only the walk is left), the key that was read is stored there, a new one is stored |
| `Read`, `PassOver` | a file is read without a lock, or cannot be, and the walk goes on (lines 348-349, 370-371) |
| `Reseal`, `Rewrite` | a secret of it is opened, and sealed under what is the current key by then; the file is replaced, a store under its lock |
| `WalkJournals`, `Forget` | the second half of the walk; the previous entry is deleted, and a failure to do so is ignored |
| `GiveUp`, `Interrupt`, `Refuse` | a process dies, has no keyring, no disk or no lock; a secret that does not open ends the rotation |

Abstractions. The secrets of one save are sealed under one key (the code looks
it up for each; a rotation's are looked up one by one in the model too). A file
is unreadable when the walk comes to it, not for good. With the key in the
environment there is no rotation. `rotate_key` takes no lock, and nothing else
keeps a second rotation from starting: any number of them run at once.

| Run | Bounds | Shows |
|---|---|---|
| `Rotation` | 1 store, 1 journal, 2 secrets in each, 2 sessions, 2 processes that rotate, 3 keys, 2 stagings or snapshots, 3 rotations; any number of deaths and unreadable files | `TypeOK`; `EveryBlobOpens`; `NothingIsLost`; `OldKeyRetired` |

Three keys are a first key, a second first key or a rotation, and another
rotation, beside or after it. Three rotations are two at once and a re-run. Two
secrets let a journal hold one sealed before a rotation was interrupted and one
sealed after. One file of each kind is walked in each way, and files do not
interact but through the keyring. Deadlock is not checked: the bounds run out.

The docstring promises that at every intermediate point "every blob still opens"
and that the previous key is deleted "only after every sealed blob on disk has
been rewritten" (`vault.py:306-310`). The code does not keep all of that. The
properties are what it does keep, with each exception named, and TLC finds them
violated when any one of the exceptions is taken out:

* A file that cannot be read, or parsed, is passed over, and then the previous
  key is deleted all the same (`vault.py:348`, `370`, `390`): what is in it
  never opens again (`stranded` in `EveryBlobOpens`).
* Two rotations at once. Each looks at the previous slot, copies the key
  it read there and stores a new one; the second to do so puts its own over the
  first one's, and the first to finish deletes a key the other still needs
  (`crossed`, `lost`). A rotation may also finish while another stands
  between its two writes, and delete the copy of a key that is still current
  (last disjunct of `OldKeyRetired`).
* The documentation asks for a quiet system only as far as commits go
  (`docs/secrets.md:88`), because stores are rewritten under their lock. But a
  store is read before the lock is taken (`vault.py:347`), so that a save in
  between is undone; and a save that looked its key up before the rotation may
  write after the walk has passed, under a key that is then deleted.
  `EveryBlobOpens` and `NothingIsLost` hold for the files no session writes
  while a rotation runs (`exposed` are the others).
* Two sessions that need the first key at the same time make one each; what the
  first one sealed does not open (`ousted`). The rotation then refuses, every
  time.
* A rotation that dies between keeping the old key and storing the new one
  leaves the old key in both entries. Its re-run finds a previous entry, walks,
  deletes it and reports success, and the key that was to be retired stays in
  use (`half` in `OldKeyRetired`).

`NothingIsLost` needs only the one exception for `exposed` files: neither what a
rotation could not read nor a second rotation takes a secret out of a file, even
where nothing is left that opens it.

`KeyRotation_proofs` proves for any number of files, secrets, sessions, keys
and rotations, one after another or at once: `TypeCorrect`; `SecretsOpen`
(`EveryBlobOpens`); `RotationKeepsAll` (`NothingIsLost`); `RotationRetires`
(`OldKeyRetired`). The invariant `IInv` adds to the properties what a session
holds and that its key still opens (`SessionInv`), that whoever writes during a
rotation is known to (`Overlap`) and so is a rotation that is not alone
(`Cross`), that keys in use were made (`Age`), which previous keys can still be
current (`RetireInv`), and that what any rotation has read has the secrets of
its file, under keys that open or are lost (`CopyInv`). The core is `SoleInv`, of
a rotation that is alone: from the moment the old key is read until the new one is
stored all secrets are under the old one, and afterwards the files the walk has
left behind are under the current one, but for those it passed over, which is
why the previous key can go. It was checked with TLC on the bounds of
`Rotation` first. `KeyRotationAssumption` only says that kinds of values do not
overlap.

## JobPoller

A write to the Orchestrator is done when somebody has seen that it is.
`JobPoller` is one apply and the revert after it, whatever became of the apply,
for the two kinds of write there are. An association of template groups is
answered 204; its push is looked for in the action log, where the pushes of
other operators are too. A configuration goes through the appliance proxy and
must then be saved; the save has a key, or its effect is read off the
inventory's `hasUnsavedChanges`.

| Variable | In the code |
|---|---|
| `clock`, `skew` | `time.time()` and `time.monotonic()`; by how much the Orchestrator's clock is ahead of that, any member of `Skews` |
| `sent`, `start`, `rec` | actions the Orchestrator has started, their `startTime`, the shape of each of their records, which the log shows late |
| `running`, `saved` | configuration writes on the appliance, and those that survive a reboot |
| `call` | the locals of `_push`, `_write`, the waits and `request`: where it is, attempts so far, `since_ms`, `deadline`, `ignore_guids`, whether there is a key |
| `result`, `settled` | the outcome of each write, and the action it was read from |
| `old`, `early`, `blind`, `landed`, `faults` | history: what the log showed before each write, and which of it the Orchestrator had stamped after our clock; what kept our own action out of sight when an outcome was taken, the log that had not yet shown all of it (`lag`) or its stamp, outside the window (`clock`); how often each write arrived; the bound on lost calls |

| Actions | Code |
|---|---|
| `Begin`, `ReadBefore`, `WriteConfig`, `Post` | `_push` and `policy_maps._write` with `save_changes` |
| `Settle`, `Refuse`, `PollAgain`, `PollTimesOut` | `wait_for_recent_action`, `wait_for_action` |
| `CheckSaved` | `_verify_persisted` |
| `ReadFails`, and the failing disjuncts of `Post` and `WriteConfig` | `OrchClient.request` under `effective_policy` |
| `Lists`, `Finishes`, `OtherActs`, `Tick` | the Orchestrator, its log, the others, time (external) |

A record's text is one of the shapes `_record_finished` and `_record_state`
tell apart, with or without the appliance's name. A 200 with an odd body, status
codes and the pauses between attempts are left out.

| Run | Bounds | Shows |
|---|---|---|
| `Pushing` | 1 other operator, 2 records for the apply and 1 for each other action, 1 retry, 1 lost call, 2 ticks with a timeout and a slack of 1, the clocks equal or the Orchestrator's 1 tick ahead | `TypeOK`; `ConfirmedIsTrue`; `LandsOnce`; `NeverThePast` |

One stranger is all it takes to be mistaken for, or to make two; two records let
the log show a part of a push; with a timeout of 1 in 2 ticks the revert runs
after the apply timed out, while the apply's push still finishes. One tick
ahead is enough to stamp a push after our clock; it is explored for associations,
whose stamps are read, and without lost calls. Nothing is explored after both
writes are over, where the system stops.

What the properties leave out; TLC finds them violated without any one of these:

* `ConfirmedIsTrue` exempts `lag`: the log had not shown all of our own
  records. The code states this risk (`wait_for_recent_action`); it covers both
  a lone stranger and the first finished record of several of our own.
* `ConfirmedIsTrue` exempts `clock` when the clocks disagree, the
  Orchestrator's ahead of ours or more than the slack behind. Our own push is
  listed but its stamp is outside the window, and what is alone in it is
  another's: with the clock ahead, a revert whose push failed is reported done
  on the push of the apply it should have undone.
* `NeverThePast` exempts `early`, what an Orchestrator whose clock is ahead had
  stamped after ours. `action_log_guids` asks for a window that ends at *our*
  time (`jobs.py:361`), so it does not see a push that started a moment ago by
  the other clock, and the next poll does: the revert settles on the apply's
  push. The docstring (`jobs.py:373-376`) says that the correlation "stops
  depending on clocks entirely" and that a guid that was there is not ours
  "whichever way the two clocks disagree"; with the clock ahead that is not so.

`JobPoller_proofs` proves for any other operators, records, lost calls, slack,
timeout and number of attempts, and any disagreement of the clocks:
`TypeCorrect`; `WritesLandOnce` (`LandsOnce`); `PastIsIgnored` (`NeverThePast`);
`OkIsTrue` (`ConfirmedIsTrue`). None of them assumes anything of the clocks: what
they may do wrong is in the properties. The invariant `IInv` says what the driver
relies on at each point (`DriverInv`: a write not yet posted is not known to the
Orchestrator, and nothing was settled for it), that only what started is listed
(`LogInv`), that for a configuration every action started is running and every
one whose records all finished well is saved (`ConfigInv`), when actions have
started by our clock as long as the clocks agree (`StartInv`), that
whatever the log showed before the write is left out by name, is too old for the
window, or was stamped after our clock (`IgnoreInv`), which is what makes
`NeverThePast` survive the steps between the read and the answer, and that such a
stamp takes an Orchestrator whose clock is ahead (`EarlyInv`).

## TemplateOwnership and GuardedCommit

A template push undoes what an operator changed by hand, so a commit asks twice
whether one would: when it plans, and again under the lock. `TemplateOwnership`
translates the verdict and what it is about (differences of two tables, staged
intents) into operators; `GuardedCommit` is one commit that uses them, from
`build_plan` to the write, while others change everything.

A table has fields keyed by priority and plain ones; a whole table may be
absent, and then its difference is one entry (`diffing._walk`). A kind may
inherit plain fields (the active map of a policy map), which do not make a table by
themselves.

| Variable | In the code |
|---|---|
| `live` | the table on each appliance |
| `assoc`, `selected`, `body` | associations of groups, groups that select the section, what it asserts in each |
| `cache` | template bodies in the resolver's cache, of any age |
| `kind` | what `SECTION_MAP` and the resource say: mapped, verified, known to the fabric, declared subtrees, inherited fields |
| `staged`, `flags` | the candidate's intents; `--rebase`, `--override-template` |
| `plan`, `fresh` | the `PlanItem`s of `build_plan` and those `_commit_locked` made from what it read again |
| `hole`, `moved`, `moves` | history: what the second verdict rests on besides the fabric; what changed since that read; the bound |

| Actions | Code |
|---|---|
| `Begin`, `BuildPlan`, `Guard` | `commit_candidate`, `build_plan` item by item, `_guard` |
| `Recheck`, `Decide` | the first loop of `_commit_locked` item by item; ownership abort, drift abort, no-op |
| `Write`, `Verify`, `Done`, `Revert`, `Reverted` | the apply loop and `_revert_items` |
| `Drift`, `Associate`, `Select`, `Edit`, `Expire` | other operators, template pushes, the cache's 300 seconds (external) |

Abstractions. The reads of one item in one check are one step, and at most one
of them fails. What becomes of a commit that dies is in `CommitProtocol`; a revert
here always succeeds. Verify may fail for no reason.

| Run | Bounds | Shows |
|---|---|---|
| `Guarding` | 1 appliance, 2 priorities and a plain field with 2 values, 2 groups, 4 intents, 4 kinds, 1 change by others | `TypeOK`; `WriteIsLocal`; `WriteIsAsked` |

Appliances do not interact but in the decision to abort, two groups are what
hides a second match, and one change can fall at every step. The commit starts
in any state of templates and cache.

`WriteIsLocal` says that without `--override-template` nothing is written that
an associated template asserts, unless it changed after the second check or the
verdict had one of five holes, each of which TLC shows to be needed:

* `rebased`: the second check is asked about the planned difference
  (`txn.py:567`), a rebase writes another.
* `coarse`: an entry without a priority, such as a table that comes or goes as a
  whole or the active map, counts as not governed (`ownership.py:495`), where the
  docstring requires positive evidence to narrow (`ownership.py:454`): deleting a
  table whose rules a template asserts is let through.
* `second`: only the first group that selects the section is asked for its
  priorities (`_matched_section`); a second one is not.
* `cached`: the bodies are as old as the cache, though the second check is there
  because a plan-time answer is about a moment that has passed.
* `vocabulary`: when the names the fabric knows cannot be read, a verified name
  is believed, and a name that went stale matches nothing (`_unknown_names`).

`WriteIsAsked` says that nothing is changed that was not asked for, whatever
others do up to the second read: the plan as shown, or, with `--rebase`, the
fields the staged intent mentions.

Also seen: after a commit that succeeds everything staged is acknowledged
(`Acknowledge`), also an item that was no change at plan time and has drifted
since; its intent is gone unmet.

`GuardedCommit_proofs` proves for any appliances, fields, values, intents,
templates, associations and kinds, and any number of changes by others:
`TypeCorrect`; `LocalWrites` (`WriteIsLocal`); `AskedWrites` (`WriteIsAsked`).
Three lemmas about the operators carry it. `ChangedByEntries`: what two tables
differ in can be told from the entries of their difference, so that equal entries
(the drift abort's test) mean equal changes. `MaterializeIsAsked`: an intent
changes what it mentions. `VerdictIsSound`: whatever read fails, a verdict that
lets a change through is right about the fabric it was read from, unless it has
one of the five holes. The invariant `IInv` takes them from the second check to
the write: what is to be written is the plan's or the rebased intent's
(`WantedInv`), what was checked is still so unless it moved (`CheckedInv`), and
nothing is written past a block or a drift (`PassedInv`). Assumed are only that
tables, values and paths are told apart, and that a kind which declares what its
template governs declares all of it (`GuardedCommitAssumption`), as spec 004
asks of those that do.

## Not modelled

* `reports/`, `cli/render.py`, completion: queries and rendering without state.
* Most of `resources/`: each translates between one endpoint and the canonical
  model; the engine's models use the contract they share.
* `apply --from`: every kind refuses to be materialized from a declaration
  (`contract.materialize_declared`), so it never gets to a write.
* `config.py`, `runtime.py`, `redaction.py`, `audit.py`, `evidence.py`,
  `specs.py`: lookups, masking and export.
* Corrupt, foreign and migrated files of every store; the secret in the
  environment; platforms without `flock`.
* The vendored SDK, `contrib/`, examples, tools and generated code.
