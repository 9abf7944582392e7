------------------------------ MODULE HostLock ------------------------------
(***************************************************************************)
(* The advisory lock of one Orchestrator and one scope, on the flock path  *)
(* (src/src/pyecsdwan/locking.py).  Processes of the present build hold    *)
(* the lock through HostLock objects that nest by a process-wide table;    *)
(* while a lock file of a build before #63 exists they hold that one too.  *)
(* Processes of the old build, which survive an upgrade, know only the old *)
(* file.  The kernel drops a lock when its holder dies.                    *)
(*                                                                         *)
(* The owner record is the process that wrote it; errors of the disk while *)
(* writing it (which the code ignores) are left out, and so is the         *)
(* exclusive-create fallback for platforms the program does not support.   *)
(***************************************************************************)
EXTENDS Naturals, FiniteSets

CONSTANTS
  Procs,          \* processes of the present build
  OldProcs,       \* processes of a build before #63
  Objs,           \* HostLock objects of a process
  Probe,          \* the object active_locks probes a file with
  NoObj,          \* no object in use
  NoProc,         \* holder of a free lock, writer of an empty record
  LegacyAtStart,  \* whether the old build ever took the lock before
  MaxNest,        \* bound: acquisitions of one object at a time
  MaxCrashes      \* bound: processes that die

Own      == "own"       \* <origin slug>.<scope>.lock
Legacy   == "legacy"    \* <display host>.<scope>.lock
Files    == {Own, Legacy}
Everyone == Procs \cup OldProcs

ASSUME HostLockAssumption ==
  /\ Procs \cap OldProcs = {}
  /\ NoProc \notin Everyone
  /\ Probe \notin Objs /\ NoObj \notin Objs \cup {Probe}
  /\ LegacyAtStart \in BOOLEAN
  /\ MaxNest \in Nat \ {0} /\ MaxCrashes \in Nat

VARIABLES
  kernel,     \* whose open descriptor holds the flock on each file
  record,     \* who wrote the owner record in each file
  legacyFile, \* whether the old file exists
  depth,      \* _HELD of each process: depth per file, 0 when not in the table
  mine,       \* _mine of each object
  barriers,   \* length of _barriers of each object
  op          \* what each process is doing with a lock

vars == <<kernel, record, legacyFile, depth, mine, barriers, op>>

-----------------------------------------------------------------------------
(* A process is in one call at a time.  at: idle between two calls; take,  *)
(* waiting in _acquire_own; wipe and write, in _write_owner; erase and     *)
(* unlock, in _release_own; pop, before the barrier of the released object *)
(* is.  barrier: this acquisition already holds the old name.              *)

Steps == {"idle", "take", "wipe", "write", "erase", "unlock", "pop", "dead"}

Calls == [at : Steps, file : Files, obj : Objs \cup {Probe, NoObj},
          barrier : BOOLEAN]

Call(at, f, o, b) == [at |-> at, file |-> f, obj |-> o, barrier |-> b]
Idle == Call("idle", Own, NoObj, FALSE)

\* The file a process of each build locks.
Path(p) == IF p \in OldProcs THEN Legacy ELSE Own

Goto(p, at) == op' = [op EXCEPT ![p].at = at]
At(p, at)   == op[p].at = at

\* p is inside a section it locked (HostLock.held, a probe apart).
Probing(p) == op[p].obj = Probe
Inside(p)  == depth[p][Path(p)] > 0 /\ ~Probing(p)

Init ==
  /\ kernel = [f \in Files |-> NoProc]
  /\ record = [f \in Files |-> NoProc]
  /\ legacyFile = LegacyAtStart
  /\ depth = [p \in Everyone |-> [f \in Files |-> 0]]
  /\ mine = [p \in Everyone |-> [o \in Objs |-> 0]]
  /\ barriers = [p \in Everyone |-> [o \in Objs |-> 0]]
  /\ op = [p \in Everyone |-> Idle]

-----------------------------------------------------------------------------
(* Acquiring.                                                              *)

Acquire_OwnOnly(p, o) ==   \* mutant: the old file is not locked
  /\ At(p, "idle") /\ mine[p][o] < MaxNest
  /\ op' = [op EXCEPT ![p] = Call("take", Path(p), o, FALSE)]
  /\ UNCHANGED <<kernel, record, legacyFile, depth, mine, barriers>>

\* The old name first, then the new one.
Acquire(p, o) ==
  /\ At(p, "idle") /\ mine[p][o] < MaxNest
  /\ op' = [op EXCEPT ![p] =
       Call("take", IF legacyFile THEN Legacy ELSE Path(p), o, FALSE)]
  /\ UNCHANGED <<kernel, record, legacyFile, depth, mine, barriers>>

\* The process has the file it waited for: what it does next.
Proceed(p) ==
  LET o == op[p].obj
      f == op[p].file
  IN  op' = [op EXCEPT ![p] =
        IF f # Path(p)
          THEN Call("take", Path(p), o, TRUE)
          ELSE Idle]

\* What an acquisition of f through o adds to the object's own counters.
Count(p, o, f) ==
  IF f # Path(p)
    THEN /\ barriers' = [barriers EXCEPT ![p][o] = @ + 1]
         /\ UNCHANGED mine
    ELSE /\ mine' = [mine EXCEPT ![p][o] = @ + 1]
         /\ UNCHANGED barriers

\* Already held by this process, through whichever object: nest.
Nest(p) ==
  LET f == op[p].file
  IN  /\ At(p, "take") /\ depth[p][f] > 0
      /\ depth' = [depth EXCEPT ![p][f] = @ + 1]
      /\ Count(p, op[p].obj, f)
      /\ Proceed(p)
      /\ UNCHANGED <<kernel, record, legacyFile>>

\* flock succeeds; opening the file created it.
TakeLock(p) ==
  LET f == op[p].file
  IN  /\ At(p, "take") /\ depth[p][f] = 0 /\ kernel[f] = NoProc
      /\ kernel' = [kernel EXCEPT ![f] = p]
      /\ depth' = [depth EXCEPT ![p][f] = 1]
      /\ legacyFile' = (legacyFile \/ f = Legacy)
      /\ Goto(p, "wipe")
      /\ UNCHANGED <<record, mine, barriers>>

Wipe(p) ==
  /\ At(p, "wipe")
  /\ record' = [record EXCEPT ![op[p].file] = NoProc]
  /\ Goto(p, "write")
  /\ UNCHANGED <<kernel, legacyFile, depth, mine, barriers>>

\* The record is written and acquire returns, or goes on to the new name; a
\* probe releases at once.
Write(p) ==
  /\ At(p, "write")
  /\ record' = [record EXCEPT ![op[p].file] = p]
  /\ \/ /\ Probing(p)
        /\ depth' = [depth EXCEPT ![p][op[p].file] = 0]
        /\ Goto(p, "erase")
        /\ UNCHANGED <<mine, barriers>>
     \/ /\ ~Probing(p)
        /\ Count(p, op[p].obj, op[p].file)
        /\ Proceed(p)
        /\ UNCHANGED depth
  /\ UNCHANGED <<kernel, legacyFile>>

\* The lock stays taken until the timeout: LockBusy.  A barrier taken on the
\* way is released again.
GiveUp(p) ==
  LET f == op[p].file
      o == op[p].obj
  IN  /\ At(p, "take") /\ depth[p][f] = 0 /\ kernel[f] # NoProc
      /\ op' = [op EXCEPT ![p] =
                  IF @.barrier THEN Call("pop", Legacy, o, FALSE) ELSE Idle]
      /\ UNCHANGED <<kernel, record, legacyFile, depth, mine, barriers>>

-----------------------------------------------------------------------------
(* Releasing.                                                              *)

\* After its own file, an object releases the barrier it pushed last.
AfterOwn(p, o) == IF o \in Objs /\ barriers[p][o] > 0
                    THEN Call("pop", Legacy, o, FALSE) ELSE Idle

\* One acquisition of f less, if the process has the file in its table at all;
\* whether it was the last one.
Last(p, f) == depth[p][f] = 1
Drop(p, f) ==
  depth' = [depth EXCEPT ![p][f] = IF @ = 0 THEN 0 ELSE @ - 1]

Release_AnyObject(p, o) ==   \* mutant: _mine is not looked at
  LET f == Path(p)
  IN  /\ At(p, "idle") /\ depth[p][f] > 0
      /\ mine' = [mine EXCEPT ![p][o] = IF @ > 0 THEN @ - 1 ELSE 0]
      /\ Drop(p, f)
      /\ op' = [op EXCEPT ![p] =
                  IF Last(p, f)
                    THEN Call("erase", f, o, FALSE)
                    ELSE AfterOwn(p, o)]
      /\ UNCHANGED <<kernel, record, legacyFile, barriers>>

\* release() through an object that holds nothing changes nothing of the lock.
Release(p, o) ==
  LET f == Path(p)
  IN  /\ At(p, "idle")
      /\ \/ /\ mine[p][o] = 0
            /\ op' = [op EXCEPT ![p] = AfterOwn(p, o)]
            /\ UNCHANGED <<mine, depth>>
         \/ /\ mine[p][o] > 0
            /\ mine' = [mine EXCEPT ![p][o] = @ - 1]
            /\ Drop(p, f)
            /\ op' = [op EXCEPT ![p] =
                        IF Last(p, f)
                          THEN Call("erase", f, o, FALSE)
                          ELSE AfterOwn(p, o)]
      /\ UNCHANGED <<kernel, record, legacyFile, barriers>>

Pop_EveryBarrier(p) ==   \* mutant: the counter goes down twice
  LET o == op[p].obj
  IN  /\ At(p, "pop")
      /\ barriers' = [barriers EXCEPT ![p][o] = @ - 2]
      /\ Drop(p, Legacy)
      /\ op' = [op EXCEPT ![p] = Idle]
      /\ UNCHANGED <<kernel, record, legacyFile, mine>>

Pop(p) ==
  LET o == op[p].obj
  IN  /\ At(p, "pop")
      /\ barriers' = [barriers EXCEPT ![p][o] = @ - 1]
      /\ Drop(p, Legacy)
      /\ op' = [op EXCEPT ![p] =
                  IF Last(p, Legacy)
                    THEN Call("erase", Legacy, o, FALSE)
                    ELSE Idle]
      /\ UNCHANGED <<kernel, record, legacyFile, mine>>

Erase_Skipped(p) ==   \* mutant: the record outlives the lock
  /\ At(p, "erase")
  /\ Goto(p, "unlock")
  /\ UNCHANGED <<kernel, record, legacyFile, depth, mine, barriers>>

Erase(p) ==
  /\ At(p, "erase")
  /\ record' = [record EXCEPT ![op[p].file] = NoProc]
  /\ Goto(p, "unlock")
  /\ UNCHANGED <<kernel, legacyFile, depth, mine, barriers>>

Unlock_ThenErase(p) ==   \* mutant: the record is erased after the unlock
  LET f == op[p].file
  IN  \/ /\ At(p, "erase")
         /\ kernel' = [kernel EXCEPT ![f] = NoProc]
         /\ Goto(p, "unlock")
         /\ UNCHANGED <<record, legacyFile, depth, mine, barriers>>
      \/ /\ At(p, "unlock")
         /\ record' = [record EXCEPT ![f] = NoProc]
         /\ op' = [op EXCEPT ![p] =
                     IF f = Path(p) THEN AfterOwn(p, @.obj) ELSE Idle]
         /\ UNCHANGED <<kernel, legacyFile, depth, mine, barriers>>

Unlock(p) ==
  LET f == op[p].file
  IN  /\ At(p, "unlock")
      /\ kernel' = [kernel EXCEPT ![f] = NoProc]
      /\ op' = [op EXCEPT ![p] = IF f = Path(p) THEN AfterOwn(p, @.obj) ELSE Idle]
      /\ UNCHANGED <<record, legacyFile, depth, mine, barriers>>

-----------------------------------------------------------------------------
(* show locks, and death.                                                  *)

\* active_locks tries every file it does not hold itself, without waiting and
\* without a barrier; Write turns the acquisition into a release.
ProbeFile(p, f) ==
  /\ At(p, "idle") /\ depth[p][f] = 0 /\ kernel[f] = NoProc
  /\ f = Legacy => legacyFile
  /\ kernel' = [kernel EXCEPT ![f] = p]
  /\ depth' = [depth EXCEPT ![p][f] = 1]
  /\ op' = [op EXCEPT ![p] = Call("wipe", f, Probe, FALSE)]
  /\ UNCHANGED <<record, legacyFile, mine, barriers>>

\* The kernel closes the descriptors of a dead process; what it wrote stays.
Crash(p) ==
  /\ ~At(p, "dead")
  /\ Cardinality({q \in Everyone : At(q, "dead")}) < MaxCrashes
  /\ kernel' = [f \in Files |-> IF kernel[f] = p THEN NoProc ELSE kernel[f]]
  /\ depth' = [depth EXCEPT ![p] = [f \in Files |-> 0]]
  /\ mine' = [mine EXCEPT ![p] = [o \in Objs |-> 0]]
  /\ barriers' = [barriers EXCEPT ![p] = [o \in Objs |-> 0]]
  /\ op' = [op EXCEPT ![p] = Call("dead", Own, NoObj, FALSE)]
  /\ UNCHANGED <<record, legacyFile>>

Next ==
  \E p \in Everyone :
    \/ \E o \in Objs : Acquire(p, o) \/ Release(p, o)
    \/ Nest(p) \/ TakeLock(p) \/ Wipe(p) \/ Write(p) \/ GiveUp(p)
    \/ Pop(p) \/ Erase(p) \/ Unlock(p)
    \/ \E f \in Files : ProbeFile(p, f)
    \/ Crash(p)

Spec == Init /\ [][Next]_vars

-----------------------------------------------------------------------------
(* Properties.                                                             *)

Alive(p) == ~At(p, "dead")

\* Type correctness of the lock files, the process tables and the objects.
TypeOK ==
  /\ kernel \in [Files -> Everyone \cup {NoProc}]
  /\ record \in [Files -> Everyone \cup {NoProc}]
  /\ legacyFile \in BOOLEAN
  /\ depth \in [Everyone -> [Files -> Nat]]
  /\ mine \in [Everyone -> [Objs -> Nat]]
  /\ barriers \in [Everyone -> [Objs -> Nat]]
  /\ op \in [Everyone -> Calls]

\* While any object of a process has an acquisition that was not released,
\* the kernel lock is the process's, whichever of its objects took it and
\* whichever release() ran in between (locking.py 258-260, 334-347).
NotDroppedUnder ==
  \A p \in Everyone, o \in Objs : mine[p][o] > 0 => kernel[Path(p)] = p

\* At most one process is inside the locked section, the processes of the old
\* build included (locking.py 263-309; docs/ROADMAP.md 146-148).
OneInside == \A p, q \in Everyone : Inside(p) /\ Inside(q) => p = q

\* An owner record that names a live process tells the truth: this is how
\* _driven_now (journal.py 692) knows that a commit is still running.
LiveRecordIsTrue ==
  \A f \in Files : record[f] \in Everyone /\ Alive(record[f])
                    => kernel[f] = record[f]

\* A process inside the section is named by the record, nobody erased it: an
\* orphan scan that saw it would not offer its transaction for recovery.
InsideIsRecorded ==
  \A p \in Everyone : Inside(p) /\ At(p, "idle") => record[Path(p)] = p

=============================================================================
