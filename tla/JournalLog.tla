----------------------------- MODULE JournalLog -----------------------------
(***************************************************************************)
(* The files of one transaction as bytes that a dying process leaves half  *)
(* written (src/src/pyecsdwan/journal.py): events.jsonl, private.jsonl and *)
(* meta.json, with every process that appends to them.  The commit, a      *)
(* confirm and a restore append under the host lock; the watchdog appends  *)
(* its own records without it.                                             *)
(*                                                                         *)
(* Two records by one process with nothing between them that another can   *)
(* see are one when nobody reads them; the record is then NOTE.  Time, the *)
(* decision claim and pruning are those of CommitProtocol; here a deadline *)
(* may have passed whenever there is one, and a claim, which only narrows  *)
(* who goes on, is left out.                                               *)
(***************************************************************************)
EXTENDS Naturals, Sequences, FiniteSets

CONSTANTS
  Refs,        \* resources the transaction changes
  Clis,        \* processes of operators who confirm or recover
  Windows,     \* whether commits open a confirm window
  MaxCrashes,  \* bound: processes that die
  MaxTears     \* bound: those that die in the middle of a write

Com    == "commit"
Wd     == "watchdog"
Actors == Clis \cup {Com, Wd}
NoOne  == "nobody"

\* After two torn writes a stale cut may fall inside a record of another
\* length; lengths are not modelled, so writers that overlap get one.
ASSUME LogAssumption ==
  /\ Windows \in BOOLEAN
  /\ MaxCrashes \in Nat /\ MaxTears \in Nat /\ (Windows => MaxTears <= 1)
  /\ Clis \cap {Com, Wd, NoOne} = {}

VARIABLES
  lines,    \* the lines of events.jsonl that end in a newline
  tail,     \* what follows the last newline
  body,     \* resources with a record in private.jsonl
  state,    \* meta.json: the state
  marker,   \* confirm.marker exists
  touched,  \* resources a write of this transaction may have changed
  lock,     \* who holds the host lock
  proc,     \* program counter and local variables of each process
  crashes,  \* processes that died
  tears     \* of these, in the middle of a write

disk == <<lines, tail>>
vars == <<lines, tail, body, state, marker, touched, lock, proc, crashes, tears>>

-----------------------------------------------------------------------------
(* Records.                                                                *)

Terminal == {"CONFIRMED", "REVERTED", "REVERT_FAILED", "AUDIT_ONLY"}
States   == Terminal \cup {"PENDING", "APPLYING", "APPLIED_UNCONFIRMED", "REVERTING"}

Snapshot(r)   == [event |-> "SNAPSHOT", ref |-> r]
ApplyStart(r) == [event |-> "APPLY_START", ref |-> r]
StateIs(s)    == [event |-> "STATE", state |-> s]
Note          == [event |-> "NOTE"]
Junk          == [event |-> "JUNK"]      \* a line that is not valid JSON

Records == {Snapshot(r) : r \in Refs} \cup {ApplyStart(r) : r \in Refs}
             \cup {StateIs(s) : s \in States} \cup {Note}

\* An unterminated record is complete but for its newline, or it is torn.
Torn   == [event |-> "TORN"]
NoTail == [event |-> "NONE"]

Logged(rec) == \E i \in DOMAIN lines : lines[i] = rec
Hole        == Logged(Junk)
NoHole      == ~Hole

\* What events(strict=True) refuses to read.
Malformed == Hole \/ tail = Torn

\* Readers take a last line without its newline.
Read(rec)   == Logged(rec) \/ tail = rec
Applied     == {r \in Refs : Read(ApplyStart(r))}
Restorable  == {r \in Refs : Read(Snapshot(r)) /\ r \in body}

-----------------------------------------------------------------------------
(* Processes.  A process that appends is at one of the steps of append();  *)
(* otherwise it is ready for what its program counter says.                *)

Steps == {"ready", "look", "mend", "report", "write"}

Pcs == {"idle", "snapshot", "event", "apply", "write", "arm", "armwait",
        "undo", "read", "restore", "queued", "plan", "confirm", "settle",
        "refused", "finish", "none", "spawned", "watch", "ended"}

Procs ==
  [pc   : Pcs,
   step : Steps,
   rec  : Records,             \* the record being appended
   cut  : Nat,                 \* where the tail it read began, in lines
   seen : Records \cup {Torn, NoTail},
   item : SUBSET Refs,         \* the resource at hand
   rest : SUBSET Refs,         \* resources still to do
   done : SUBSET Refs,         \* resources the commit applied
   snaps : SUBSET Refs,        \* resources whose snapshot a restore has read
   bad  : BOOLEAN]             \* a resource could not be restored

Fresh(pc) == [pc |-> pc, step |-> "ready", rec |-> Note, cut |-> 0,
              seen |-> NoTail, item |-> {}, rest |-> {}, done |-> {}, snaps |-> {},
              bad |-> FALSE]

At(a, pc) == proc[a].pc = pc /\ proc[a].step = "ready"

\* The process that is to append rec, and then to be at pc.
Appending(p, rec, pc) == [p EXCEPT !.step = "look", !.rec = rec, !.pc = pc]

Becomes(a, p)    == proc' = [proc EXCEPT ![a] = p]
Says(a, rec, pc) == Becomes(a, Appending(proc[a], rec, pc))
Goto(a, pc)      == Becomes(a, [proc[a] EXCEPT !.pc = pc])

SetState_EventOnly(a, s, pc) ==   \* mutant: meta.json is not rewritten
  state' = state /\ Says(a, StateIs(s), pc)

\* set_state: meta.json is replaced, then the record is appended.
SetState(a, s, pc) == state' = s /\ Says(a, StateIs(s), pc)

Ended(a) == Fresh(IF a \in Clis THEN "idle" ELSE "ended")

\* The commit has created the directory and meta.json; TXN_BEGIN comes next.
Init ==
  /\ lines = <<>> /\ tail = NoTail /\ body = {}
  /\ state = "PENDING" /\ marker = FALSE /\ touched = {}
  /\ lock = Com
  /\ proc = [a \in Actors |->
       IF a = Com THEN Appending([Fresh("none") EXCEPT !.rest = Refs], Note, "snapshot")
       ELSE Fresh(IF a = Wd THEN "none" ELSE "idle")]
  /\ crashes = 0 /\ tears = 0

-----------------------------------------------------------------------------
(* append(): the tail is read, mended, and reported; then the record is    *)
(* written.  Each of these is one operation on the file.                   *)

Look_Blind(a) ==   \* mutant: the tail is not looked at
  /\ proc[a].step = "look"
  /\ Becomes(a, [proc[a] EXCEPT !.step = "write"])
  /\ UNCHANGED <<disk, body, state, marker, touched, lock, crashes, tears>>

Look(a) ==
  /\ proc[a].step = "look"
  /\ \/ tail = NoTail
        /\ Becomes(a, [proc[a] EXCEPT !.step = "write"])
     \/ tail # NoTail
        /\ Becomes(a, [proc[a] EXCEPT !.step = "mend", !.cut = Len(lines), !.seen = tail])
  /\ UNCHANGED <<disk, body, state, marker, touched, lock, crashes, tears>>

\* A line completed with what stands before it.
Completed(before, rec) == IF before = NoTail THEN rec ELSE Junk

Mend_Discards(a) ==   \* mutant: a whole record is discarded with the torn ones
  /\ proc[a].step = "mend"
  /\ lines' = SubSeq(lines, 1, proc[a].cut) /\ tail' = NoTail
  /\ Becomes(a, [proc[a] EXCEPT !.step = "report", !.cut = 0, !.seen = NoTail])
  /\ UNCHANGED <<body, state, marker, touched, lock, crashes, tears>>

\* A torn tail is cut off where it began; a whole record gets its newline, at
\* the end of whatever the file is by then.
Mend(a) ==
  /\ proc[a].step = "mend"
  /\ \/ /\ proc[a].seen = Torn
        /\ lines' = SubSeq(lines, 1, proc[a].cut)
     \/ /\ proc[a].seen # Torn
        /\ lines' = CASE tail = NoTail -> lines
                      [] tail = Torn   -> Append(lines, Junk)
                      [] OTHER         -> Append(lines, tail)
  /\ tail' = NoTail
  /\ Becomes(a, [proc[a] EXCEPT !.step = "report", !.cut = 0, !.seen = NoTail])
  /\ UNCHANGED <<body, state, marker, touched, lock, crashes, tears>>

Put(rec) == /\ lines' = Append(lines, Completed(tail, rec))
            /\ tail' = NoTail

Report(a) ==
  /\ proc[a].step = "report"
  /\ Put(Note)
  /\ Becomes(a, [proc[a] EXCEPT !.step = "write"])
  /\ UNCHANGED <<body, state, marker, touched, lock, crashes, tears>>

Write(a) ==
  /\ proc[a].step = "write"
  /\ Put(proc[a].rec)
  /\ Becomes(a, [proc[a] EXCEPT !.step = "ready", !.rec = Note])
  /\ UNCHANGED <<body, state, marker, touched, lock, crashes, tears>>

-----------------------------------------------------------------------------
(* The commit.                                                             *)

SnapshotBody_Later(a) ==   \* mutant: the event is written before the body
  /\ At(a, "snapshot")
  /\ \E r \in proc[a].rest :
       Becomes(a, Appending([proc[a] EXCEPT !.item = {r}], Snapshot(r), "event"))
  /\ UNCHANGED <<disk, body, state, marker, touched, lock, crashes, tears>>

\* The body goes to private.jsonl, then the event.
SnapshotBody(a) ==
  /\ At(a, "snapshot")
  /\ \E r \in proc[a].rest :
       /\ body' = body \cup {r}
       /\ Becomes(a, [proc[a] EXCEPT !.pc = "event", !.item = {r}])
  /\ UNCHANGED <<disk, state, marker, touched, lock, crashes, tears>>

SnapshotEvent(a) ==
  /\ At(a, "event")
  /\ \E r \in proc[a].item :
       Becomes(a, Appending([proc[a] EXCEPT !.item = {}, !.rest = @ \ {r}],
                            Snapshot(r), "snapshot"))
  /\ UNCHANGED <<disk, body, state, marker, touched, lock, crashes, tears>>

\* Drift, ownership or nothing to do; or a resource could not be read and the
\* commit leaves the journal PENDING.
CloseUnapplied(a) ==
  /\ At(a, "snapshot")
  /\ \/ /\ proc[a].rest = {}
        /\ SetState(a, "AUDIT_ONLY", "finish")
     \/ /\ proc[a].rest # {}
        /\ Goto(a, "finish")
        /\ UNCHANGED state
  /\ UNCHANGED <<disk, body, marker, touched, lock, crashes, tears>>

StartApplying(a) ==
  /\ At(a, "snapshot") /\ proc[a].rest = {}
  /\ state' = "APPLYING"
  /\ Becomes(a, Appending([proc[a] EXCEPT !.rest = Refs], StateIs("APPLYING"), "apply"))
  /\ UNCHANGED <<disk, body, marker, touched, lock, crashes, tears>>

StartApply_Early(a) ==   \* mutant: the write is under way before its record is
  /\ At(a, "apply")
  /\ \E r \in proc[a].rest :
       /\ touched' = touched \cup {r}
       /\ Becomes(a, Appending([proc[a] EXCEPT !.item = {r}, !.rest = @ \ {r}],
                               ApplyStart(r), "write"))
  /\ UNCHANGED <<disk, body, state, marker, lock, crashes, tears>>

StartApply(a) ==
  /\ At(a, "apply")
  /\ \E r \in proc[a].rest :
       Becomes(a, Appending([proc[a] EXCEPT !.item = {r}, !.rest = @ \ {r}],
                            ApplyStart(r), "write"))
  /\ UNCHANGED <<disk, body, state, marker, touched, lock, crashes, tears>>

\* The write lands and is verified, or it fails, perhaps having landed; a
\* failed commit restores what it applied and the resource that failed.
ApplyEnds(a) ==
  /\ At(a, "write")
  /\ touched' \in {touched, touched \cup proc[a].item}
  /\ \E pc \in {"apply", "undo"} :
       /\ pc = "apply" => proc[a].item \subseteq touched'
       /\ Becomes(a, Appending([proc[a] EXCEPT !.item = {}, !.done = @ \cup proc[a].item],
                               Note, pc))
  /\ UNCHANGED <<disk, body, state, marker, lock, crashes, tears>>

Committed(a) ==
  /\ At(a, "apply") /\ proc[a].rest = {}
  /\ \/ SetState(a, "CONFIRMED", "finish")
     \/ Windows /\ SetState(a, "APPLIED_UNCONFIRMED", "arm")
  /\ UNCHANGED <<disk, body, marker, touched, lock, crashes, tears>>

SpawnWatchdog(a) ==
  /\ At(a, "arm")
  /\ proc' = [proc EXCEPT ![a].pc = "armwait", ![Wd].pc = "spawned"]
  /\ UNCHANGED <<disk, body, state, marker, touched, lock, crashes, tears>>

\* The commit waits for the pid file; if it does not come, it restores.
ArmEnds(a) ==
  /\ At(a, "armwait")
  /\ \/ proc[Wd].pc # "spawned" /\ Goto(a, "finish")
     \/ Goto(a, "undo")
  /\ UNCHANGED <<disk, body, state, marker, touched, lock, crashes, tears>>

-----------------------------------------------------------------------------
(* Restoring: by the commit that failed, by the watchdog, by an operator.  *)

\* What snapshots() refuses to read.
Unreadable == Malformed \/ \E r \in Refs : Read(Snapshot(r)) /\ r \notin body

\* A recovery has read the snapshots before it calls itself REVERTING; a
\* failed commit has not.
Undo(a) ==
  /\ At(a, "undo")
  /\ \/ /\ a # Com /\ Unreadable
        /\ Goto(a, "refused")
        /\ UNCHANGED state
     \/ /\ a = Com \/ ~Unreadable
        /\ state' = "REVERTING"
        /\ Becomes(a, Appending(
             [proc[a] EXCEPT !.rest = IF a = Com THEN proc[a].done ELSE @, !.done = {}],
             StateIs("REVERTING"), "read"))
  /\ UNCHANGED <<disk, body, marker, touched, lock, crashes, tears>>

ReadSnapshots(a) ==
  /\ At(a, "read")
  /\ Becomes(a, [proc[a] EXCEPT !.pc = IF Unreadable THEN "refused" ELSE "restore",
                                !.snaps = {r \in Refs : Read(Snapshot(r))}])
  /\ UNCHANGED <<disk, body, state, marker, touched, lock, crashes, tears>>

\* A resource without a snapshot is left as it is; a restore may fail.
Restore(a) ==
  /\ At(a, "restore")
  /\ \E r \in proc[a].rest, ok \in BOOLEAN :
       /\ ok => r \in proc[a].snaps
       /\ touched' = IF ok THEN touched \ {r} ELSE touched
       /\ Becomes(a, Appending([proc[a] EXCEPT !.rest = @ \ {r}, !.bad = @ \/ ~ok],
                               Note, "restore"))
  /\ UNCHANGED <<disk, body, state, marker, lock, crashes, tears>>

RestoreDone_Failed(a) ==   \* mutant: the state of a commit that wrote nothing
  /\ At(a, "restore") /\ proc[a].rest = {}
  /\ SetState(a, IF proc[a].bad THEN "FAILED" ELSE "REVERTED", "finish")
  /\ UNCHANGED <<disk, body, marker, touched, lock, crashes, tears>>

RestoreDone(a) ==
  /\ At(a, "restore") /\ proc[a].rest = {}
  /\ SetState(a, IF proc[a].bad THEN "REVERT_FAILED" ELSE "REVERTED", "finish")
  /\ UNCHANGED <<disk, body, marker, touched, lock, crashes, tears>>

\* JournalCorrupt: the section is left; the watchdog notes it down afterwards.
Refuse(a) ==
  /\ At(a, "refused")
  /\ lock' = NoOne
  /\ Becomes(a, IF a = Wd THEN Appending(proc[a], Note, "finish") ELSE Ended(a))
  /\ UNCHANGED <<disk, body, state, marker, touched, crashes, tears>>

\* The process leaves the locked section, if it is in it, and ends.
Finish(a) ==
  /\ At(a, "finish")
  /\ lock' = IF lock = a THEN NoOne ELSE lock
  /\ Becomes(a, Ended(a))
  /\ UNCHANGED <<disk, body, state, marker, touched, crashes, tears>>

-----------------------------------------------------------------------------
(* rollback --pending, and the locked half of the watchdog's revert.  A    *)
(* watchdog that is alive but late stands in nobody's way.                 *)

Offered == state \notin Terminal /\ ~marker /\ lock = NoOne

ScanOrphans(c) ==
  /\ At(c, "idle") /\ Offered
  /\ Goto(c, "queued")
  /\ UNCHANGED <<disk, body, state, marker, touched, lock, crashes, tears>>

\* Locked, and the state read again.
RecoverEnters(a) ==
  /\ At(a, "queued") /\ lock = NoOne
  /\ state \notin Terminal /\ ~marker
  /\ lock' = a
  /\ Goto(a, "plan")
  /\ UNCHANGED <<disk, body, state, marker, touched, crashes, tears>>

\* The lock stays taken, or a blocker stands in the way.  The watchdog notes
\* down that it could not have the lock.
GiveUp(a) ==
  /\ At(a, "queued")
  /\ \/ Becomes(a, Ended(a))
     \/ a = Wd /\ Says(a, Note, "finish")
  /\ UNCHANGED <<disk, body, state, marker, touched, lock, crashes, tears>>

Plan(a) ==
  /\ At(a, "plan")
  /\ \/ /\ Malformed
        /\ Goto(a, "refused")
        /\ UNCHANGED state
     \/ /\ ~Malformed /\ Applied = {}
        /\ SetState(a, "AUDIT_ONLY", "finish")
     \/ /\ ~Malformed /\ Applied # {}
        /\ Becomes(a, Appending([proc[a] EXCEPT !.rest = Applied], Note, "undo"))
        /\ UNCHANGED state
  /\ UNCHANGED <<disk, body, marker, touched, lock, crashes, tears>>

-----------------------------------------------------------------------------
(* confirm, and the watchdog.                                              *)

Confirm(c) ==
  /\ At(c, "idle") /\ lock = NoOne /\ state = "APPLIED_UNCONFIRMED"
  /\ lock' = c
  /\ marker' = TRUE
  /\ Says(c, Note, "settle")
  /\ UNCHANGED <<disk, body, state, touched, crashes, tears>>

Settle(c) ==
  /\ At(c, "settle")
  /\ \/ /\ state \in {"APPLIED_UNCONFIRMED", "CONFIRMED"}
        /\ SetState(c, "CONFIRMED", "finish")
     \/ /\ state \notin {"APPLIED_UNCONFIRMED", "CONFIRMED"}
        /\ Goto(c, "finish")
        /\ UNCHANGED state
  /\ UNCHANGED <<disk, body, marker, touched, lock, crashes, tears>>

WdComesUp ==
  /\ At(Wd, "spawned")
  /\ Says(Wd, Note, "watch")
  /\ UNCHANGED <<disk, body, state, marker, touched, lock, crashes, tears>>

WdSeesEnd ==
  /\ At(Wd, "watch") /\ (marker \/ state \in Terminal)
  /\ Says(Wd, Note, "finish")
  /\ UNCHANGED <<disk, body, state, marker, touched, lock, crashes, tears>>

WdExpires ==
  /\ At(Wd, "watch") /\ ~marker /\ state \notin Terminal
  /\ Says(Wd, Note, "queued")
  /\ UNCHANGED <<disk, body, state, marker, touched, lock, crashes, tears>>

-----------------------------------------------------------------------------
(* Death, between two operations or in the middle of a write.              *)

Dies(a) ==
  /\ crashes < MaxCrashes /\ crashes' = crashes + 1
  /\ lock' = IF lock = a THEN NoOne ELSE lock
  /\ Becomes(a, Ended(a))
  /\ UNCHANGED <<lines, body, state, marker, touched>>

Crash(a) ==
  /\ proc[a].pc \notin {"idle", "none", "ended"} \/ proc[a].step # "ready"
  /\ Dies(a)
  /\ UNCHANGED <<tail, tears>>

\* Part of the record reaches the file, or all of it but the newline.
Tear(a) ==
  /\ proc[a].step \in {"report", "write"}
  /\ tears < MaxTears /\ tears' = tears + 1
  /\ \/ tail' = Torn
     \/ tail = NoTail
        /\ tail' = IF proc[a].step = "write" THEN proc[a].rec ELSE Note
  /\ Dies(a)

-----------------------------------------------------------------------------
AppendStep(a) == Look(a) \/ Mend(a) \/ Report(a) \/ Write(a)

CommitStep ==
  \/ SnapshotBody(Com) \/ SnapshotEvent(Com) \/ CloseUnapplied(Com)
  \/ StartApplying(Com) \/ StartApply(Com) \/ ApplyEnds(Com)
  \/ Committed(Com) \/ SpawnWatchdog(Com) \/ ArmEnds(Com)

RestoreStep(a) ==
  \/ Undo(a) \/ ReadSnapshots(a) \/ Restore(a) \/ RestoreDone(a)
  \/ Refuse(a) \/ Finish(a)

RecoverStep(a) == RecoverEnters(a) \/ GiveUp(a) \/ Plan(a)

Next ==
  \/ CommitStep
  \/ \E a \in Actors :
       AppendStep(a) \/ RestoreStep(a) \/ RecoverStep(a) \/ Crash(a) \/ Tear(a)
  \/ \E c \in Clis : ScanOrphans(c) \/ Confirm(c) \/ Settle(c)
  \/ WdComesUp \/ WdSeesEnd \/ WdExpires

Spec == Init /\ [][Next]_vars

-----------------------------------------------------------------------------
(* Properties.                                                             *)

\* Type correctness of the files, the processes and the bounds' counters.
TypeOK ==
  /\ lines \in Seq(Records \cup {Junk})
  /\ tail \in Records \cup {Torn, NoTail}
  /\ body \in SUBSET Refs /\ touched \in SUBSET Refs
  /\ state \in States /\ marker \in BOOLEAN
  /\ lock \in Actors \cup {NoOne}
  /\ proc \in [Actors -> Procs]
  /\ crashes \in Nat /\ tears \in Nat

\* Whatever a write may have changed can be restored: whoever reads the files
\* at this point finds that it was touched, and its snapshot with a body
\* (txn.py 535, 626; journal.py 333-341).
WriteAhead ==
  \A r \in touched : Logged(ApplyStart(r)) /\ Logged(Snapshot(r)) /\ r \in body

\* A SNAPSHOT event never claims a body that a crash kept out of private.jsonl
\* (journal.py 339-341): a restore would refuse the whole transaction.
SnapshotHasBody == \A r \in Refs : Read(Snapshot(r)) => r \in body

\* As long as no watchdog was started, whoever appends holds the lock.
Alone == proc[Wd].pc = "none"

\* Then events.jsonl only grows (journal.py 8): mending a tail never takes a
\* record with it that was complete, with its newline or without (238-242).
Log == IF tail \in Records THEN Append(lines, tail) ELSE lines
Keeps(old, new) ==
  \A i \in DOMAIN old : old[i] # Junk => i \in DOMAIN new /\ new[i] = old[i]
AppendOnly == [][Alone => Keeps(Log, Log')]_vars

\* And then no record is lost to a fragment that stands before it, however
\* many processes died in the middle of theirs (journal.py 228-236).
NoHoleUnderLock == Alone => NoHole

\* The last state the log tells of.
StateEvents == {i \in DOMAIN lines : lines[i].event = "STATE"}
LastState ==
  IF StateEvents = {} THEN "PENDING"
  ELSE lines[CHOOSE i \in StateEvents : \A j \in StateEvents : j <= i].state

\* How far a state is along the way.
Stage(s) == CASE s = "PENDING" -> 0
              [] s = "APPLYING" -> 1
              [] s = "APPLIED_UNCONFIRMED" -> 2
              [] s = "REVERTING" -> 3
              [] OTHER -> 4

\* meta.json is never behind the log: what recovery reads, and it reads only
\* meta.json, never misses a step that the log knows (journal.py 319-322).
MetaIsAhead == /\ Stage(LastState) <= Stage(state)
               /\ LastState \in Terminal => state = LastState

\* A recovery is refused only because a record is lost, never because of a
\* torn tail (journal.py 290-294; docs/plan-phase0.md 50).
RefusedMeansHole == \A a \in Actors : At(a, "refused") => Hole

=============================================================================
