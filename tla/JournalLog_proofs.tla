-------------------------- MODULE JournalLog_proofs --------------------------
(***************************************************************************)
(* Proofs about JournalLog, for any set of resources, any number of        *)
(* processes and deaths:                                                   *)
(*                                                                         *)
(*   TypeCorrect          Spec => []TypeOK                                 *)
(*   EveryWriteIsCovered  Spec => []WriteAhead                             *)
(*   EventsHaveBodies     Spec => []SnapshotHasBody                        *)
(*   LockKeepsLogWhole    Spec => []NoHoleUnderLock                        *)
(*   LockKeepsRecords     Spec => AppendOnly                               *)
(*   MetaStaysAhead       Spec => []MetaIsAhead                            *)
(*                                                                         *)
(* The inductive invariant says who holds the lock where (PcInv), what a   *)
(* process in the middle of append() knows of the tail when nobody else    *)
(* appends (UnderLock) and when the watchdog may (TearInv), what the       *)
(* commit has put on disk by the time it is at each point (JobInv), and    *)
(* that no truncation under way reaches back to what covers a write        *)
(* (CoverInv).  MetaInv, for the last theorem, adds what each record tells *)
(* of meta.json (Told) and what meta.json says on the way (Place).         *)
(***************************************************************************)
EXTENDS JournalLog, WellFoundedInduction, TLAPS

Early   == {"snapshot", "event", "apply", "write", "arm"}
ComPcs  == Early \cup {"armwait", "undo", "read", "restore", "refused", "finish"}
RestPcs == {"plan", "undo", "read", "restore", "refused", "finish"}

\* Where a process can be, and where it holds the lock.
PcInv(a) ==
  LET p == proc[a] IN
  \/ a = Com /\ \/ p.pc = "ended" /\ p.step = "ready"
                \/ lock = Com /\ p.pc \in ComPcs
  \/ a = Wd /\ \/ p.pc \in {"none", "spawned", "ended"} /\ p.step = "ready"
               \/ lock = Wd /\ p.pc \in RestPcs
               \/ p.pc \in {"watch", "queued", "finish"}
  \/ a \in Clis /\ \/ p.pc \in {"idle", "queued"} /\ p.step = "ready"
                   \/ lock = a /\ p.pc \in RestPcs \cup {"settle"}

\* The watchdog is started last of all.
EarlyInv == /\ proc[Com].pc \in Early => Alone
            /\ proc[Com].pc = "arm" => Windows
            /\ Windows \/ Alone

Busy(a)    == proc[a].step \in {"mend", "report", "write"}
Mending(a) == proc[a].step = "mend"
Cutting(a) == Mending(a) /\ proc[a].seen = Torn

\* Under the lock alone, nobody touches the file between two steps of append().
UnderLock ==
  Alone => /\ NoHole
           /\ \A a \in Actors :
                /\ Mending(a) => /\ tail # NoTail /\ proc[a].seen = tail
                                 /\ proc[a].cut = Len(lines)
                /\ proc[a].step \in {"report", "write"} => tail = NoTail

\* Beside the lock there is one torn tail at most, and one place to cut.
TearInv ==
  /\ Windows => tears <= 1
  /\ tears = 0 => tail = NoTail /\ \A a \in Actors : ~Mending(a)
  /\ Windows => \A a, b \in Actors :
       /\ Cutting(a) /\ Cutting(b) => proc[a].cut = proc[b].cut
       /\ Cutting(a) => proc[a].cut <= Len(lines)
       /\ Cutting(a) /\ tail = Torn => proc[a].cut = Len(lines)

\* What the commit has put on disk when it is at each point.
Stored(r) == r \in body /\ Logged(Snapshot(r))
JobInv ==
  LET p == proc[Com] IN
  /\ p.pc = "snapshot" => \A r \in Refs \ p.rest :
       r \in body /\ (Logged(Snapshot(r)) \/ (p.step # "ready" /\ p.rec = Snapshot(r)))
  /\ p.pc = "event" => /\ p.step = "ready" /\ p.item \subseteq body
                       /\ \A r \in Refs \ p.rest : Stored(r)
  /\ p.pc \in {"apply", "write"} => \A r \in Refs : Stored(r)
  /\ p.pc = "write" => \A r \in p.item :
       Logged(ApplyStart(r)) \/ (p.step # "ready" /\ p.rec = ApplyStart(r))

\* The records that cover a write are among the first n lines.
Within(rec, n)  == \E i \in DOMAIN lines : i <= n /\ lines[i] = rec
Covered(r, n)   == Within(ApplyStart(r), n) /\ Within(Snapshot(r), n) /\ r \in body
CoverInv ==
  \A r \in touched : /\ Covered(r, Len(lines))
                     /\ \A a \in Actors : Cutting(a) => Covered(r, proc[a].cut)

BodyInv ==
  \A r \in Refs : /\ Read(Snapshot(r)) => r \in body
                  /\ \A a \in Actors : proc[a].rec = Snapshot(r) => r \in body

IInv == /\ TypeOK /\ (\A a \in Actors : PcInv(a))
        /\ EarlyInv /\ UnderLock /\ TearInv /\ JobInv /\ CoverInv /\ BodyInv

-----------------------------------------------------------------------------
(* Records and sequences.                                                  *)

USE DEF Com, Wd, NoOne

LEMMA Kinds ==
  /\ Torn \notin Records /\ NoTail \notin Records /\ Junk \notin Records
  /\ Torn # NoTail /\ Torn # Junk /\ NoTail # Junk
  /\ Note \in Records
  /\ \A s \in States : StateIs(s) \in Records
  /\ \A r \in Refs : Snapshot(r) \in Records /\ ApplyStart(r) \in Records
<1>1. \A x \in Records : x.event \in {"SNAPSHOT", "APPLY_START", "STATE", "NOTE"}
  BY DEF Records, Snapshot, ApplyStart, StateIs, Note
<1>2. Torn.event = "TORN" /\ NoTail.event = "NONE" /\ Junk.event = "JUNK"
  BY DEF Torn, NoTail, Junk
<1>3. /\ Torn \notin Records /\ NoTail \notin Records /\ Junk \notin Records
      /\ Torn # NoTail /\ Torn # Junk /\ NoTail # Junk
  BY <1>1, <1>2
<1> QED
  BY <1>3 DEF Records

LEMMA Distinct ==
  /\ \A r \in Refs, s \in States : StateIs(s) # Snapshot(r)
  /\ \A r \in Refs : Note # Snapshot(r)
  /\ \A r, q \in Refs : ApplyStart(q) # Snapshot(r)
  /\ \A r, q \in Refs : Snapshot(q) = Snapshot(r) => q = r
<1>1. \A r : Snapshot(r).event = "SNAPSHOT" /\ Snapshot(r).ref = r
  BY DEF Snapshot
<1>2. /\ Note.event = "NOTE" /\ \A s : StateIs(s).event = "STATE"
      /\ \A r : ApplyStart(r).event = "APPLY_START"
  BY DEF Note, StateIs, ApplyStart
<1> QED
  BY <1>1, <1>2

LEMMA Prefixes ==
  ASSUME NEW S, NEW s \in Seq(S), NEW n \in Nat, n <= Len(s)
  PROVE  /\ SubSeq(s, 1, n) \in Seq(S) /\ Len(SubSeq(s, 1, n)) = n
         /\ \A i \in 1..n : SubSeq(s, 1, n)[i] = s[i]
         /\ n = Len(s) => SubSeq(s, 1, n) = s
  OBVIOUS

LEMMA Appended ==
  ASSUME NEW S, NEW s \in Seq(S), NEW x \in S
  PROVE  /\ Append(s, x) \in Seq(S) /\ Len(Append(s, x)) = Len(s) + 1
         /\ \A i \in 1..Len(s) : Append(s, x)[i] = s[i]
         /\ Append(s, x)[Len(s) + 1] = x
  OBVIOUS

-----------------------------------------------------------------------------
(* Types.                                                                  *)

LEMMA AppendingIs ==
  ASSUME NEW p \in Procs, NEW rec \in Records, NEW pc \in Pcs
  PROVE  LET q == Appending(p, rec, pc) IN
         /\ q \in Procs /\ q.step = "look" /\ q.rec = rec /\ q.pc = pc
         /\ q.cut = p.cut /\ q.seen = p.seen /\ q.item = p.item /\ q.rest = p.rest
         /\ q.done = p.done
  BY DEF Procs, Appending, Steps

LEMMA EndedIs ==
  \A a : /\ Ended(a) \in Procs /\ Ended(a).step = "ready" /\ Ended(a).rec = Note
         /\ Ended(a).pc = IF a \in Clis THEN "idle" ELSE "ended"
  BY Kinds DEF Ended, Fresh, Procs, Pcs, Steps

LEMMA InitTypes == Init => TypeOK
<1> USE Kinds, LogAssumption
<1> SUFFICES ASSUME Init PROVE TypeOK
  OBVIOUS
<1>1. Fresh("none") \in Procs /\ Fresh("idle") \in Procs
  BY DEF Fresh, Procs, Pcs, Steps
<1>2. Appending([Fresh("none") EXCEPT !.rest = Refs], Note, "snapshot") \in Procs
  <2>1. [Fresh("none") EXCEPT !.rest = Refs] \in Procs /\ "snapshot" \in Pcs
    BY <1>1 DEF Procs, Pcs
  <2> QED
    BY <2>1, AppendingIs
<1>3. proc \in [Actors -> Procs]
  BY <1>1, <1>2 DEF Init
<1>4. <<>> \in Seq(Records \cup {Junk}) /\ Com \in Actors /\ "PENDING" \in States
  BY DEF Actors, States
<1> QED
  BY <1>3, <1>4 DEF Init, TypeOK

-----------------------------------------------------------------------------
(* Steps that leave events.jsonl alone.                                    *)

\* A step of a process that is not, afterwards, in the middle of append().
Calm(a) ==
  /\ UNCHANGED <<lines, tail, tears>> /\ body \subseteq body'
  /\ proc'[a].step \in {"ready", "look"}
  /\ \A b \in Actors \ {a} :
       /\ proc'[b].step = proc[b].step /\ proc'[b].cut = proc[b].cut
       /\ proc'[b].seen = proc[b].seen /\ proc'[b].rec = proc[b].rec
  /\ Alone' => Alone

\* One entry of proc changes; a process does not go back to not started.
LEMMA OneMoves ==
  ASSUME TypeOK, NEW a \in Actors, NEW q \in Procs, Becomes(a, q),
         q.step \in {"ready", "look"}, q.pc # "none",
         UNCHANGED <<lines, tail, tears>>, body \subseteq body'
  PROVE  Calm(a) /\ proc' \in [Actors -> Procs]
<1>1. proc \in [Actors -> Procs] /\ proc' \in [Actors -> Procs] /\ Wd \in Actors
  BY DEF TypeOK, Actors, Becomes
<1>2. proc'[a] = q /\ \A b \in Actors \ {a} : proc'[b] = proc[b]
  BY <1>1 DEF Becomes
<1>3. Alone' => Alone
  BY <1>1, <1>2 DEF Alone
<1> QED
  BY <1>1, <1>2, <1>3 DEF Calm

\* The same for a process that goes on to append a record.
LEMMA Speaks ==
  ASSUME TypeOK, NEW a \in Actors, NEW p \in Procs, NEW rec \in Records, NEW pc \in Pcs,
         pc # "none", Becomes(a, Appending(p, rec, pc)),
         UNCHANGED <<lines, tail, tears>>, body \subseteq body'
  PROVE  Calm(a) /\ proc' \in [Actors -> Procs]
<1> DEFINE q == Appending(p, rec, pc)
<1>1. q \in Procs /\ q.step = "look" /\ q.pc = pc
  BY AppendingIs
<1> QED
  BY <1>1, OneMoves

\* And for one that only goes on.
LEMMA Moves ==
  ASSUME TypeOK, NEW a \in Actors, NEW pc \in Pcs, pc # "none",
         proc[a].step = "ready", Goto(a, pc),
         UNCHANGED <<lines, tail, tears>>, body \subseteq body'
  PROVE  Calm(a) /\ proc' \in [Actors -> Procs]
<1> DEFINE q == [proc[a] EXCEPT !.pc = pc]
<1>1. q \in Procs /\ q.step = "ready" /\ q.pc = pc
  BY DEF TypeOK, Procs
<1> QED
  BY <1>1, OneMoves DEF Goto

LEMMA CommitCalm ==
  ASSUME TypeOK, CommitStep PROVE TypeOK' /\ Calm(Com)
<1> DEFINE p == proc[Com]
<1> USE Kinds
<1>1. Com \in Actors /\ Wd \in Actors /\ Com # Wd /\ p \in Procs
  BY DEF TypeOK, Actors
<1>2. /\ {"event", "snapshot", "finish", "apply", "write", "undo", "arm", "armwait"} \subseteq Pcs
      /\ {"AUDIT_ONLY", "APPLYING", "CONFIRMED", "APPLIED_UNCONFIRMED"} \subseteq States
  BY DEF Pcs, States, Terminal
<1>3. CASE SnapshotBody(Com)
  <2>1. PICK r \in p.rest :
          body' = body \cup {r} /\ Becomes(Com, [p EXCEPT !.pc = "event", !.item = {r}])
    BY <1>3 DEF SnapshotBody
  <2> DEFINE q == [p EXCEPT !.pc = "event", !.item = {r}]
  <2>2. q \in Procs /\ q.step = "ready" /\ q.pc = "event" /\ r \in Refs
    BY <1>1, <1>2, <1>3 DEF Procs, SnapshotBody, At
  <2>3. Calm(Com) /\ proc' \in [Actors -> Procs]
    BY <1>1, <1>3, <2>1, <2>2, OneMoves DEF SnapshotBody, disk
  <2> QED
    BY <1>3, <2>1, <2>2, <2>3 DEF SnapshotBody, TypeOK, disk
<1>4. CASE SnapshotEvent(Com)
  <2>1. PICK r \in p.item :
          Becomes(Com, Appending([p EXCEPT !.item = {}, !.rest = @ \ {r}],
                                 Snapshot(r), "snapshot"))
    BY <1>4 DEF SnapshotEvent
  <2>2. [p EXCEPT !.item = {}, !.rest = @ \ {r}] \in Procs /\ r \in Refs
    BY <1>1 DEF Procs
  <2>3. Calm(Com) /\ proc' \in [Actors -> Procs]
    BY <1>1, <1>2, <1>4, <2>1, <2>2, Speaks DEF SnapshotEvent, disk
  <2> QED
    BY <1>4, <2>3 DEF SnapshotEvent, TypeOK, disk
<1>5. CASE CloseUnapplied(Com)
  <2>1. Says(Com, StateIs("AUDIT_ONLY"), "finish") \/ Goto(Com, "finish")
    BY <1>5 DEF CloseUnapplied, SetState
  <2>2. Calm(Com) /\ proc' \in [Actors -> Procs]
    BY <1>1, <1>2, <1>5, <2>1, Speaks, Moves DEF CloseUnapplied, disk, At, Says
  <2> QED
    BY <1>2, <1>5, <2>2 DEF CloseUnapplied, TypeOK, disk, SetState
<1>6. CASE StartApplying(Com)
  <2>1. [p EXCEPT !.rest = Refs] \in Procs
    BY <1>1 DEF Procs
  <2>2. Calm(Com) /\ proc' \in [Actors -> Procs]
    BY <1>1, <1>2, <1>6, <2>1, Speaks DEF StartApplying, disk
  <2> QED
    BY <1>2, <1>6, <2>2 DEF StartApplying, TypeOK, disk
<1>7. CASE StartApply(Com)
  <2>1. PICK r \in p.rest :
          Becomes(Com, Appending([p EXCEPT !.item = {r}, !.rest = @ \ {r}],
                                 ApplyStart(r), "write"))
    BY <1>7 DEF StartApply
  <2>2. [p EXCEPT !.item = {r}, !.rest = @ \ {r}] \in Procs /\ r \in Refs
    BY <1>1 DEF Procs
  <2>3. Calm(Com) /\ proc' \in [Actors -> Procs]
    BY <1>1, <1>2, <1>7, <2>1, <2>2, Speaks DEF StartApply, disk
  <2> QED
    BY <1>7, <2>3 DEF StartApply, TypeOK, disk
<1>8. CASE ApplyEnds(Com)
  <2>1. PICK pc \in {"apply", "undo"} :
          Becomes(Com, Appending([p EXCEPT !.item = {}, !.done = @ \cup p.item], Note, pc))
    BY <1>8 DEF ApplyEnds
  <2>2. [p EXCEPT !.item = {}, !.done = @ \cup p.item] \in Procs /\ p.item \subseteq Refs
    BY <1>1 DEF Procs
  <2>3. Calm(Com) /\ proc' \in [Actors -> Procs]
    BY <1>1, <1>2, <1>8, <2>1, <2>2, Speaks DEF ApplyEnds, disk
  <2> QED
    BY <1>8, <2>2, <2>3 DEF ApplyEnds, TypeOK, disk
<1>9. CASE Committed(Com)
  <2>1. PICK s \in {"CONFIRMED", "APPLIED_UNCONFIRMED"}, pc \in {"finish", "arm"} :
          state' = s /\ Says(Com, StateIs(s), pc)
    BY <1>9 DEF Committed, SetState
  <2>2. Calm(Com) /\ proc' \in [Actors -> Procs]
    BY <1>1, <1>2, <1>9, <2>1, Speaks DEF Committed, disk, Says
  <2> QED
    BY <1>2, <1>9, <2>1, <2>2 DEF Committed, TypeOK, disk
<1>10. CASE SpawnWatchdog(Com)
  <2>1. /\ proc'[Com] = [p EXCEPT !.pc = "armwait"]
        /\ proc'[Wd] = [proc[Wd] EXCEPT !.pc = "spawned"]
        /\ \A b \in Actors \ {Com, Wd} : proc'[b] = proc[b]
        /\ proc' \in [Actors -> Procs]
    <3>1. /\ [p EXCEPT !.pc = "armwait"] \in Procs
          /\ [proc[Wd] EXCEPT !.pc = "spawned"] \in Procs
      BY <1>1 DEF TypeOK, Procs, Pcs
    <3>2. proc \in [Actors -> Procs]
      BY DEF TypeOK
    <3> QED
      BY <1>1, <1>10, <3>1, <3>2 DEF SpawnWatchdog
  <2>2. proc[Wd] \in Procs /\ p.step = "ready"
    BY <1>1, <1>10 DEF TypeOK, SpawnWatchdog, At
  <2>3. /\ proc'[Com].step = "ready" /\ proc'[Wd].pc = "spawned"
        /\ proc'[Wd].step = proc[Wd].step /\ proc'[Wd].rec = proc[Wd].rec
        /\ proc'[Wd].cut = proc[Wd].cut /\ proc'[Wd].seen = proc[Wd].seen
    BY <1>1, <2>1, <2>2 DEF Procs
  <2>4. Calm(Com)
    BY <1>1, <1>10, <2>1, <2>3 DEF Calm, SpawnWatchdog, Alone, disk
  <2> QED
    BY <1>10, <2>1, <2>4 DEF SpawnWatchdog, TypeOK, disk
<1>11. CASE ArmEnds(Com)
  <2>1. Calm(Com) /\ proc' \in [Actors -> Procs]
    BY <1>1, <1>2, <1>11, Moves DEF ArmEnds, disk, At
  <2> QED
    BY <1>11, <2>1 DEF ArmEnds, TypeOK, disk
<1> QED
  BY <1>3, <1>4, <1>5, <1>6, <1>7, <1>8, <1>9, <1>10, <1>11 DEF CommitStep

LEMMA RestoreCalm ==
  ASSUME TypeOK, NEW a \in Actors, RestoreStep(a) PROVE TypeOK' /\ Calm(a)
<1> DEFINE p == proc[a]
<1> USE Kinds
<1>1. p \in Procs
  BY DEF TypeOK
<1>2. /\ {"refused", "read", "restore", "finish"} \subseteq Pcs
      /\ {"REVERTING", "REVERTED", "REVERT_FAILED"} \subseteq States
  BY DEF Pcs, States, Terminal
<1>3. CASE Undo(a)
  <2>1. CASE Goto(a, "refused") /\ UNCHANGED state
    <3>1. Calm(a) /\ proc' \in [Actors -> Procs]
      BY <1>2, <1>3, <2>1, Moves DEF Undo, disk, At
    <3> QED
      BY <1>3, <2>1, <3>1 DEF Undo, TypeOK, disk
  <2> DEFINE q == [p EXCEPT !.rest = IF a = Com THEN p.done ELSE @, !.done = {}]
  <2>2. CASE state' = "REVERTING" /\ Becomes(a, Appending(q, StateIs("REVERTING"), "read"))
    <3>1. q \in Procs
      BY <1>1 DEF Procs
    <3>2. Calm(a) /\ proc' \in [Actors -> Procs]
      BY <1>2, <1>3, <2>2, <3>1, Speaks DEF Undo, disk
    <3> QED
      BY <1>2, <1>3, <2>2, <3>2 DEF Undo, TypeOK, disk
  <2> QED
    BY <1>3, <2>1, <2>2 DEF Undo
<1>4. CASE ReadSnapshots(a)
  <2> DEFINE q == [p EXCEPT !.pc = IF Unreadable THEN "refused" ELSE "restore",
                            !.snaps = {r \in Refs : Read(Snapshot(r))}]
  <2>1. q \in Procs /\ q.step = "ready" /\ q.pc # "none"
    BY <1>1, <1>2, <1>4 DEF Procs, ReadSnapshots, At
  <2>2. Becomes(a, q)
    BY <1>4 DEF ReadSnapshots
  <2>3. Calm(a) /\ proc' \in [Actors -> Procs]
    BY <1>4, <2>1, <2>2, OneMoves DEF ReadSnapshots, disk
  <2> QED
    BY <1>4, <2>3 DEF ReadSnapshots, TypeOK, disk
<1>5. CASE Restore(a)
  <2>1. PICK r \in p.rest, ok \in BOOLEAN :
          /\ touched' = IF ok THEN touched \ {r} ELSE touched
          /\ Becomes(a, Appending([p EXCEPT !.rest = @ \ {r}, !.bad = @ \/ ~ok],
                                  Note, "restore"))
    BY <1>5 DEF Restore
  <2>2. [p EXCEPT !.rest = @ \ {r}, !.bad = @ \/ ~ok] \in Procs
    BY <1>1 DEF Procs
  <2>3. Calm(a) /\ proc' \in [Actors -> Procs]
    BY <1>2, <1>5, <2>1, <2>2, Speaks DEF Restore, disk
  <2> QED
    BY <1>5, <2>1, <2>3 DEF Restore, TypeOK, disk
<1>6. CASE RestoreDone(a)
  <2>1. PICK s \in {"REVERTED", "REVERT_FAILED"} :
          state' = s /\ Says(a, StateIs(s), "finish")
    BY <1>6 DEF RestoreDone, SetState
  <2>2. Calm(a) /\ proc' \in [Actors -> Procs]
    BY <1>1, <1>2, <1>6, <2>1, Speaks DEF RestoreDone, disk, Says
  <2> QED
    BY <1>2, <1>6, <2>1, <2>2 DEF RestoreDone, TypeOK, disk
<1>7. CASE Refuse(a)
  <2>1. Says(a, Note, "finish") \/ Becomes(a, Ended(a))
    BY <1>7 DEF Refuse, Says
  <2>2. Calm(a) /\ proc' \in [Actors -> Procs]
    BY <1>1, <1>2, <1>7, <2>1, Speaks, OneMoves, EndedIs DEF Refuse, disk, Says
  <2> QED
    BY <1>7, <2>2 DEF Refuse, TypeOK, disk
<1>8. CASE Finish(a)
  <2>1. Calm(a) /\ proc' \in [Actors -> Procs]
    BY <1>8, OneMoves, EndedIs DEF Finish, disk
  <2> QED
    BY <1>8, <2>1 DEF Finish, TypeOK, disk
<1> QED
  BY <1>3, <1>4, <1>5, <1>6, <1>7, <1>8 DEF RestoreStep

\* Everything else but the steps of append() and a torn write.
OtherCalm(a) ==
  \/ RecoverStep(a) \/ Crash(a)
  \/ a \in Clis /\ (ScanOrphans(a) \/ Confirm(a) \/ Settle(a))
  \/ a = Wd /\ (WdComesUp \/ WdSeesEnd \/ WdExpires)

LEMMA OthersCalm ==
  ASSUME TypeOK, NEW a \in Actors, OtherCalm(a) PROVE TypeOK' /\ Calm(a)
<1> DEFINE p == proc[a]
<1> USE Kinds
<1>1. p \in Procs
  BY DEF TypeOK
<1>2. /\ {"queued", "plan", "refused", "finish", "undo", "settle", "watch"} \subseteq Pcs
      /\ {"AUDIT_ONLY", "CONFIRMED"} \subseteq States
  BY DEF Pcs, States, Terminal
<1>3. CASE ScanOrphans(a)
  <2>1. Calm(a) /\ proc' \in [Actors -> Procs]
    BY <1>2, <1>3, Moves DEF ScanOrphans, disk, At
  <2> QED
    BY <1>3, <2>1 DEF ScanOrphans, TypeOK, disk
<1>4. CASE RecoverEnters(a)
  <2>1. Calm(a) /\ proc' \in [Actors -> Procs]
    BY <1>2, <1>4, Moves DEF RecoverEnters, disk, At
  <2> QED
    BY <1>4, <2>1 DEF RecoverEnters, TypeOK, disk
<1>5. CASE GiveUp(a)
  <2>1. Says(a, Note, "finish") \/ Becomes(a, Ended(a))
    BY <1>5 DEF GiveUp
  <2>2. Calm(a) /\ proc' \in [Actors -> Procs]
    BY <1>1, <1>2, <1>5, <2>1, Speaks, OneMoves, EndedIs DEF GiveUp, disk, Says
  <2> QED
    BY <1>5, <2>2 DEF GiveUp, TypeOK, disk
<1>6. CASE Plan(a)
  <2>1. [p EXCEPT !.rest = Applied] \in Procs
    BY <1>1 DEF Procs, Applied
  <2>2. \/ Goto(a, "refused") \/ Says(a, StateIs("AUDIT_ONLY"), "finish")
        \/ Becomes(a, Appending([p EXCEPT !.rest = Applied], Note, "undo"))
    BY <1>6 DEF Plan, SetState
  <2>3. Calm(a) /\ proc' \in [Actors -> Procs]
    BY <1>1, <1>2, <1>6, <2>1, <2>2, Speaks, Moves DEF Plan, disk, Says, At
  <2> QED
    BY <1>2, <1>6, <2>3 DEF Plan, TypeOK, disk, SetState
<1>7. CASE Confirm(a)
  <2>1. Calm(a) /\ proc' \in [Actors -> Procs]
    BY <1>1, <1>2, <1>7, Speaks DEF Confirm, disk, Says
  <2> QED
    BY <1>7, <2>1 DEF Confirm, TypeOK, disk
<1>8. CASE Settle(a)
  <2>1. Says(a, StateIs("CONFIRMED"), "finish") \/ Goto(a, "finish")
    BY <1>8 DEF Settle, SetState
  <2>2. Calm(a) /\ proc' \in [Actors -> Procs]
    BY <1>1, <1>2, <1>8, <2>1, Speaks, Moves DEF Settle, disk, Says, At
  <2> QED
    BY <1>2, <1>8, <2>2 DEF Settle, TypeOK, disk, SetState
<1>9. CASE a = Wd /\ (WdComesUp \/ WdSeesEnd \/ WdExpires)
  <2>1. Says(a, Note, "watch") \/ Says(a, Note, "finish") \/ Says(a, Note, "queued")
    BY <1>9 DEF WdComesUp, WdSeesEnd, WdExpires
  <2>2. UNCHANGED <<disk, body, state, marker, touched, lock, crashes, tears>>
    BY <1>9 DEF WdComesUp, WdSeesEnd, WdExpires
  <2>3. Calm(a) /\ proc' \in [Actors -> Procs]
    BY <1>1, <1>2, <2>1, <2>2, Speaks DEF disk, Says
  <2> QED
    BY <2>2, <2>3 DEF TypeOK, disk
<1>10. CASE Crash(a)
  <2>1. Calm(a) /\ proc' \in [Actors -> Procs]
    BY <1>10, OneMoves, EndedIs DEF Crash, Dies
  <2> QED
    BY <1>10, <2>1 DEF Crash, Dies, TypeOK
<1> QED
  BY <1>3, <1>4, <1>5, <1>6, <1>7, <1>8, <1>9, <1>10 DEF OtherCalm, RecoverStep

-----------------------------------------------------------------------------
(* Steps of append().                                                      *)

\* Under the lock alone, one process appends at a time.
LEMMA OneWriter ==
  ASSUME IInv, Alone, NEW a \in Actors, NEW b \in Actors,
         proc[a].step # "ready", proc[b].step # "ready"
  PROVE  a = b
<1>1. \A c \in Actors : proc[c].step # "ready" => lock = c
  BY LogAssumption DEF IInv, PcInv, Alone, Actors, RestPcs
<1> QED
  BY <1>1

\* A truncation stays within the file, and there is one place to cut.
LEMMA CutKnown ==
  ASSUME IInv, NEW a \in Actors, Cutting(a)
  PROVE  /\ proc[a].cut \in Nat /\ proc[a].cut <= Len(lines)
         /\ tail = Torn => proc[a].cut = Len(lines)
         /\ \A b \in Actors : Cutting(b) => proc[b].cut = proc[a].cut
<1>1. proc[a].cut \in Nat /\ lines \in Seq(Records \cup {Junk}) /\ Len(lines) \in Nat
  BY DEF IInv, TypeOK, Procs
<1>2. CASE Windows
  BY <1>1, <1>2 DEF IInv, TearInv
<1>3. CASE Alone
  BY <1>1, <1>3 DEF IInv, UnderLock, Cutting
<1> QED
  BY <1>2, <1>3 DEF IInv, EarlyInv

LEMMA OneProc ==
  ASSUME TypeOK, NEW a \in Actors, NEW q \in Procs, Becomes(a, q)
  PROVE  /\ proc' \in [Actors -> Procs] /\ proc'[a] = q
         /\ \A b \in Actors \ {a} : proc'[b] = proc[b]
  BY DEF TypeOK, Becomes

\* What the steps do to the process and to the file.
LEMMA LookIs ==
  ASSUME TypeOK, NEW a \in Actors, Look(a)
  PROVE  /\ TypeOK'
         /\ \A b \in Actors \ {a} : proc'[b] = proc[b]
         /\ proc[a].step = "look"
         /\ proc'[a].pc = proc[a].pc /\ proc'[a].rec = proc[a].rec
         /\ proc'[a].rest = proc[a].rest /\ proc'[a].item = proc[a].item
         /\ \/ tail = NoTail /\ proc'[a].step = "write"
            \/ /\ tail # NoTail /\ proc'[a].step = "mend"
               /\ proc'[a].cut = Len(lines) /\ proc'[a].seen = tail
<1> DEFINE p == proc[a]
           q1 == [p EXCEPT !.step = "write"]
           q2 == [p EXCEPT !.step = "mend", !.cut = Len(lines), !.seen = tail]
<1>1. p \in Procs /\ Len(lines) \in Nat /\ tail \in Records \cup {Torn, NoTail}
  BY DEF TypeOK
<1>2. CASE tail = NoTail /\ Becomes(a, q1)
  <2>1. q1 \in Procs /\ q1.step = "write" /\ q1.pc = p.pc /\ q1.rec = p.rec
        /\ q1.rest = p.rest /\ q1.item = p.item
    BY <1>1 DEF Procs, Steps
  <2>2. proc' \in [Actors -> Procs] /\ proc'[a] = q1 /\ \A b \in Actors \ {a} : proc'[b] = proc[b]
    BY <1>2, <2>1, OneProc
  <2> QED
    BY <1>2, <2>1, <2>2 DEF Look, TypeOK, disk
<1>3. CASE tail # NoTail /\ Becomes(a, q2)
  <2>1. q2 \in Procs /\ q2.step = "mend" /\ q2.cut = Len(lines) /\ q2.seen = tail
        /\ q2.pc = p.pc /\ q2.rec = p.rec /\ q2.rest = p.rest /\ q2.item = p.item
    BY <1>1 DEF Procs, Steps
  <2>2. proc' \in [Actors -> Procs] /\ proc'[a] = q2 /\ \A b \in Actors \ {a} : proc'[b] = proc[b]
    BY <1>3, <2>1, OneProc
  <2> QED
    BY <1>3, <2>1, <2>2 DEF Look, TypeOK, disk
<1> QED
  BY <1>2, <1>3 DEF Look

LEMMA MendIs ==
  ASSUME IInv, NEW a \in Actors, Mend(a)
  PROVE  /\ TypeOK'
         /\ \A b \in Actors \ {a} : proc'[b] = proc[b]
         /\ proc[a].step = "mend" /\ proc'[a].step = "report" /\ tail' = NoTail
         /\ proc'[a].pc = proc[a].pc /\ proc'[a].rec = proc[a].rec
         /\ proc'[a].rest = proc[a].rest /\ proc'[a].item = proc[a].item
         /\ \/ /\ Cutting(a) /\ Len(lines') = proc[a].cut
               /\ \A i \in 1..proc[a].cut : lines'[i] = lines[i]
               /\ proc[a].cut = Len(lines) => lines' = lines
            \/ ~Cutting(a) /\ tail = NoTail /\ lines' = lines
            \/ ~Cutting(a) /\ tail = Torn /\ lines' = Append(lines, Junk)
            \/ ~Cutting(a) /\ tail \in Records /\ lines' = Append(lines, tail)
<1> DEFINE p == proc[a]
           q == [p EXCEPT !.step = "report", !.cut = 0, !.seen = NoTail]
<1> USE Kinds
<1>1. /\ TypeOK /\ p \in Procs /\ tail \in Records \cup {Torn, NoTail}
      /\ lines \in Seq(Records \cup {Junk})
  BY DEF TypeOK, IInv
<1>2. q \in Procs /\ q.step = "report" /\ q.pc = p.pc /\ q.rec = p.rec
      /\ q.rest = p.rest /\ q.item = p.item
  BY <1>1 DEF Procs, Steps
<1>3. Becomes(a, q) /\ p.step = "mend" /\ tail' = NoTail
  BY DEF Mend
<1>4. proc' \in [Actors -> Procs] /\ proc'[a] = q /\ \A b \in Actors \ {a} : proc'[b] = proc[b]
  BY <1>1, <1>2, <1>3, OneProc
<1>5. /\ lines' \in Seq(Records \cup {Junk})
      /\ \/ /\ Cutting(a) /\ Len(lines') = p.cut
            /\ \A i \in 1..p.cut : lines'[i] = lines[i]
            /\ p.cut = Len(lines) => lines' = lines
         \/ ~Cutting(a) /\ tail = NoTail /\ lines' = lines
         \/ ~Cutting(a) /\ tail = Torn /\ lines' = Append(lines, Junk)
         \/ ~Cutting(a) /\ tail \in Records /\ lines' = Append(lines, tail)
  <2>1. CASE p.seen = Torn /\ lines' = SubSeq(lines, 1, p.cut)
    <3>1. Cutting(a)
      BY <1>3, <2>1 DEF Cutting, Mending
    <3>2. p.cut \in Nat /\ p.cut <= Len(lines)
      BY <3>1, CutKnown
    <3> HIDE DEF p
    <3> QED
      BY <1>1, <2>1, <3>1, <3>2, Prefixes
  <2>2. CASE p.seen # Torn /\ lines' = CASE tail = NoTail -> lines
                                         [] tail = Torn   -> Append(lines, Junk)
                                         [] OTHER         -> Append(lines, tail)
    <3>1. ~Cutting(a)
      BY <2>2 DEF Cutting
    <3>2. CASE tail = NoTail
      BY <1>1, <2>2, <3>1, <3>2
    <3>3. CASE tail = Torn
      BY <1>1, <2>2, <3>1, <3>3
    <3>4. CASE tail \in Records
      BY <1>1, <2>2, <3>1, <3>4
    <3> QED
      BY <1>1, <3>2, <3>3, <3>4
  <2> QED
    BY <2>1, <2>2 DEF Mend
<1> QED
  BY <1>1, <1>2, <1>3, <1>4, <1>5 DEF Mend, TypeOK

\* The line a writer makes of its record.
Line(a) == Completed(tail, IF proc[a].step = "report" THEN Note ELSE proc[a].rec)

LEMMA PutIs ==
  ASSUME TypeOK, NEW a \in Actors, Report(a) \/ Write(a)
  PROVE  /\ TypeOK'
         /\ \A b \in Actors \ {a} : proc'[b] = proc[b]
         /\ Busy(a) /\ ~Mending(a) /\ tail' = NoTail
         /\ Line(a) \in Records \cup {Junk} /\ lines' = Append(lines, Line(a))
         /\ proc'[a].pc = proc[a].pc
         /\ proc'[a].rest = proc[a].rest /\ proc'[a].item = proc[a].item
         /\ \/ /\ proc[a].step = "report" /\ proc'[a].step = "write"
               /\ proc'[a].rec = proc[a].rec
            \/ /\ proc[a].step = "write" /\ proc'[a].step = "ready"
               /\ proc'[a].rec = Note
<1> DEFINE p == proc[a]
           q1 == [p EXCEPT !.step = "write"]
           q2 == [p EXCEPT !.step = "ready", !.rec = Note]
<1> USE Kinds
<1>1. p \in Procs /\ p.rec \in Records /\ lines \in Seq(Records \cup {Junk})
  BY DEF TypeOK, Procs
<1>2. Line(a) \in Records \cup {Junk}
  BY <1>1 DEF Line, Completed
<1>3. CASE Report(a)
  <2>1. q1 \in Procs /\ q1.step = "write" /\ q1.pc = p.pc /\ q1.rec = p.rec
        /\ q1.rest = p.rest /\ q1.item = p.item
    BY <1>1 DEF Procs, Steps
  <2>2. p.step = "report" /\ lines' = Append(lines, Line(a)) /\ tail' = NoTail
    BY <1>3 DEF Report, Put, Line
  <2>3. proc' \in [Actors -> Procs] /\ proc'[a] = q1 /\ \A b \in Actors \ {a} : proc'[b] = proc[b]
    BY <1>3, <2>1, OneProc DEF Report
  <2>4. lines' \in Seq(Records \cup {Junk})
    BY <1>1, <1>2, <2>2
  <2>5. TypeOK'
    BY <1>3, <2>2, <2>3, <2>4 DEF Report, TypeOK
  <2> QED
    BY <1>2, <2>1, <2>2, <2>3, <2>5 DEF Busy, Mending
<1>4. CASE Write(a)
  <2>1. q2 \in Procs /\ q2.step = "ready" /\ q2.pc = p.pc /\ q2.rec = Note
        /\ q2.rest = p.rest /\ q2.item = p.item
    BY <1>1 DEF Procs, Steps
  <2>2. p.step = "write" /\ lines' = Append(lines, Line(a)) /\ tail' = NoTail
    BY <1>4 DEF Write, Put, Line
  <2>3. proc' \in [Actors -> Procs] /\ proc'[a] = q2 /\ \A b \in Actors \ {a} : proc'[b] = proc[b]
    BY <1>4, <2>1, OneProc DEF Write
  <2>4. lines' \in Seq(Records \cup {Junk})
    BY <1>1, <1>2, <2>2
  <2>5. TypeOK'
    BY <1>4, <2>2, <2>3, <2>4 DEF Write, TypeOK
  <2> QED
    BY <1>2, <2>1, <2>2, <2>3, <2>5 DEF Busy, Mending
<1> QED
  BY <1>3, <1>4

LEMMA TearIs ==
  ASSUME TypeOK, NEW a \in Actors, Tear(a)
  PROVE  /\ TypeOK' /\ tears < MaxTears /\ tears' = tears + 1
         /\ UNCHANGED <<lines, body, state, marker, touched>>
         /\ \A b \in Actors \ {a} : proc'[b] = proc[b]
         /\ proc'[a] = Ended(a)
         /\ Busy(a) /\ ~Mending(a)
         /\ \/ tail' = Torn
            \/ /\ tail = NoTail /\ tail' \in Records
               /\ tail' = IF proc[a].step = "write" THEN proc[a].rec ELSE Note
<1> USE Kinds
<1>1. /\ proc' \in [Actors -> Procs] /\ proc'[a] = Ended(a)
      /\ \A b \in Actors \ {a} : proc'[b] = proc[b]
  BY OneProc, EndedIs DEF Tear, Dies
<1>2. proc[a].rec \in Records
  BY DEF TypeOK, Procs
<1>3. \/ tail' = Torn
      \/ /\ tail = NoTail /\ tail' \in Records
         /\ tail' = IF proc[a].step = "write" THEN proc[a].rec ELSE Note
  BY <1>2 DEF Tear
<1>4. Busy(a) /\ ~Mending(a) /\ tears < MaxTears /\ tears' = tears + 1
  BY DEF Tear, Busy, Mending
<1>5. TypeOK'
  BY <1>1, <1>3, <1>4 DEF Tear, Dies, TypeOK
<1> QED
  BY <1>1, <1>3, <1>4, <1>5 DEF Tear, Dies

-----------------------------------------------------------------------------
(* What the other steps do to the process that takes them.                 *)

LEMMA SpeaksIs ==
  ASSUME TypeOK, NEW a \in Actors, NEW p \in Procs, NEW rec \in Records, NEW pc \in Pcs,
         Becomes(a, Appending(p, rec, pc))
  PROVE  /\ \A b \in Actors \ {a} : proc'[b] = proc[b]
         /\ proc'[a].pc = pc /\ proc'[a].rec = rec /\ proc'[a].step = "look"
         /\ proc'[a].rest = p.rest /\ proc'[a].item = p.item
<1> DEFINE q == Appending(p, rec, pc)
<1>1. /\ q \in Procs /\ q.pc = pc /\ q.rec = rec /\ q.step = "look"
      /\ q.rest = p.rest /\ q.item = p.item
  BY AppendingIs
<1>2. proc'[a] = q /\ \A b \in Actors \ {a} : proc'[b] = proc[b]
  BY <1>1, OneProc
<1> QED
  BY <1>1, <1>2

LEMMA MovesIs ==
  ASSUME TypeOK, NEW a \in Actors, NEW pc \in Pcs, Goto(a, pc)
  PROVE  /\ \A b \in Actors \ {a} : proc'[b] = proc[b]
         /\ proc'[a].pc = pc /\ proc'[a].rec = proc[a].rec /\ proc'[a].step = proc[a].step
         /\ proc'[a].rest = proc[a].rest /\ proc'[a].item = proc[a].item
<1> DEFINE q == [proc[a] EXCEPT !.pc = pc]
<1>1. /\ q \in Procs /\ q.pc = pc /\ q.rec = proc[a].rec /\ q.step = proc[a].step
      /\ q.rest = proc[a].rest /\ q.item = proc[a].item
  BY DEF TypeOK, Procs
<1>2. proc'[a] = q /\ \A b \in Actors \ {a} : proc'[b] = proc[b]
  BY <1>1, OneProc DEF Goto
<1> QED
  BY <1>1, <1>2

\* A record that says nothing of a snapshot.
Plain == {Note} \cup {StateIs(s) : s \in States}

RestPc == {"refused", "read", "restore", "finish"}

LEMMA RestoreIs ==
  ASSUME TypeOK, NEW a \in Actors, RestoreStep(a)
  PROVE  /\ \A b \in Actors \ {a} : proc'[b] = proc[b]
         /\ proc[a].pc \in RestPc \cup {"undo"} /\ proc[a].step = "ready"
         /\ proc'[a].rec \in Plain \cup {proc[a].rec}
         /\ body' = body /\ touched' \subseteq touched
         /\ \/ proc[a].pc # "finish" /\ lock' = lock /\ proc'[a].pc \in RestPc
            \/ /\ proc[a].pc = "refused" /\ lock' = NoOne
               /\ IF a = Wd THEN proc'[a].pc = "finish" ELSE proc'[a] = Ended(a)
            \/ /\ proc[a].pc = "finish" /\ lock' = (IF lock = a THEN NoOne ELSE lock)
               /\ proc'[a] = Ended(a)
<1> DEFINE p == proc[a]
<1> USE Kinds
<1>1. p \in Procs
  BY DEF TypeOK
<1>2. /\ RestPc \subseteq Pcs /\ {"REVERTING", "REVERTED", "REVERT_FAILED"} \subseteq States
  BY DEF Pcs, States, Terminal, RestPc
<1>3. CASE Undo(a)
  <2>1. CASE Goto(a, "refused")
    BY <1>2, <1>3, <2>1, MovesIs DEF Undo, At, RestPc
  <2> DEFINE q == [p EXCEPT !.rest = IF a = Com THEN p.done ELSE @, !.done = {}]
  <2>2. CASE Becomes(a, Appending(q, StateIs("REVERTING"), "read"))
    <3>1. q \in Procs
      BY <1>1 DEF Procs
    <3>2. /\ \A b \in Actors \ {a} : proc'[b] = proc[b]
          /\ proc'[a].pc = "read" /\ proc'[a].rec = StateIs("REVERTING")
      BY <1>2, <2>2, <3>1, SpeaksIs DEF RestPc
    <3> QED
      BY <1>2, <1>3, <3>2 DEF Undo, At, RestPc, Plain
  <2> QED
    BY <1>3, <2>1, <2>2 DEF Undo
<1>4. CASE ReadSnapshots(a)
  <2> DEFINE q == [p EXCEPT !.pc = IF Unreadable THEN "refused" ELSE "restore",
                            !.snaps = {r \in Refs : Read(Snapshot(r))}]
  <2>1. q \in Procs /\ q.pc \in {"refused", "restore"} /\ q.rec = p.rec
    BY <1>1, <1>2 DEF Procs, RestPc
  <2>2. Becomes(a, q)
    BY <1>4 DEF ReadSnapshots
  <2>3. proc'[a] = q /\ \A b \in Actors \ {a} : proc'[b] = proc[b]
    BY <2>1, <2>2, OneProc
  <2> QED
    BY <1>4, <2>1, <2>3 DEF ReadSnapshots, At, RestPc
<1>5. CASE Restore(a)
  <2>1. PICK r \in p.rest, ok \in BOOLEAN :
          /\ touched' = IF ok THEN touched \ {r} ELSE touched
          /\ Becomes(a, Appending([p EXCEPT !.rest = @ \ {r}, !.bad = @ \/ ~ok],
                                  Note, "restore"))
    BY <1>5 DEF Restore
  <2>2. [p EXCEPT !.rest = @ \ {r}, !.bad = @ \/ ~ok] \in Procs
    BY <1>1 DEF Procs
  <2>3. /\ \A b \in Actors \ {a} : proc'[b] = proc[b]
        /\ proc'[a].pc = "restore" /\ proc'[a].rec = Note
    BY <1>2, <2>1, <2>2, SpeaksIs DEF RestPc
  <2> QED
    BY <1>5, <2>1, <2>3 DEF Restore, At, RestPc, Plain
<1>6. CASE RestoreDone(a)
  <2>1. PICK s \in {"REVERTED", "REVERT_FAILED"} : Says(a, StateIs(s), "finish")
    BY <1>6 DEF RestoreDone, SetState
  <2>2. /\ \A b \in Actors \ {a} : proc'[b] = proc[b]
        /\ proc'[a].pc = "finish" /\ proc'[a].rec = StateIs(s)
    BY <1>1, <1>2, <2>1, SpeaksIs DEF Says, RestPc
  <2> QED
    BY <1>2, <1>6, <2>2 DEF RestoreDone, At, RestPc, Plain
<1>7. CASE Refuse(a)
  <2>1. CASE a = Wd /\ Says(a, Note, "finish")
    <3>1. /\ \A b \in Actors \ {a} : proc'[b] = proc[b]
          /\ proc'[a].pc = "finish" /\ proc'[a].rec = Note
      BY <1>1, <1>2, <2>1, SpeaksIs DEF Says, RestPc
    <3> QED
      BY <1>7, <2>1, <3>1 DEF Refuse, At, RestPc, Plain
  <2>2. CASE a # Wd /\ Becomes(a, Ended(a))
    <3>1. /\ \A b \in Actors \ {a} : proc'[b] = proc[b]
          /\ proc'[a] = Ended(a) /\ Ended(a).rec = Note
      BY <2>2, OneProc, EndedIs
    <3> QED
      BY <1>7, <2>2, <3>1 DEF Refuse, At, RestPc, Plain
  <2> QED
    BY <1>7, <2>1, <2>2 DEF Refuse, Says
<1>8. CASE Finish(a)
  <2>1. /\ \A b \in Actors \ {a} : proc'[b] = proc[b]
        /\ proc'[a] = Ended(a) /\ Ended(a).rec = Note
    BY <1>8, OneProc, EndedIs DEF Finish
  <2> QED
    BY <1>8, <2>1 DEF Finish, At, RestPc, Plain
<1> QED
  BY <1>3, <1>4, <1>5, <1>6, <1>7, <1>8 DEF RestoreStep

LEMMA OthersIs ==
  ASSUME TypeOK, NEW a \in Actors, OtherCalm(a)
  PROVE  /\ \A b \in Actors \ {a} : proc'[b] = proc[b]
         /\ proc'[a].rec \in Plain \cup {proc[a].rec}
         /\ body' = body /\ touched' = touched
         /\ \/ /\ proc'[a] = Ended(a) /\ lock' = (IF lock = a THEN NoOne ELSE lock)
               /\ proc[a].pc # "none" \/ proc[a].step # "ready"
            \/ proc'[a] = Ended(a) /\ proc[a].pc = "queued" /\ lock' = lock
            \/ /\ a \in Clis /\ At(a, "idle") /\ lock' = lock
               /\ proc'[a].pc = "queued" /\ proc'[a].step = "ready"
            \/ /\ proc[a].pc \in {"idle", "queued"} /\ lock = NoOne /\ lock' = a
               /\ proc[a].pc = "idle" => a \in Clis
               /\ proc'[a].pc = IF proc[a].pc = "idle" THEN "settle" ELSE "plan"
            \/ /\ proc[a].pc = "plan" /\ lock' = lock
               /\ proc'[a].pc \in {"refused", "finish", "undo"}
            \/ /\ proc[a].pc = "settle" /\ lock' = lock /\ proc'[a].pc = "finish"
            \/ /\ a = Wd /\ proc[a].pc \in {"spawned", "watch", "queued"} /\ lock' = lock
               /\ proc'[a].pc \in {"watch", "finish", "queued"}
<1> DEFINE p == proc[a]
<1> USE Kinds
<1>1. p \in Procs
  BY DEF TypeOK
<1>2. /\ {"queued", "plan", "refused", "finish", "undo", "settle", "watch"} \subseteq Pcs
      /\ {"AUDIT_ONLY", "CONFIRMED"} \subseteq States
  BY DEF Pcs, States, Terminal
<1>3. CASE a \in Clis /\ ScanOrphans(a)
  BY <1>2, <1>3, MovesIs DEF ScanOrphans, At, disk
<1>4. CASE RecoverEnters(a)
  BY <1>2, <1>4, MovesIs DEF RecoverEnters, At, disk
<1>5. CASE GiveUp(a)
  <2>1. CASE a = Wd /\ Says(a, Note, "finish")
    <3>1. /\ \A b \in Actors \ {a} : proc'[b] = proc[b]
          /\ proc'[a].pc = "finish" /\ proc'[a].rec = Note
      BY <1>1, <1>2, <2>1, SpeaksIs DEF Says
    <3> QED
      BY <1>5, <2>1, <3>1 DEF GiveUp, At, Plain
  <2>2. CASE Becomes(a, Ended(a))
    <3>1. /\ \A b \in Actors \ {a} : proc'[b] = proc[b]
          /\ proc'[a] = Ended(a) /\ Ended(a).rec = Note
      BY <2>2, OneProc, EndedIs
    <3> QED
      BY <1>5, <3>1 DEF GiveUp, At, Plain
  <2> QED
    BY <1>5, <2>1, <2>2 DEF GiveUp
<1>6. CASE Plan(a)
  <2>1. [p EXCEPT !.rest = Applied] \in Procs
    BY <1>1 DEF Procs, Applied
  <2>2. CASE Goto(a, "refused")
    BY <1>2, <1>6, <2>2, MovesIs DEF Plan, At
  <2>3. CASE Says(a, StateIs("AUDIT_ONLY"), "finish")
    <3>1. /\ \A b \in Actors \ {a} : proc'[b] = proc[b]
          /\ proc'[a].pc = "finish" /\ proc'[a].rec = StateIs("AUDIT_ONLY")
      BY <1>1, <1>2, <2>3, SpeaksIs DEF Says
    <3> QED
      BY <1>2, <1>6, <3>1 DEF Plan, At, Plain
  <2>4. CASE Becomes(a, Appending([p EXCEPT !.rest = Applied], Note, "undo"))
    <3>1. /\ \A b \in Actors \ {a} : proc'[b] = proc[b]
          /\ proc'[a].pc = "undo" /\ proc'[a].rec = Note
      BY <1>2, <2>1, <2>4, SpeaksIs
    <3> QED
      BY <1>6, <3>1 DEF Plan, At, Plain
  <2> QED
    BY <1>6, <2>2, <2>3, <2>4 DEF Plan, SetState
<1>7. CASE a \in Clis /\ Confirm(a)
  <2>1. /\ \A b \in Actors \ {a} : proc'[b] = proc[b]
        /\ proc'[a].pc = "settle" /\ proc'[a].rec = Note
    BY <1>1, <1>2, <1>7, SpeaksIs DEF Confirm, Says
  <2> QED
    BY <1>7, <2>1 DEF Confirm, At, Plain
<1>8. CASE Settle(a)
  <2>1. CASE Goto(a, "finish")
    BY <1>2, <1>8, <2>1, MovesIs DEF Settle, At
  <2>2. CASE Says(a, StateIs("CONFIRMED"), "finish")
    <3>1. /\ \A b \in Actors \ {a} : proc'[b] = proc[b]
          /\ proc'[a].pc = "finish" /\ proc'[a].rec = StateIs("CONFIRMED")
      BY <1>1, <1>2, <2>2, SpeaksIs DEF Says
    <3> QED
      BY <1>2, <1>8, <3>1 DEF Settle, At, Plain
  <2> QED
    BY <1>8, <2>1, <2>2 DEF Settle, SetState
<1>9. CASE a = Wd /\ (WdComesUp \/ WdSeesEnd \/ WdExpires)
  <2>1. PICK pc \in {"watch", "finish", "queued"} : Says(a, Note, pc)
    BY <1>9 DEF WdComesUp, WdSeesEnd, WdExpires
  <2>2. /\ \A b \in Actors \ {a} : proc'[b] = proc[b]
        /\ proc'[a].pc = pc /\ proc'[a].rec = Note
    BY <1>1, <1>2, <2>1, SpeaksIs DEF Says
  <2> QED
    BY <1>9, <2>2 DEF WdComesUp, WdSeesEnd, WdExpires, At, Plain
<1>10. CASE Crash(a)
  <2>1. /\ \A b \in Actors \ {a} : proc'[b] = proc[b]
        /\ proc'[a] = Ended(a) /\ Ended(a).rec = Note
    BY <1>10, OneProc, EndedIs DEF Crash, Dies
  <2> QED
    BY <1>10, <2>1 DEF Crash, Dies, Plain
<1> QED
  BY <1>3, <1>4, <1>5, <1>6, <1>7, <1>8, <1>9, <1>10 DEF OtherCalm, RecoverStep

\* What a step of the commit does, one line per action.
CommitEffect ==
  LET p == proc[Com]
      n == proc'[Com] IN
  \/ /\ p.pc = "snapshot" /\ n.pc = "event" /\ n.step = "ready"
     /\ \E r \in p.rest : body' = body \cup {r} /\ n.item = {r}
     /\ n.rest = p.rest /\ n.rec = p.rec
  \/ /\ p.pc = "event" /\ n.pc = "snapshot" /\ n.step = "look" /\ body' = body
     /\ \E r \in p.item : r \in Refs /\ n.rest = p.rest \ {r} /\ n.rec = Snapshot(r)
  \/ /\ p.pc = "snapshot" /\ n.pc = "finish" /\ body' = body /\ n.rec \in Plain \cup {p.rec}
  \/ /\ p.pc = "snapshot" /\ p.rest = {} /\ n.pc = "apply" /\ body' = body /\ n.rec \in Plain
  \/ /\ p.pc = "apply" /\ n.pc = "write" /\ n.step = "look" /\ body' = body
     /\ \E r \in Refs : n.item = {r} /\ n.rec = ApplyStart(r)
  \/ /\ p.pc = "write" /\ n.pc \in {"apply", "undo"} /\ body' = body /\ n.rec \in Plain
  \/ /\ p.pc = "apply" /\ n.pc \in {"finish", "arm"} /\ body' = body /\ n.rec \in Plain
     /\ n.pc = "arm" => Windows
  \/ /\ p.pc = "arm" /\ n.pc = "armwait" /\ body' = body /\ n.rec = p.rec
     /\ proc'[Wd].pc = "spawned" /\ proc'[Wd].step = proc[Wd].step
     /\ proc'[Wd].rec = proc[Wd].rec
  \/ /\ p.pc = "armwait" /\ n.pc \in {"finish", "undo"} /\ body' = body /\ n.rec = p.rec

LEMMA CommitIs ==
  ASSUME TypeOK, CommitStep
  PROVE  /\ lock' = lock /\ proc[Com].step = "ready" /\ CommitEffect
         /\ \A b \in Actors \ {Com, Wd} : proc'[b] = proc[b]
         /\ proc[Com].pc # "arm" => proc'[Wd] = proc[Wd]
         /\ touched' \subseteq touched \cup
              (IF proc[Com].pc = "write" THEN proc[Com].item ELSE {})
<1> DEFINE p == proc[Com]
           n == proc'[Com]
           Others == \A b \in Actors \ {Com} : proc'[b] = proc[b]
<1> USE Kinds
<1>1. Com \in Actors /\ Wd \in Actors /\ Com # Wd /\ p \in Procs
  BY DEF TypeOK, Actors
<1>2. /\ {"event", "snapshot", "finish", "apply", "write", "undo", "arm", "armwait"} \subseteq Pcs
      /\ {"AUDIT_ONLY", "APPLYING", "CONFIRMED", "APPLIED_UNCONFIRMED"} \subseteq States
  BY DEF Pcs, States, Terminal
<1>3. CASE SnapshotBody(Com)
  <2>1. PICK r \in p.rest :
          body' = body \cup {r} /\ Becomes(Com, [p EXCEPT !.pc = "event", !.item = {r}])
    BY <1>3 DEF SnapshotBody
  <2> DEFINE q == [p EXCEPT !.pc = "event", !.item = {r}]
  <2>2. /\ q \in Procs /\ q.step = p.step /\ q.pc = "event" /\ q.rec = p.rec
        /\ q.item = {r} /\ q.rest = p.rest
    BY <1>1, <1>2 DEF Procs
  <2>3. n = q /\ Others
    BY <1>1, <2>1, <2>2, OneProc
  <2> QED
    BY <1>1, <1>3, <2>1, <2>2, <2>3 DEF SnapshotBody, At, CommitEffect
<1>4. CASE SnapshotEvent(Com)
  <2>1. PICK r \in p.item :
          Becomes(Com, Appending([p EXCEPT !.item = {}, !.rest = @ \ {r}],
                                 Snapshot(r), "snapshot"))
    BY <1>4 DEF SnapshotEvent
  <2> DEFINE q == [p EXCEPT !.item = {}, !.rest = @ \ {r}]
  <2>2. /\ q \in Procs /\ r \in Refs /\ q.rest = p.rest \ {r}
        /\ Snapshot(r) \in Records /\ Becomes(Com, Appending(q, Snapshot(r), "snapshot"))
    BY <1>1, <2>1 DEF Procs
  <2> HIDE DEF q
  <2>3. /\ Others /\ n.pc = "snapshot" /\ n.rec = Snapshot(r) /\ n.step = "look"
        /\ n.rest = p.rest \ {r}
    BY <1>1, <1>2, <2>1, <2>2, SpeaksIs
  <2> QED
    BY <1>1, <1>4, <2>2, <2>3 DEF SnapshotEvent, At, CommitEffect
<1>5. CASE CloseUnapplied(Com)
  <2>1. CASE Says(Com, StateIs("AUDIT_ONLY"), "finish")
    <3>1. Others /\ n.pc = "finish" /\ n.rec = StateIs("AUDIT_ONLY")
      BY <1>1, <1>2, <2>1, SpeaksIs DEF Says
    <3> QED
      BY <1>1, <1>2, <1>5, <3>1 DEF CloseUnapplied, At, CommitEffect, Plain
  <2>2. CASE Goto(Com, "finish")
    <3>1. Others /\ n.pc = "finish" /\ n.rec = p.rec
      BY <1>1, <1>2, <2>2, MovesIs
    <3> QED
      BY <1>1, <1>5, <3>1 DEF CloseUnapplied, At, CommitEffect
  <2> QED
    BY <1>5, <2>1, <2>2 DEF CloseUnapplied, SetState
<1>6. CASE StartApplying(Com)
  <2>1. [p EXCEPT !.rest = Refs] \in Procs
    BY <1>1 DEF Procs
  <2>2. Others /\ n.pc = "apply" /\ n.rec = StateIs("APPLYING")
    BY <1>1, <1>2, <1>6, <2>1, SpeaksIs DEF StartApplying
  <2> QED
    BY <1>1, <1>2, <1>6, <2>2 DEF StartApplying, At, CommitEffect, Plain
<1>7. CASE StartApply(Com)
  <2>1. PICK r \in p.rest :
          Becomes(Com, Appending([p EXCEPT !.item = {r}, !.rest = @ \ {r}],
                                 ApplyStart(r), "write"))
    BY <1>7 DEF StartApply
  <2> DEFINE q == [p EXCEPT !.item = {r}, !.rest = @ \ {r}]
  <2>2. /\ q \in Procs /\ r \in Refs /\ q.item = {r}
        /\ ApplyStart(r) \in Records /\ Becomes(Com, Appending(q, ApplyStart(r), "write"))
    BY <1>1, <2>1 DEF Procs
  <2> HIDE DEF q
  <2>3. /\ Others /\ n.pc = "write" /\ n.rec = ApplyStart(r) /\ n.step = "look"
        /\ n.item = {r}
    BY <1>1, <1>2, <2>1, <2>2, SpeaksIs
  <2> QED
    BY <1>1, <1>7, <2>2, <2>3 DEF StartApply, At, CommitEffect
<1>8. CASE ApplyEnds(Com)
  <2>1. PICK pc \in {"apply", "undo"} :
          Becomes(Com, Appending([p EXCEPT !.item = {}, !.done = @ \cup p.item], Note, pc))
    BY <1>8 DEF ApplyEnds
  <2>2. [p EXCEPT !.item = {}, !.done = @ \cup p.item] \in Procs
    BY <1>1 DEF Procs
  <2>3. Others /\ n.pc = pc /\ n.rec = Note
    BY <1>1, <1>2, <2>1, <2>2, SpeaksIs
  <2> QED
    BY <1>1, <1>8, <2>3 DEF ApplyEnds, At, CommitEffect, Plain
<1>9. CASE Committed(Com)
  <2>1. PICK s \in {"CONFIRMED", "APPLIED_UNCONFIRMED"}, pc \in {"finish", "arm"} :
          Says(Com, StateIs(s), pc) /\ (pc = "arm" => Windows)
    BY <1>9 DEF Committed, SetState
  <2>2. Others /\ n.pc = pc /\ n.rec = StateIs(s)
    BY <1>1, <1>2, <2>1, SpeaksIs DEF Says
  <2> QED
    BY <1>1, <1>2, <1>9, <2>1, <2>2 DEF Committed, At, CommitEffect, Plain
<1>10. CASE SpawnWatchdog(Com)
  <2>1. /\ n = [p EXCEPT !.pc = "armwait"]
        /\ proc'[Wd] = [proc[Wd] EXCEPT !.pc = "spawned"]
        /\ \A b \in Actors \ {Com, Wd} : proc'[b] = proc[b]
    BY <1>1, <1>10 DEF SpawnWatchdog, TypeOK
  <2>2. proc[Wd] \in Procs
    BY <1>1 DEF TypeOK
  <2>3. /\ n.pc = "armwait" /\ n.rec = p.rec
        /\ proc'[Wd].pc = "spawned"
        /\ proc'[Wd].step = proc[Wd].step /\ proc'[Wd].rec = proc[Wd].rec
    BY <1>1, <2>1, <2>2 DEF Procs
  <2> QED
    BY <1>1, <1>10, <2>1, <2>3 DEF CommitEffect, SpawnWatchdog, At
<1>11. CASE ArmEnds(Com)
  <2>1. PICK pc \in {"finish", "undo"} : Goto(Com, pc)
    BY <1>11 DEF ArmEnds
  <2>2. Others /\ n.pc = pc /\ n.rec = p.rec
    BY <1>1, <1>2, <2>1, MovesIs
  <2> QED
    BY <1>1, <1>11, <2>2 DEF ArmEnds, At, CommitEffect
<1> QED
  BY <1>3, <1>4, <1>5, <1>6, <1>7, <1>8, <1>9, <1>10, <1>11 DEF CommitStep

-----------------------------------------------------------------------------
(* Who holds the lock where.                                               *)

Everywhere == \A b \in Actors : PcInv(b)

LEMMA AppendPc ==
  ASSUME IInv, NEW a \in Actors, AppendStep(a)
  PROVE  Everywhere' /\ EarlyInv'
<1>1. /\ lock' = lock /\ proc'[a].pc = proc[a].pc /\ proc[a].step # "ready"
      /\ \A b \in Actors \ {a} : proc'[b] = proc[b]
  <2>1. CASE Look(a)
    BY <2>1, LookIs DEF IInv, Look
  <2>2. CASE Mend(a)
    BY <2>2, MendIs DEF Mend
  <2>3. CASE Report(a) \/ Write(a)
    BY <2>3, PutIs DEF IInv, Report, Write, Busy
  <2> QED
    BY <2>1, <2>2, <2>3 DEF AppendStep
<1>2. \A b \in Actors : PcInv(b)'
  BY <1>1 DEF IInv, PcInv
<1>3. EarlyInv'
  BY <1>1 DEF IInv, EarlyInv, Alone, Actors
<1> QED
  BY <1>2, <1>3 DEF Everywhere

LEMMA CommitPc ==
  ASSUME IInv, CommitStep PROVE Everywhere' /\ EarlyInv'
<1>1. TypeOK /\ Com \in Actors /\ Wd \in Actors /\ Com # Wd
  BY DEF IInv, Actors
<1>2. /\ lock' = lock /\ proc[Com].step = "ready" /\ CommitEffect
      /\ \A b \in Actors \ {Com, Wd} : proc'[b] = proc[b]
      /\ proc[Com].pc # "arm" => proc'[Wd] = proc[Wd]
  BY <1>1, CommitIs
<1>3. lock = Com /\ proc[Com].pc \in Early \cup {"armwait"} /\ proc'[Com].pc \in ComPcs
  BY <1>1, <1>2, LogAssumption DEF IInv, PcInv, CommitEffect, ComPcs, Early
<1>4. PcInv(Com)'
  BY <1>2, <1>3, LogAssumption DEF PcInv
<1>5. PcInv(Wd)'
  <2>1. CASE proc[Com].pc = "arm"
    <3>1. proc[Wd].step = "ready"
      BY <1>1, <2>1, LogAssumption DEF IInv, PcInv, EarlyInv, Early, Alone, RestPcs
    <3>2. proc'[Wd].pc = "spawned" /\ proc'[Wd].step = "ready"
      BY <1>2, <2>1, <3>1 DEF CommitEffect
    <3> QED
      BY <3>2 DEF PcInv
  <2> QED
    BY <1>1, <1>2, <2>1 DEF IInv, PcInv
<1>6. ASSUME NEW b \in Clis PROVE PcInv(b)'
  BY <1>2, <1>6, LogAssumption DEF IInv, PcInv, Actors
<1>7. EarlyInv'
  BY <1>1, <1>2 DEF IInv, EarlyInv, CommitEffect, Early, Alone
<1> QED
  BY <1>4, <1>5, <1>6, <1>7 DEF Everywhere, Actors

LEMMA RestorePc ==
  ASSUME IInv, NEW a \in Actors, RestoreStep(a)
  PROVE  Everywhere' /\ EarlyInv'
<1>1. /\ \A b \in Actors \ {a} : proc'[b] = proc[b]
      /\ proc[a].pc \in RestPc \cup {"undo"}
      /\ \/ proc[a].pc # "finish" /\ lock' = lock /\ proc'[a].pc \in RestPc
         \/ /\ proc[a].pc = "refused" /\ lock' = NoOne
            /\ IF a = Wd THEN proc'[a].pc = "finish" ELSE proc'[a] = Ended(a)
         \/ /\ proc[a].pc = "finish" /\ lock' = (IF lock = a THEN NoOne ELSE lock)
            /\ proc'[a] = Ended(a)
  BY RestoreIs DEF IInv
<1>2. a = Wd => proc[a].pc # "none"
  BY <1>1 DEF RestPc
<1>3. PcInv(a) /\ (proc[a].pc = "refused" => lock = a)
  BY <1>1, LogAssumption DEF IInv, PcInv, Actors
<1>4. PcInv(a)'
  <2>1. CASE proc[a].pc # "finish" /\ lock' = lock /\ proc'[a].pc \in RestPc
    BY <1>1, <1>3, <2>1, LogAssumption DEF PcInv, Actors, RestPc, RestPcs, ComPcs
  <2>2. CASE proc'[a] = Ended(a)
    BY <2>2, EndedIs, LogAssumption DEF PcInv, Actors
  <2>3. CASE a = Wd /\ proc'[a].pc = "finish"
    BY <2>3 DEF PcInv
  <2> QED
    BY <1>1, <2>1, <2>2, <2>3
<1>5. ASSUME NEW b \in Actors \ {a} PROVE PcInv(b)'
  BY <1>1, <1>3, <1>5, LogAssumption DEF IInv, PcInv, Actors
<1>6. EarlyInv'
  BY <1>1, <1>2, EndedIs, LogAssumption DEF IInv, EarlyInv, Alone, Early, RestPc, Actors
<1> QED
  BY <1>4, <1>5, <1>6 DEF Everywhere

LEMMA DiesPc ==
  ASSUME IInv, NEW a \in Actors, proc'[a] = Ended(a),
         \A b \in Actors \ {a} : proc'[b] = proc[b],
         lock' = (IF lock = a THEN NoOne ELSE lock),
         proc[a].pc # "none" \/ proc[a].step # "ready"
  PROVE  Everywhere' /\ EarlyInv'
<1>1. PcInv(a)'
  BY EndedIs, LogAssumption DEF PcInv, Actors
<1>2. ASSUME NEW b \in Actors \ {a} PROVE PcInv(b)'
  <2>1. proc'[b] = proc[b] /\ PcInv(b) /\ (lock = b => lock' = b)
    BY DEF IInv
  <2> QED
    BY <2>1 DEF PcInv
<1>3. a = Wd => ~Alone
  BY LogAssumption DEF IInv, PcInv, Alone, RestPcs, Actors
<1>4. EarlyInv'
  <2>1. a = Com => proc'[Com].pc \notin Early
    BY EndedIs DEF Early
  <2>2. a # Com => proc'[Com] = proc[Com]
    BY DEF Actors
  <2>3. Alone => Alone'
    BY <1>3 DEF Alone, Actors
  <2>4. "arm" \in Early
    BY DEF Early
  <2> QED
    BY <2>1, <2>2, <2>3, <2>4 DEF IInv, EarlyInv
<1> QED
  BY <1>1, <1>2, <1>4 DEF Everywhere

LEMMA OthersPc ==
  ASSUME IInv, NEW a \in Actors, OtherCalm(a)
  PROVE  Everywhere' /\ EarlyInv'
<1> DEFINE Dead == /\ proc'[a] = Ended(a) /\ lock' = (IF lock = a THEN NoOne ELSE lock)
                   /\ proc[a].pc # "none" \/ proc[a].step # "ready"
           GaveUp == proc'[a] = Ended(a) /\ proc[a].pc = "queued" /\ lock' = lock
           Scans == /\ a \in Clis /\ At(a, "idle") /\ lock' = lock
                    /\ proc'[a].pc = "queued" /\ proc'[a].step = "ready"
           Enters == /\ proc[a].pc \in {"idle", "queued"} /\ lock = NoOne /\ lock' = a
                     /\ proc[a].pc = "idle" => a \in Clis
                     /\ proc'[a].pc = IF proc[a].pc = "idle" THEN "settle" ELSE "plan"
           Plans == /\ proc[a].pc = "plan" /\ lock' = lock
                    /\ proc'[a].pc \in {"refused", "finish", "undo"}
           Settles == /\ proc[a].pc = "settle" /\ lock' = lock /\ proc'[a].pc = "finish"
           Watches == /\ a = Wd /\ proc[a].pc \in {"spawned", "watch", "queued"} /\ lock' = lock
                      /\ proc'[a].pc \in {"watch", "finish", "queued"}
<1>1. /\ \A b \in Actors \ {a} : proc'[b] = proc[b]
      /\ Dead \/ GaveUp \/ Scans \/ Enters \/ Plans \/ Settles \/ Watches
  BY OthersIs DEF IInv
<1>a. CASE Dead
  BY <1>1, <1>a, DiesPc
<1>b. SUFFICES ASSUME ~Dead PROVE Everywhere' /\ EarlyInv'
  BY <1>a
<1>2. PcInv(a) /\ a \in Clis \cup {Com, Wd} /\ ~(Com \in Clis) /\ ~(Wd \in Clis)
  BY LogAssumption DEF IInv, Actors
<1>3. PcInv(a)'
  <2>1. CASE GaveUp
    BY <1>2, <2>1, EndedIs DEF PcInv
  <2>2. CASE Scans
    BY <1>2, <2>2 DEF PcInv
  <2>3. CASE Enters
    BY <1>2, <2>3 DEF PcInv, RestPcs, ComPcs, Early
  <2>4. CASE Plans \/ Settles
    BY <1>2, <2>4 DEF PcInv, RestPcs, ComPcs, Early
  <2>5. CASE Watches
    BY <1>2, <2>5 DEF PcInv
  <2> QED
    BY <1>1, <1>b, <2>1, <2>2, <2>3, <2>4, <2>5
<1>4. ASSUME NEW b \in Actors \ {a} PROVE PcInv(b)'
  <2>1. proc'[b] = proc[b] /\ PcInv(b) /\ b \in Clis \cup {Com, Wd} /\ b # a
        /\ b # NoOne
    BY <1>1, LogAssumption DEF IInv, Actors
  <2>2. lock = b => lock' = b
    BY <1>1, <1>b, <2>1
  <2> QED
    BY <2>1, <2>2 DEF PcInv
<1>5. EarlyInv'
  <2>1. a # Com => proc'[Com] = proc[Com]
    BY <1>1 DEF Actors
  <2>2. a = Com => proc'[Com].pc \notin Early
    BY <1>1, <1>b, <1>2, EndedIs DEF PcInv, Early, ComPcs
  <2>3. Alone => Alone' \/ a = Wd
    BY <1>1 DEF Alone, Actors
  <2>4. ~(a = Wd /\ Alone)
    BY <1>1, <1>b, <1>2 DEF Alone, PcInv, At
  <2>5. "arm" \in Early
    BY DEF Early
  <2> QED
    BY <2>1, <2>2, <2>3, <2>4, <2>5 DEF IInv, EarlyInv
<1> QED
  BY <1>3, <1>4, <1>5 DEF Everywhere

LEMMA TearPc ==
  ASSUME IInv, NEW a \in Actors, Tear(a)
  PROVE  Everywhere' /\ EarlyInv'
  BY TearIs, DiesPc DEF IInv, Tear, Dies, Busy

-----------------------------------------------------------------------------
(* The file: calm steps.                                                   *)

LEMMA CalmFile ==
  ASSUME IInv, NEW a \in Actors, Calm(a)
  PROVE  UnderLock' /\ TearInv'
<1>1. ASSUME NEW b \in Actors
      PROVE  /\ proc'[b].step \in {"mend", "report", "write"} =>
                  proc'[b].step = proc[b].step /\ proc'[b].cut = proc[b].cut
                    /\ proc'[b].seen = proc[b].seen
  BY <1>1 DEF Calm
<1>2. lines' = lines /\ tail' = tail /\ tears' = tears /\ (Alone' => Alone)
  BY DEF Calm
<1>3. UnderLock'
  BY <1>1, <1>2 DEF IInv, UnderLock, NoHole, Hole, Logged, Mending
<1>4. TearInv'
  <2>1. \A b \in Actors : /\ Mending(b)' => Mending(b)
                          /\ Cutting(b)' => Cutting(b) /\ proc'[b].cut = proc[b].cut
    BY <1>1 DEF Cutting, Mending
  <2> QED
    BY <1>2, <2>1 DEF IInv, TearInv
<1> QED
  BY <1>3, <1>4

\* A resource covered before is covered after.
LEMMA CalmCovers ==
  ASSUME NEW a \in Actors, Calm(a), NEW r \in Refs, Covered(r, Len(lines)),
         \A b \in Actors : Cutting(b) => Covered(r, proc[b].cut)
  PROVE  Covered(r, Len(lines))' /\ \A b \in Actors : Cutting(b)' => Covered(r, proc[b].cut)'
<1>1. lines' = lines /\ body \subseteq body'
  BY DEF Calm
<1>2. ASSUME NEW b \in Actors, Cutting(b)' PROVE Cutting(b) /\ proc'[b].cut = proc[b].cut
  BY <1>2 DEF Calm, Cutting, Mending
<1> QED
  BY <1>1, <1>2 DEF Covered, Within

LEMMA CalmCover ==
  ASSUME IInv, NEW a \in Actors, Calm(a), touched' \subseteq touched
  PROVE  CoverInv'
<1>1. touched \subseteq Refs
  BY DEF IInv, TypeOK
<1> QED
  BY <1>1, CalmCovers DEF IInv, CoverInv

\* Records that are not snapshots say nothing of a body.
LEMMA CalmBody ==
  ASSUME IInv, NEW a \in Actors, Calm(a), \A b \in Actors \ {a} : proc'[b].rec = proc[b].rec,
         \/ proc'[a].rec \in Plain \cup {proc[a].rec}
         \/ \E r \in Refs : proc'[a].rec = ApplyStart(r)
         \/ \E r \in body : proc'[a].rec = Snapshot(r)
  PROVE  BodyInv'
<1>1. lines' = lines /\ tail' = tail /\ body \subseteq body'
  BY DEF Calm
<1>2. ASSUME NEW r \in Refs, proc'[a].rec = Snapshot(r) PROVE r \in body
  <2>1. body \subseteq Refs
    BY DEF IInv, TypeOK
  <2> QED
    BY <1>2, <2>1, Distinct DEF IInv, BodyInv, Plain
<1> QED
  BY <1>1, <1>2 DEF IInv, BodyInv, Read, Logged

\* The commit is not at work on its resources, or it did not move.
LEMMA CalmJob ==
  ASSUME IInv, NEW a \in Actors, Calm(a),
         \/ proc'[Com] = proc[Com]
         \/ proc'[Com].pc \notin {"snapshot", "event", "apply", "write"}
  PROVE  JobInv'
<1>1. lines' = lines /\ body \subseteq body'
  BY DEF Calm
<1>2. CASE proc'[Com] = proc[Com]
  BY <1>1, <1>2 DEF IInv, JobInv, Stored, Logged
<1>3. CASE proc'[Com].pc \notin {"snapshot", "event", "apply", "write"}
  BY <1>3 DEF JobInv
<1> QED
  BY <1>2, <1>3

LEMMA RestoreKeeps ==
  ASSUME IInv, NEW a \in Actors, RestoreStep(a) PROVE IInv'
<1>1. TypeOK
  BY DEF IInv
<1>2. TypeOK' /\ Calm(a)
  BY <1>1, RestoreCalm
<1>3. Everywhere' /\ EarlyInv'
  BY RestorePc
<1>4. UnderLock' /\ TearInv'
  BY <1>2, CalmFile
<1>5. CoverInv' /\ BodyInv'
  BY <1>1, <1>2, RestoreIs, CalmCover, CalmBody
<1>6. JobInv'
  <2>1. a = Com => proc'[Com].pc \notin {"snapshot", "event", "apply", "write"}
    BY <1>1, RestoreIs, EndedIs DEF RestPc
  <2> QED
    BY <1>1, <1>2, <2>1, RestoreIs, CalmJob DEF Actors
<1> QED
  BY <1>2, <1>3, <1>4, <1>5, <1>6 DEF IInv, Everywhere

LEMMA OthersKeep ==
  ASSUME IInv, NEW a \in Actors, OtherCalm(a) PROVE IInv'
<1>1. TypeOK
  BY DEF IInv
<1>2. TypeOK' /\ Calm(a)
  BY <1>1, OthersCalm
<1>3. Everywhere' /\ EarlyInv'
  BY OthersPc
<1>4. UnderLock' /\ TearInv'
  BY <1>2, CalmFile
<1>5. CoverInv' /\ BodyInv'
  BY <1>1, <1>2, OthersIs, CalmCover, CalmBody
<1>6. JobInv'
  <2>1. a = Com => proc'[Com].pc \notin {"snapshot", "event", "apply", "write"}
    BY <1>1, OthersIs, EndedIs
  <2> QED
    BY <1>1, <1>2, <2>1, OthersIs, CalmJob DEF Actors
<1> QED
  BY <1>2, <1>3, <1>4, <1>5, <1>6 DEF IInv, Everywhere

\* At work under the lock, and between two appends, the commit has nobody
\* beside it who appends.
LEMMA Quiet ==
  ASSUME IInv, proc[Com].pc \in Early, NEW b \in Actors, b # Com
  PROVE  proc[b].step = "ready"
<1>1. lock = Com /\ Alone
  BY LogAssumption DEF IInv, PcInv, EarlyInv, Early, Actors
<1>2. proc[b].step # "ready" => lock = b
  BY <1>1, LogAssumption DEF IInv, PcInv, Alone, Actors, RestPcs
<1> QED
  BY <1>1, <1>2

LEMMA CommitKeeps ==
  ASSUME IInv, CommitStep PROVE IInv'
<1> DEFINE p == proc[Com]
           n == proc'[Com]
<1>1. TypeOK /\ Com \in Actors /\ Wd \in Actors /\ lines \in Seq(Records \cup {Junk})
  BY DEF IInv, TypeOK, Actors
<1>2. TypeOK' /\ Calm(Com)
  BY <1>1, CommitCalm
<1>3. Everywhere' /\ EarlyInv'
  BY CommitPc
<1>4. UnderLock' /\ TearInv'
  BY <1>1, <1>2, CalmFile
<1>5. /\ p.step = "ready" /\ CommitEffect
      /\ touched' \subseteq touched \cup (IF p.pc = "write" THEN p.item ELSE {})
  BY <1>1, CommitIs
<1>6. CoverInv'
  <2>1. CASE touched' \subseteq touched
    BY <1>1, <1>2, <2>1, CalmCover
  <2>2. CASE p.pc = "write"
    <3>1. \A b \in Actors : ~Cutting(b)
      BY <1>5, <2>2, Quiet DEF Early, Cutting, Mending
    <3>2. ASSUME NEW r \in p.item, r \in Refs PROVE Covered(r, Len(lines))
      BY <1>1, <1>5, <2>2, <3>2 DEF IInv, JobInv, Stored, Logged, Covered, Within
    <3>3. touched' \subseteq Refs
      BY <1>2 DEF TypeOK
    <3>4. ASSUME NEW r \in touched' PROVE Covered(r, Len(lines))
      BY <1>5, <2>2, <3>2, <3>3 DEF IInv, CoverInv
    <3> QED
      BY <1>1, <1>2, <3>1, <3>3, <3>4, CalmCovers DEF CoverInv
  <2> QED
    BY <1>5, <2>1, <2>2
<1>7. BodyInv'
  <2>1. p.pc = "event" => p.item \subseteq body
    BY DEF IInv, JobInv
  <2>2. \/ n.rec \in Plain \cup {p.rec}
        \/ \E r \in Refs : n.rec = ApplyStart(r)
        \/ \E r \in body : n.rec = Snapshot(r)
    BY <1>5, <2>1 DEF CommitEffect
  <2> QED
    BY <1>1, <1>2, <2>2, CalmBody DEF Calm
<1>8. JobInv'
  <2>1. lines' = lines /\ body \subseteq body'
    BY <1>2 DEF Calm
  <2>2. CASE p.pc = "snapshot" /\ n.pc = "event"
    <3>1. PICK r \in p.rest : body' = body \cup {r} /\ n.item = {r} /\ n.step = "ready"
                              /\ n.rest = p.rest
      BY <1>5, <2>2 DEF CommitEffect
    <3> QED
      BY <1>5, <2>1, <2>2, <3>1 DEF IInv, JobInv, Stored, Logged
  <2>3. CASE p.pc = "event"
    <3>1. PICK r \in p.item : /\ n.rest = p.rest \ {r} /\ n.rec = Snapshot(r)
                              /\ n.step = "look" /\ n.pc = "snapshot"
      BY <1>5, <2>3 DEF CommitEffect
    <3> QED
      BY <2>1, <2>3, <3>1 DEF IInv, JobInv, Stored, Logged
  <2>4. CASE p.pc = "snapshot" /\ n.pc = "apply"
    BY <1>5, <2>1, <2>4 DEF IInv, JobInv, Stored, Logged, CommitEffect
  <2>5. CASE p.pc = "apply" /\ n.pc = "write"
    <3>1. PICK r \in Refs : n.item = {r} /\ n.rec = ApplyStart(r) /\ n.step = "look"
      BY <1>5, <2>5 DEF CommitEffect
    <3> QED
      BY <2>1, <2>5, <3>1 DEF IInv, JobInv, Stored, Logged
  <2>6. CASE p.pc = "write" /\ n.pc = "apply"
    BY <2>1, <2>6 DEF IInv, JobInv, Stored, Logged
  <2>7. CASE n.pc \notin {"snapshot", "event", "apply", "write"}
    BY <2>7 DEF JobInv
  <2> QED
    BY <1>5, <2>2, <2>3, <2>4, <2>5, <2>6, <2>7 DEF CommitEffect
<1> QED
  BY <1>2, <1>3, <1>4, <1>6, <1>7, <1>8 DEF IInv, Everywhere

-----------------------------------------------------------------------------
(* The file: the steps of append().                                        *)

\* What was in the file when it grew is still there.
LEMMA Grown ==
  ASSUME TypeOK, NEW x \in Records \cup {Junk}, lines' = Append(lines, x), body' = body
  PROVE  /\ \A rec : Logged(rec)' <=> Logged(rec) \/ rec = x
         /\ \A r, n : Covered(r, n) => Covered(r, n)'
         /\ \A r : Covered(r, Len(lines)) => Covered(r, Len(lines))'
         /\ Len(lines) \in Nat /\ Len(lines') = Len(lines) + 1
<1>1. /\ lines \in Seq(Records \cup {Junk}) /\ Len(lines) \in Nat
      /\ Len(lines') = Len(lines) + 1 /\ lines' \in Seq(Records \cup {Junk})
      /\ \A i \in 1..Len(lines) : lines'[i] = lines[i]
      /\ lines'[Len(lines) + 1] = x
  BY Appended DEF TypeOK
<1>2. DOMAIN lines = 1..Len(lines) /\ DOMAIN lines' = 1..(Len(lines) + 1)
  BY <1>1
<1>3. ASSUME NEW rec PROVE Logged(rec)' <=> Logged(rec) \/ rec = x
  BY <1>1, <1>2 DEF Logged
<1>4. ASSUME NEW rec, NEW n, Within(rec, n) PROVE Within(rec, n)'
  BY <1>1, <1>2, <1>4 DEF Within
<1>5. ASSUME NEW rec, Within(rec, Len(lines)) PROVE Within(rec, Len(lines))'
  BY <1>1, <1>2, <1>5 DEF Within
<1> QED
  BY <1>1, <1>3, <1>4, <1>5 DEF Covered

LEMMA LookKeeps ==
  ASSUME IInv, NEW a \in Actors, Look(a) PROVE IInv'
<1>1. /\ TypeOK' /\ UNCHANGED <<lines, tail, body, touched, tears, lock>>
      /\ \A b \in Actors \ {a} : proc'[b] = proc[b]
      /\ proc[a].step = "look" /\ proc'[a].pc = proc[a].pc /\ proc'[a].rec = proc[a].rec
      /\ proc'[a].rest = proc[a].rest /\ proc'[a].item = proc[a].item
      /\ \/ tail = NoTail /\ proc'[a].step = "write"
         \/ /\ tail # NoTail /\ proc'[a].step = "mend"
            /\ proc'[a].cut = Len(lines) /\ proc'[a].seen = tail
  BY LookIs DEF IInv, Look, disk
<1>2. Everywhere' /\ EarlyInv'
  BY AppendPc DEF AppendStep
<1>3. Alone' <=> Alone
  BY <1>1 DEF Alone, Actors
<1>4. lines \in Seq(Records \cup {Junk}) /\ Len(lines) \in Nat
  BY DEF IInv, TypeOK
<1>5. UnderLock'
  <2>1. ASSUME Alone, NEW b \in Actors
        PROVE  /\ Mending(b)' => /\ tail # NoTail /\ proc'[b].seen = tail
                                 /\ proc'[b].cut = Len(lines)
               /\ proc'[b].step \in {"report", "write"} => tail = NoTail
    BY <1>1, <2>1 DEF IInv, UnderLock, Mending
  <2> QED
    BY <1>1, <1>3, <2>1 DEF IInv, UnderLock, NoHole, Hole, Logged, Mending
<1>6. TearInv'
  <2>1. tears = 0 => \A b \in Actors : ~Mending(b)'
    BY <1>1 DEF IInv, TearInv, Mending
  <2>2. ASSUME NEW b \in Actors, Cutting(b)'
        PROVE  \/ Cutting(b) /\ proc'[b].cut = proc[b].cut
               \/ tail = Torn /\ proc'[b].cut = Len(lines)
    BY <1>1, <2>2 DEF Cutting, Mending
  <2> QED
    BY <1>1, <1>4, <2>1, <2>2 DEF IInv, TearInv
<1>7. CoverInv'
  <2>1. ASSUME NEW b \in Actors, Cutting(b)'
        PROVE  (Cutting(b) /\ proc'[b].cut = proc[b].cut) \/ proc'[b].cut = Len(lines)
    BY <1>1, <2>1 DEF Cutting, Mending
  <2> QED
    BY <1>1, <2>1 DEF IInv, CoverInv, Covered, Within
<1>8. BodyInv'
  BY <1>1 DEF IInv, BodyInv, Read, Logged
<1>9. JobInv'
  <2>1. CASE a = Com
    BY <1>1, <2>1 DEF IInv, JobInv, Stored, Logged
  <2>2. CASE a # Com
    BY <1>1, <2>2 DEF IInv, JobInv, Stored, Logged, Actors
  <2> QED
    BY <2>1, <2>2
<1> QED
  BY <1>1, <1>2, <1>5, <1>6, <1>7, <1>8, <1>9 DEF IInv, Everywhere

LEMMA PutKeeps ==
  ASSUME IInv, NEW a \in Actors, Report(a) \/ Write(a) PROVE IInv'
<1> USE Kinds
<1>1. /\ TypeOK' /\ UNCHANGED <<body, touched, tears, lock>>
      /\ \A b \in Actors \ {a} : proc'[b] = proc[b]
      /\ Busy(a) /\ ~Mending(a) /\ tail' = NoTail
      /\ Line(a) \in Records \cup {Junk} /\ lines' = Append(lines, Line(a))
      /\ proc'[a].pc = proc[a].pc
      /\ proc'[a].rest = proc[a].rest /\ proc'[a].item = proc[a].item
      /\ \/ /\ proc[a].step = "report" /\ proc'[a].step = "write"
            /\ proc'[a].rec = proc[a].rec
         \/ /\ proc[a].step = "write" /\ proc'[a].step = "ready"
            /\ proc'[a].rec = Note
  BY PutIs DEF IInv, Report, Write
<1>2. Everywhere' /\ EarlyInv'
  BY AppendPc DEF AppendStep
<1>3. Alone' <=> Alone
  BY <1>1 DEF Alone, Actors
<1>4. TypeOK
  BY DEF IInv
<1>5. /\ \A rec : Logged(rec)' <=> Logged(rec) \/ rec = Line(a)
      /\ \A r, n : Covered(r, n) => Covered(r, n)'
      /\ \A r : Covered(r, Len(lines)) => Covered(r, Len(lines))'
      /\ Len(lines) \in Nat /\ Len(lines') = Len(lines) + 1
  BY <1>1, <1>4, Grown
<1>6. Alone => Line(a) = IF proc[a].step = "report" THEN Note ELSE proc[a].rec
  BY <1>1 DEF IInv, UnderLock, Line, Completed
<1>7. UnderLock'
  <2>1. proc[a].rec \in Records
    BY <1>4 DEF TypeOK, Procs
  <2>2. Alone => ~Logged(Junk)'
    BY <1>5, <1>6, <2>1 DEF IInv, UnderLock, NoHole, Hole
  <2>3. ASSUME Alone, NEW b \in Actors PROVE ~Mending(b)'
    <3>1. CASE b = a
      BY <1>1, <3>1 DEF Mending
    <3>2. CASE b # a
      BY <1>1, <2>3, <3>2, OneWriter DEF Mending, Busy
    <3> QED
      BY <3>1, <3>2
  <2> QED
    BY <1>1, <1>3, <2>2, <2>3 DEF UnderLock, NoHole, Hole
<1>8. TearInv'
  <2>1. \A b \in Actors : /\ Mending(b)' => Mending(b)
                          /\ Cutting(b)' => Cutting(b) /\ proc'[b].cut = proc[b].cut
    BY <1>1 DEF Cutting, Mending
  <2>2. \A b \in Actors : Cutting(b) => proc[b].cut \in Nat
    BY <1>4 DEF TypeOK, Procs
  <2> QED
    BY <1>1, <1>5, <2>1, <2>2 DEF IInv, TearInv
<1>9. CoverInv'
  <2>1. \A b \in Actors : Cutting(b)' => Cutting(b) /\ proc'[b].cut = proc[b].cut
    BY <1>1 DEF Cutting, Mending
  <2> QED
    BY <1>1, <1>5, <2>1 DEF IInv, CoverInv
<1>10. BodyInv'
  <2>1. ASSUME NEW r \in Refs, Line(a) = Snapshot(r) PROVE r \in body
    BY <2>1, Distinct DEF IInv, BodyInv, Line, Completed
  <2>2. ASSUME NEW r \in Refs, Read(Snapshot(r))' PROVE r \in body
    BY <1>1, <1>5, <2>1, <2>2 DEF IInv, BodyInv, Read
  <2>3. ASSUME NEW r \in Refs, NEW b \in Actors, proc'[b].rec = Snapshot(r) PROVE r \in body
    BY <1>1, <2>3, Distinct DEF IInv, BodyInv
  <2> QED
    BY <1>1, <2>2, <2>3 DEF BodyInv
<1>11. JobInv'
  <2>1. CASE proc[Com].pc \notin Early
    BY <1>1, <2>1 DEF JobInv, Early, Actors
  <2>2. CASE proc[Com].pc \in Early
    <3>1. a = Com
      BY <1>1, <2>2, Quiet DEF Busy
    <3>2. Alone
      BY <2>2 DEF IInv, EarlyInv
    <3>3. \A rec : /\ Logged(rec) => Logged(rec)'
                   /\ proc[a].rec = rec /\ proc[a].step = "write" => Logged(rec)'
      BY <1>5, <1>6, <3>2
    <3> QED
      BY <1>1, <3>1, <3>3 DEF IInv, JobInv, Stored, Busy
  <2> QED
    BY <2>1, <2>2
<1> QED
  BY <1>1, <1>2, <1>7, <1>8, <1>9, <1>10, <1>11 DEF IInv, Everywhere

LEMMA MendKeeps ==
  ASSUME IInv, NEW a \in Actors, Mend(a) PROVE IInv'
<1> USE Kinds
<1> DEFINE p == proc[a]
<1>1. /\ TypeOK' /\ UNCHANGED <<body, touched, tears, lock>>
      /\ \A b \in Actors \ {a} : proc'[b] = proc[b]
      /\ p.step = "mend" /\ proc'[a].step = "report" /\ tail' = NoTail
      /\ proc'[a].pc = p.pc /\ proc'[a].rec = p.rec
      /\ proc'[a].rest = p.rest /\ proc'[a].item = p.item
  BY MendIs DEF Mend
<1>2. \/ /\ Cutting(a) /\ Len(lines') = p.cut
         /\ \A i \in 1..p.cut : lines'[i] = lines[i]
         /\ p.cut = Len(lines) => lines' = lines
      \/ ~Cutting(a) /\ lines' = lines
      \/ /\ ~Cutting(a) /\ tail # NoTail
         /\ lines' = Append(lines, IF tail = Torn THEN Junk ELSE tail)
  BY MendIs
<1>3. Everywhere' /\ EarlyInv' /\ (Alone' <=> Alone)
  <2>1. Everywhere' /\ EarlyInv'
    BY AppendPc DEF AppendStep
  <2> QED
    BY <1>1, <2>1 DEF Alone, Actors
<1>4. /\ TypeOK /\ lines \in Seq(Records \cup {Junk}) /\ Len(lines) \in Nat
      /\ tail \in Records \cup {Torn, NoTail} /\ p.cut \in Nat
      /\ lines' \in Seq(Records \cup {Junk})
  BY <1>1 DEF IInv, TypeOK, Procs
<1>5. \A b \in Actors : /\ Mending(b)' => Mending(b) /\ b # a
                        /\ Cutting(b)' => /\ Cutting(b) /\ proc'[b].cut = proc[b].cut
                                          /\ proc[b].cut \in Nat
  BY <1>1, <1>4 DEF Cutting, Mending, TypeOK, Procs
<1> HIDE DEF p
<1>6. CASE Cutting(a)
  <2>1. /\ Len(lines') = p.cut /\ p.cut <= Len(lines)
        /\ \A i \in 1..p.cut : lines'[i] = lines[i]
        /\ p.cut = Len(lines) => lines' = lines
    BY <1>2, <1>6, CutKnown DEF p
  <2>a. PICK c \in Nat : c = p.cut
    BY <1>4
  <2>2. ASSUME NEW r, Covered(r, c) PROVE Covered(r, Len(lines))' /\ Covered(r, c)'
    <3>1. DOMAIN lines = 1..Len(lines) /\ DOMAIN lines' = 1..c /\ Len(lines') = c
      BY <1>4, <2>1, <2>a
    <3>2. ASSUME NEW rec, Within(rec, c) PROVE Within(rec, Len(lines))' /\ Within(rec, c)'
      <4>1. PICK i \in 1..Len(lines) : i <= c /\ lines[i] = rec
        BY <3>1, <3>2 DEF Within
      <4>2. i \in DOMAIN lines' /\ lines'[i] = rec
        BY <1>4, <2>1, <2>a, <3>1, <4>1
      <4> QED
        BY <3>1, <4>1, <4>2 DEF Within
    <3> QED
      BY <1>1, <2>2, <3>2 DEF Covered
  <2>3. Alone => lines' = lines
    BY <1>6, <2>1 DEF IInv, UnderLock, Cutting, p
  <2>4. \A b \in Actors : Cutting(b) => proc[b].cut = p.cut
    BY <1>6, CutKnown DEF p
  <2>5. UnderLock'
    <3>1. ASSUME Alone, NEW b \in Actors PROVE ~Mending(b)'
      BY <1>1, <1>5, <3>1, OneWriter DEF Mending, p
    <3> QED
      BY <1>1, <1>3, <2>3, <3>1 DEF IInv, UnderLock, NoHole, Hole, Logged
  <2>6. TearInv'
    BY <1>1, <1>4, <1>5, <2>1, <2>4 DEF IInv, TearInv
  <2>7. CoverInv'
    <3>1. ASSUME NEW r \in touched PROVE Covered(r, c)
      BY <1>6, <2>a DEF IInv, CoverInv, p
    <3>2. ASSUME NEW b \in Actors, Cutting(b)' PROVE proc'[b].cut = c
      BY <1>5, <2>4, <2>a, <3>2
    <3> QED
      BY <1>1, <2>2, <3>1, <3>2 DEF CoverInv
  <2>8. BodyInv'
    <3>1. \A rec : Logged(rec)' => Logged(rec)
      BY <1>4, <2>1 DEF Logged
    <3> QED
      BY <1>1, <3>1, Kinds DEF IInv, BodyInv, Read, p
  <2>9. JobInv'
    <3>1. CASE proc[Com].pc \notin Early
      BY <1>1, <3>1 DEF JobInv, Early, Actors, p
    <3>2. CASE proc[Com].pc \in Early
      <4>1. a = Com /\ lines' = lines
        BY <1>1, <2>3, <3>2, Quiet DEF p, IInv, EarlyInv
      <4> QED
        BY <1>1, <4>1 DEF IInv, JobInv, Stored, Logged, p
    <3> QED
      BY <3>1, <3>2
  <2> QED
    BY <1>1, <1>3, <2>5, <2>6, <2>7, <2>8, <2>9 DEF IInv, Everywhere
<1>7. CASE ~Cutting(a)
  <2> DEFINE x == IF tail = Torn THEN Junk ELSE tail
  <2>1. /\ \A rec : Logged(rec) => Logged(rec)'
        /\ \A r \in Refs : Read(Snapshot(r))' => Read(Snapshot(r))
        /\ \A r, n : Covered(r, n) => Covered(r, n)'
        /\ \A r : Covered(r, Len(lines)) => Covered(r, Len(lines))'
        /\ Len(lines') \in Nat /\ Len(lines') >= Len(lines)
        /\ Alone => (NoHole => NoHole')
    <3>1. CASE lines' = lines
      BY <1>1, <1>4, <3>1 DEF Logged, Covered, Within, Read, NoHole, Hole
    <3>2. CASE tail # NoTail /\ lines' = Append(lines, x)
      <4>1. x \in Records \cup {Junk}
        BY <1>4, <3>2
      <4>2. /\ \A rec : Logged(rec)' <=> Logged(rec) \/ rec = x
            /\ \A r, n : Covered(r, n) => Covered(r, n)'
            /\ \A r : Covered(r, Len(lines)) => Covered(r, Len(lines))'
            /\ Len(lines) \in Nat /\ Len(lines') = Len(lines) + 1
        BY <1>1, <1>4, <3>2, <4>1, Grown
      <4>3. Alone => tail # Torn
        BY <1>1, <1>7 DEF IInv, UnderLock, Cutting, Mending, p
      <4> QED
        BY <1>1, <4>2, <4>3, <1>4 DEF Read, NoHole, Hole
    <3> QED
      BY <1>2, <1>7, <3>1, <3>2
  <2>5. UnderLock'
    <3>1. ASSUME Alone, NEW b \in Actors PROVE ~Mending(b)'
      BY <1>1, <1>5, <3>1, OneWriter DEF Mending, p
    <3> QED
      BY <1>1, <1>3, <2>1, <3>1 DEF IInv, UnderLock
  <2>6. TearInv'
    BY <1>1, <1>4, <1>5, <2>1 DEF IInv, TearInv
  <2>7. CoverInv'
    BY <1>1, <1>5, <2>1 DEF IInv, CoverInv
  <2>8. BodyInv'
    BY <1>1, <2>1 DEF IInv, BodyInv, p
  <2>9. JobInv'
    <3>1. CASE proc[Com].pc \notin Early
      BY <1>1, <3>1 DEF JobInv, Early, Actors, p
    <3>2. CASE proc[Com].pc \in Early
      <4>1. a = Com
        BY <1>1, <3>2, Quiet DEF p
      <4> QED
        BY <1>1, <2>1, <4>1 DEF IInv, JobInv, Stored, p
    <3> QED
      BY <3>1, <3>2
  <2> QED
    BY <1>1, <1>3, <2>5, <2>6, <2>7, <2>8, <2>9 DEF IInv, Everywhere
<1> QED
  BY <1>6, <1>7

LEMMA TearKeeps ==
  ASSUME IInv, NEW a \in Actors, Tear(a) PROVE IInv'
<1> USE Kinds
<1>1. /\ TypeOK' /\ tears < MaxTears /\ tears' = tears + 1
      /\ UNCHANGED <<lines, body, state, marker, touched>>
      /\ \A b \in Actors \ {a} : proc'[b] = proc[b]
      /\ proc'[a] = Ended(a) /\ Ended(a).step = "ready" /\ Ended(a).rec = Note
      /\ Busy(a) /\ ~Mending(a)
      /\ \/ tail' = Torn
         \/ /\ tail = NoTail /\ tail' \in Records
            /\ tail' = IF proc[a].step = "write" THEN proc[a].rec ELSE Note
  BY TearIs, EndedIs DEF IInv
<1>2. Everywhere' /\ EarlyInv'
  BY TearPc
<1>3. tears \in Nat /\ TypeOK
  BY DEF IInv, TypeOK
<1>4. Alone' => Alone
  BY <1>1, EndedIs DEF Alone, Actors
<1>5. UnderLock'
  <2>1. ASSUME Alone, NEW b \in Actors PROVE ~Busy(b)'
    BY <1>1, <2>1, OneWriter DEF Busy
  <2> QED
    BY <1>1, <1>4, <2>1 DEF IInv, UnderLock, NoHole, Hole, Logged, Busy, Mending
<1>6. \A b \in Actors : Cutting(b)' => Cutting(b) /\ proc'[b].cut = proc[b].cut
  BY <1>1 DEF Cutting, Mending
<1>7. TearInv'
  <2>1. Windows => tears = 0 /\ tears' = 1
    BY <1>1, <1>3, LogAssumption
  <2>2. Windows => \A b \in Actors : ~Cutting(b)
    BY <2>1 DEF IInv, TearInv, Cutting
  <2> QED
    BY <1>1, <1>3, <1>6, <2>1, <2>2 DEF TearInv
<1>8. CoverInv'
  BY <1>1, <1>6 DEF IInv, CoverInv, Covered, Within
<1>9. BodyInv'
  BY <1>1, Distinct DEF IInv, BodyInv, Read, Logged
<1>10. JobInv'
  <2>1. CASE a = Com
    BY <1>1, <2>1, EndedIs DEF JobInv
  <2>2. CASE a # Com
    BY <1>1, <2>2 DEF IInv, JobInv, Stored, Logged, Actors
  <2> QED
    BY <2>1, <2>2
<1> QED
  BY <1>1, <1>2, <1>5, <1>7, <1>8, <1>9, <1>10 DEF IInv, Everywhere

-----------------------------------------------------------------------------
(* The invariant, and what follows from it.                                *)

LEMMA InitInv == Init => IInv
<1> USE Kinds
<1> SUFFICES ASSUME Init PROVE IInv
  OBVIOUS
<1>1. TypeOK
  BY InitTypes
<1>2. /\ lines = <<>> /\ tail = NoTail /\ body = {} /\ touched = {} /\ lock = Com
      /\ tears = 0
  BY DEF Init
<1>3. /\ [Fresh("none") EXCEPT !.rest = Refs] \in Procs /\ "snapshot" \in Pcs
      /\ [Fresh("none") EXCEPT !.rest = Refs].rest = Refs
  BY DEF Fresh, Procs, Pcs, Steps
<1>4. /\ proc[Com].pc = "snapshot" /\ proc[Com].step = "look" /\ proc[Com].rest = Refs
      /\ proc[Com].rec = Note
  <2> DEFINE q == [Fresh("none") EXCEPT !.rest = Refs]
  <2>1. proc[Com] = Appending(q, Note, "snapshot")
    BY DEF Init, Actors
  <2>2. q \in Procs /\ q.rest = Refs
    BY <1>3
  <2> HIDE DEF q
  <2> QED
    BY <1>3, <2>1, <2>2, AppendingIs
<1>5. ASSUME NEW b \in Actors, b # Com
      PROVE  proc[b].pc = (IF b = Wd THEN "none" ELSE "idle") /\ proc[b].step = "ready"
             /\ proc[b].rec = Note
  BY <1>5 DEF Init, Fresh
<1>6. \A b \in Actors : PcInv(b)
  BY <1>2, <1>4, <1>5, LogAssumption DEF PcInv, ComPcs, Early, Actors
<1>7. Alone /\ EarlyInv
  BY <1>4, <1>5, LogAssumption DEF EarlyInv, Alone, Actors
<1>8. \A b \in Actors : ~Busy(b) /\ ~Mending(b) /\ ~Cutting(b)
  BY <1>4, <1>5 DEF Busy, Mending, Cutting
<1>9. \A rec : ~Logged(rec)
  BY <1>2 DEF Logged
<1>10. UnderLock /\ TearInv /\ CoverInv
  BY <1>2, <1>8, <1>9, LogAssumption DEF UnderLock, NoHole, Hole, TearInv, CoverInv, Busy
<1>11. BodyInv
  BY <1>2, <1>4, <1>5, <1>9, Distinct DEF BodyInv, Read
<1>12. JobInv
  BY <1>4 DEF JobInv
<1> QED
  BY <1>1, <1>6, <1>7, <1>10, <1>11, <1>12 DEF IInv

LEMMA NextInv == IInv /\ [Next]_vars => IInv'
<1> SUFFICES ASSUME IInv, [Next]_vars PROVE IInv'
  OBVIOUS
<1>1. CASE CommitStep
  BY <1>1, CommitKeeps
<1>2. ASSUME NEW a \in Actors, AppendStep(a) PROVE IInv'
  BY <1>2, LookKeeps, MendKeeps, PutKeeps DEF AppendStep
<1>3. ASSUME NEW a \in Actors, RestoreStep(a) PROVE IInv'
  BY <1>3, RestoreKeeps
<1>4. ASSUME NEW a \in Actors, OtherCalm(a) PROVE IInv'
  BY <1>4, OthersKeep
<1>5. ASSUME NEW a \in Actors, Tear(a) PROVE IInv'
  BY <1>5, TearKeeps
<1>6. CASE UNCHANGED vars
  BY <1>6 DEF vars, disk, IInv, TypeOK, PcInv, EarlyInv, Alone, UnderLock, NoHole, Hole,
              TearInv, Cutting, Mending, JobInv, Stored, CoverInv, Covered, Within,
              BodyInv, Read, Logged
<1> QED
  BY <1>1, <1>2, <1>3, <1>4, <1>5, <1>6 DEF Next, OtherCalm, Actors

\* The inductive invariant holds in every reachable state.
THEOREM Invariance == Spec => []IInv
  BY InitInv, NextInv, PTL DEF Spec

\* Type correctness.
THEOREM TypeCorrect == Spec => []TypeOK
<1>1. IInv => TypeOK
  BY DEF IInv
<1> QED
  BY <1>1, Invariance, PTL

\* Whatever a write may have changed can be restored, whoever died in the
\* middle of an append and whoever mended or truncated what was left of it.
THEOREM EveryWriteIsCovered == Spec => []WriteAhead
<1>1. IInv => WriteAhead
  BY DEF IInv, CoverInv, Covered, Within, Logged, WriteAhead
<1> QED
  BY <1>1, Invariance, PTL

\* The event log never promises a snapshot whose body is not on disk.
THEOREM EventsHaveBodies == Spec => []SnapshotHasBody
<1>1. IInv => SnapshotHasBody
  BY DEF IInv, BodyInv, SnapshotHasBody
<1> QED
  BY <1>1, Invariance, PTL

\* As long as every writer holds the lock, no number of torn writes makes the
\* log unreadable.
THEOREM LockKeepsLogWhole == Spec => []NoHoleUnderLock
<1>1. IInv => NoHoleUnderLock
  BY DEF IInv, UnderLock, NoHoleUnderLock
<1> QED
  BY <1>1, Invariance, PTL

\* As long as every writer holds the lock, no step takes a complete record off
\* the log.
THEOREM LockKeepsRecords == Spec => AppendOnly
<1> USE Kinds
<1>1. ASSUME IInv, [Next]_vars, Alone PROVE Keeps(Log, Log')
  <2>1. /\ TypeOK /\ lines \in Seq(Records \cup {Junk})
        /\ \A x \in Records \cup {Junk} : Keeps(lines, Append(lines, x))
    <3>1. TypeOK /\ lines \in Seq(Records \cup {Junk})
      BY <1>1 DEF IInv, TypeOK
    <3> QED
      BY <3>1, Appended DEF Keeps
  <2>2. ASSUME lines' = lines, tail' = tail PROVE Keeps(Log, Log')
    BY <2>2 DEF Keeps, Log
  <2>3. ASSUME NEW a \in Actors, Mend(a) PROVE Log' = Log
    <3>1. /\ tail # NoTail /\ proc[a].seen = tail /\ proc[a].cut = Len(lines)
      BY <1>1, <2>3 DEF IInv, UnderLock, Mending, Mend
    <3>2. tail \in Records \cup {Torn}
      BY <2>1, <3>1 DEF TypeOK
    <3> QED
      BY <1>1, <2>3, <3>1, <3>2, MendIs DEF Log, Cutting, Mending
  <2>4. ASSUME NEW a \in Actors, Report(a) \/ Write(a) PROVE Keeps(Log, Log')
    <3>1. /\ tail' = NoTail /\ Line(a) \in Records \cup {Junk}
          /\ lines' = Append(lines, Line(a)) /\ Busy(a) /\ ~Mending(a)
      BY <2>1, <2>4, PutIs
    <3>2. tail = NoTail
      BY <1>1, <3>1 DEF IInv, UnderLock, Busy, Mending
    <3> QED
      BY <2>1, <3>1, <3>2 DEF Log
  <2>5. ASSUME NEW a \in Actors, Tear(a) PROVE Keeps(Log, Log')
    <3>1. tail = NoTail /\ lines' = lines /\ tail' \in Records \cup {Torn}
      BY <1>1, <2>1, <2>5, TearIs DEF IInv, UnderLock, Busy, Mending
    <3>2. Keeps(lines, lines)
      BY DEF Keeps
    <3> QED
      BY <2>1, <3>1, <3>2 DEF Log
  <2>6. ASSUME NEW a \in Actors, Look(a) PROVE lines' = lines /\ tail' = tail
    BY <2>6 DEF Look, disk
  <2>7. ASSUME NEW a \in Actors, RestoreStep(a) \/ OtherCalm(a)
        PROVE  lines' = lines /\ tail' = tail
    BY <2>1, <2>7, RestoreCalm, OthersCalm DEF Calm
  <2>8. ASSUME CommitStep PROVE lines' = lines /\ tail' = tail
    BY <2>1, <2>8, CommitCalm DEF Calm
  <2>9. Keeps(Log, Log)
    BY DEF Keeps
  <2>10. CASE UNCHANGED vars
    BY <2>2, <2>10 DEF vars, disk
  <2> QED
    BY <1>1, <2>2, <2>3, <2>4, <2>5, <2>6, <2>7, <2>8, <2>9, <2>10
       DEF Next, OtherCalm, AppendStep, Actors
<1>2. IInv /\ [Next]_vars => [Alone => Keeps(Log, Log')]_vars
  BY <1>1
<1> QED
  BY <1>2, Invariance, PTL DEF Spec, AppendOnly


-----------------------------------------------------------------------------
(* The log and meta.json.                                                  *)

\* A state that has been left for good has been left for a later one.
Rises(s, t) == Stage(s) <= Stage(t) /\ (s \in Terminal => t = s)

\* A record tells of nothing that meta.json does not know.
Below(rec) == \A s \in States : rec = StateIs(s) => Rises(s, state)

Told == /\ \A i \in DOMAIN lines : Below(lines[i])
        /\ Below(tail)
        /\ \A a \in Actors : Below(proc[a].rec)

\* What meta.json says while a process is on its way.
Fits(a, pc, s) ==
  IF a = Com
  THEN /\ pc \in {"snapshot", "event"} => s = "PENDING"
       /\ pc \in {"apply", "write"} => s = "APPLYING"
       /\ pc \in {"arm", "armwait"} => s = "APPLIED_UNCONFIRMED"
       /\ pc = "undo" => s \in {"APPLYING", "APPLIED_UNCONFIRMED"}
       /\ pc \in {"read", "restore"} => s = "REVERTING"
  ELSE /\ pc \in {"plan", "undo"} => s \notin Terminal
       /\ pc \in {"read", "restore"} => s = "REVERTING"

Place(a) == Fits(a, proc[a].pc, state)
MetaInv  == Told /\ \A a \in Actors : Place(a)

\* Records that tell of no state.
Silent == {Note, Junk, Torn, NoTail} \cup {Snapshot(r) : r \in Refs}
            \cup {ApplyStart(r) : r \in Refs}

LEMMA SilentIs ==
  /\ \A rec \in Silent, s \in States : rec # StateIs(s)
  /\ \A s, t \in States : StateIs(s) = StateIs(t) => s = t
<1>1. \A s : StateIs(s).event = "STATE" /\ StateIs(s).state = s
  BY DEF StateIs
<1>2. \A r : Snapshot(r).event = "SNAPSHOT" /\ ApplyStart(r).event = "APPLY_START"
  BY DEF Snapshot, ApplyStart
<1>3. /\ Note.event = "NOTE" /\ Junk.event = "JUNK" /\ Torn.event = "TORN"
      /\ NoTail.event = "NONE"
  BY DEF Note, Junk, Torn, NoTail
<1> QED
  BY <1>1, <1>2, <1>3 DEF Silent

LEMMA RisesOn ==
  /\ \A s \in States : Stage(s) \in 0..4 /\ Rises(s, s)
  /\ \A s, t, u \in States : Rises(s, t) /\ Rises(t, u) => Rises(s, u)
  /\ \A s \in States \ Terminal : Rises(s, "REVERTING")
  /\ \A s \in States \ Terminal, t \in Terminal : Rises(s, t)
  /\ Rises("PENDING", "APPLYING") /\ Rises("APPLYING", "APPLIED_UNCONFIRMED")
  /\ Stage("REVERTING") = 3
<1>1. \A s \in States : Stage(s) \in 0..4
  BY DEF Stage
<1>2. \A s \in States \ Terminal : Stage(s) <= 3
  BY DEF Stage, States
<1>3. \A s \in Terminal : Stage(s) = 4
  BY DEF Stage, Terminal
<1>4. /\ Stage("PENDING") = 0 /\ Stage("APPLYING") = 1
      /\ Stage("APPLIED_UNCONFIRMED") = 2 /\ Stage("REVERTING") = 3
  BY DEF Stage
<1>5. {"PENDING", "APPLYING", "APPLIED_UNCONFIRMED", "REVERTING"} \cap Terminal = {}
  BY DEF Terminal
<1> QED
  BY <1>1, <1>2, <1>3, <1>4, <1>5 DEF Rises

\* One process moves, and says at most what meta.json says.
LEMMA StateStep ==
  ASSUME IInv, MetaInv, NEW a \in Actors, UNCHANGED disk,
         state' \in States, state' = state \/ (lock = a /\ Rises(state, state')),
         \A b \in Actors \ {a} : proc'[b] = proc[b],
         proc'[a].rec \in Silent \cup {proc[a].rec, StateIs(state')},
         Fits(a, proc'[a].pc, state')
  PROVE  MetaInv'
<1>1. state \in States
  BY DEF IInv, TypeOK
<1>2. \A rec : Below(rec) => Below(rec)'
  BY <1>1, RisesOn DEF Below
<1>3. \A rec \in Silent \cup {StateIs(state')} : Below(rec)'
  BY SilentIs, RisesOn DEF Below
<1>4. \A b \in Actors : Below(proc[b].rec)'
  BY <1>2, <1>3 DEF MetaInv, Told, Below
<1>5. Told'
  BY <1>2, <1>4 DEF MetaInv, Told, disk, Below
<1>6. ASSUME NEW b \in Actors, b # a PROVE Place(b)'
  <2>1. CASE state' = state
    BY <1>6, <2>1 DEF MetaInv, Place
  <2>2. CASE lock = a
    <3>1. PcInv(b) /\ lock # b
      BY <1>6, <2>2 DEF IInv
    <3> QED
      BY <1>6, <3>1, LogAssumption
         DEF PcInv, Place, Fits, ComPcs, Early, RestPcs, Actors
  <2> QED
    BY <2>1, <2>2
<1>7. Place(a)'
  BY DEF Place
<1> QED
  BY <1>5, <1>6, <1>7 DEF MetaInv

\* A process that moves to pc, and is about to append rec.
Turns(a, pc, rec) == /\ \A b \in Actors \ {a} : proc'[b] = proc[b]
                     /\ proc'[a].pc = pc /\ proc'[a].rec = rec

\* It says nothing of the state, which stays.
LEMMA Quietly ==
  ASSUME IInv, MetaInv, NEW a \in Actors, UNCHANGED disk, state' = state,
         NEW pc, NEW rec \in Silent \cup {proc[a].rec}, Turns(a, pc, rec),
         Fits(a, pc, state)
  PROVE  MetaInv'
<1>1. state' \in States
  BY DEF IInv, TypeOK
<1> QED
  BY <1>1, StateStep DEF Turns

\* It has rewritten meta.json, and says so.
LEMMA Stating ==
  ASSUME IInv, MetaInv, NEW a \in Actors, UNCHANGED disk, lock = a,
         NEW s \in States, state' = s, Rises(state, s),
         NEW pc, Turns(a, pc, StateIs(s)), Fits(a, pc, s)
  PROVE  MetaInv'
<1>1. proc'[a].rec \in Silent \cup {proc[a].rec, StateIs(state')}
  BY DEF Turns
<1> QED
  BY <1>1, StateStep DEF Turns

\* A set_state of a process that holds the lock.
LEMMA SetMeta ==
  ASSUME IInv, MetaInv, NEW a \in Actors, UNCHANGED disk, lock = a,
         NEW s \in States, NEW pc \in Pcs, SetState(a, s, pc), Rises(state, s),
         Fits(a, pc, s)
  PROVE  MetaInv'
<1>1. TypeOK /\ proc[a] \in Procs /\ StateIs(s) \in Records
  BY Kinds DEF IInv, TypeOK
<1>2. Turns(a, pc, StateIs(s))
  BY <1>1, SpeaksIs DEF SetState, Says, Turns
<1> QED
  BY <1>2, Stating DEF SetState

\* A process that only goes on, one that appends a note, and one that ends.
LEMMA GoesMeta ==
  ASSUME IInv, MetaInv, NEW a \in Actors, UNCHANGED disk, state' = state,
         NEW pc \in Pcs, Fits(a, pc, state),
         \/ Goto(a, pc)
         \/ Says(a, Note, pc)
  PROVE  MetaInv'
<1>1. TypeOK /\ proc[a] \in Procs /\ Note \in Records
  BY Kinds DEF IInv, TypeOK
<1>2. Turns(a, pc, proc[a].rec) \/ Turns(a, pc, Note)
  BY <1>1, SpeaksIs, MovesIs DEF Says, Turns
<1> QED
  BY <1>2, Quietly DEF Silent

LEMMA EndsMeta ==
  ASSUME IInv, MetaInv, NEW a \in Actors, UNCHANGED lines, Below(tail)',
         state' = state, Becomes(a, Ended(a))
  PROVE  MetaInv'
<1>1. /\ proc'[a] = Ended(a) /\ Ended(a).rec = Note
      /\ \A b \in Actors \ {a} : proc'[b] = proc[b]
      /\ Ended(a).pc \in {"idle", "ended"}
  BY OneProc, EndedIs DEF IInv
<1>2. Below(Note)'
  BY SilentIs DEF Below, Silent
<1>3. Told'
  BY <1>1, <1>2 DEF MetaInv, Told, Below
<1>4. \A b \in Actors : Place(b)'
  BY <1>1 DEF MetaInv, Place, Fits
<1> QED
  BY <1>3, <1>4 DEF MetaInv

LEMMA CommitMeta ==
  ASSUME IInv, MetaInv, CommitStep
  PROVE  MetaInv'
<1> DEFINE p == proc[Com]
<1>1. /\ Com \in Actors /\ Wd \in Actors /\ Com # Wd /\ p \in Procs /\ TypeOK
      /\ state \in States /\ Fits(Com, p.pc, state) /\ PcInv(Com)
  BY DEF IInv, TypeOK, Actors, MetaInv, Place
<1>2. /\ {"event", "snapshot", "finish", "apply", "write", "undo", "arm", "armwait"} \subseteq Pcs
      /\ {"AUDIT_ONLY", "APPLYING", "CONFIRMED", "APPLIED_UNCONFIRMED"} \subseteq States
      /\ {"AUDIT_ONLY", "CONFIRMED"} \subseteq Terminal
      /\ "PENDING" \notin Terminal /\ "APPLYING" \notin Terminal
  BY DEF Pcs, States, Terminal
<1>3. p.pc \in {"snapshot", "apply"} => lock = Com
  BY <1>1, LogAssumption DEF PcInv
<1>4. CASE SnapshotBody(Com)
  <2>1. PICK r \in p.rest : Becomes(Com, [p EXCEPT !.pc = "event", !.item = {r}])
    BY <1>4 DEF SnapshotBody
  <2> DEFINE q == [p EXCEPT !.pc = "event", !.item = {r}]
  <2>2. q \in Procs /\ q.pc = "event" /\ q.rec = p.rec
    BY <1>1, <1>2 DEF Procs
  <2>3. Turns(Com, "event", p.rec)
    BY <1>1, <2>1, <2>2, OneProc DEF Turns
  <2>4. UNCHANGED disk /\ state' = state /\ Fits(Com, "event", state)
    BY <1>1, <1>4 DEF SnapshotBody, At, Fits
  <2> QED
    BY <1>1, <2>3, <2>4, Quietly
<1>5. CASE SnapshotEvent(Com)
  <2>1. PICK r \in p.item :
          Becomes(Com, Appending([p EXCEPT !.item = {}, !.rest = @ \ {r}],
                                 Snapshot(r), "snapshot"))
    BY <1>5 DEF SnapshotEvent
  <2> DEFINE q == [p EXCEPT !.item = {}, !.rest = @ \ {r}]
  <2>2. q \in Procs /\ r \in Refs /\ Snapshot(r) \in Records
    BY <1>1, <2>1, Kinds DEF Procs
  <2>3. Turns(Com, "snapshot", Snapshot(r))
    BY <1>1, <1>2, <2>1, <2>2, SpeaksIs DEF Turns
  <2>4. UNCHANGED disk /\ state' = state /\ Fits(Com, "snapshot", state)
    BY <1>1, <1>5 DEF SnapshotEvent, At, Fits
  <2>5. Snapshot(r) \in Silent
    BY <2>2 DEF Silent
  <2> QED
    BY <1>1, <2>3, <2>4, <2>5, Quietly
<1>6. CASE CloseUnapplied(Com)
  <2>1. p.pc = "snapshot" /\ state = "PENDING" /\ UNCHANGED disk
    BY <1>1, <1>6 DEF CloseUnapplied, At, Fits
  <2>2. Fits(Com, "finish", state) /\ Fits(Com, "finish", "AUDIT_ONLY")
    BY DEF Fits
  <2>3. Rises(state, "AUDIT_ONLY")
    BY <1>1, <1>2, <2>1, RisesOn
  <2>4. \/ SetState(Com, "AUDIT_ONLY", "finish")
        \/ Goto(Com, "finish") /\ state' = state
    BY <1>6 DEF CloseUnapplied
  <2> QED
    BY <1>1, <1>2, <1>3, <2>1, <2>2, <2>3, <2>4, SetMeta, GoesMeta
<1>7. CASE StartApplying(Com)
  <2>1. [p EXCEPT !.rest = Refs] \in Procs /\ StateIs("APPLYING") \in Records
    BY <1>1, <1>2, Kinds DEF Procs
  <2>2. Turns(Com, "apply", StateIs("APPLYING"))
    BY <1>1, <1>2, <1>7, <2>1, SpeaksIs DEF StartApplying, Turns
  <2>3. /\ UNCHANGED disk /\ state = "PENDING" /\ state' = "APPLYING" /\ lock = Com
        /\ Fits(Com, "apply", "APPLYING")
    BY <1>1, <1>3, <1>7 DEF StartApplying, At, Fits
  <2> QED
    BY <1>1, <1>2, <2>2, <2>3, Stating, RisesOn
<1>8. CASE StartApply(Com)
  <2>1. PICK r \in p.rest :
          Becomes(Com, Appending([p EXCEPT !.item = {r}, !.rest = @ \ {r}],
                                 ApplyStart(r), "write"))
    BY <1>8 DEF StartApply
  <2> DEFINE q == [p EXCEPT !.item = {r}, !.rest = @ \ {r}]
  <2>2. q \in Procs /\ r \in Refs /\ ApplyStart(r) \in Records
    BY <1>1, <2>1, Kinds DEF Procs
  <2>3. Turns(Com, "write", ApplyStart(r))
    BY <1>1, <1>2, <2>1, <2>2, SpeaksIs DEF Turns
  <2>4. UNCHANGED disk /\ state' = state /\ Fits(Com, "write", state)
    BY <1>1, <1>8 DEF StartApply, At, Fits
  <2>5. ApplyStart(r) \in Silent
    BY <2>2 DEF Silent
  <2> QED
    BY <1>1, <2>3, <2>4, <2>5, Quietly
<1>9. CASE ApplyEnds(Com)
  <2>1. PICK pc \in {"apply", "undo"} :
          Becomes(Com, Appending([p EXCEPT !.item = {}, !.done = @ \cup p.item], Note, pc))
    BY <1>9 DEF ApplyEnds
  <2>2. [p EXCEPT !.item = {}, !.done = @ \cup p.item] \in Procs /\ Note \in Records
    BY <1>1, Kinds DEF Procs
  <2>3. Turns(Com, pc, Note)
    BY <1>1, <1>2, <2>1, <2>2, SpeaksIs DEF Turns
  <2>4. UNCHANGED disk /\ state' = state /\ Fits(Com, pc, state)
    BY <1>1, <1>9, <2>1 DEF ApplyEnds, At, Fits
  <2> QED
    BY <1>1, <2>3, <2>4, Quietly DEF Silent
<1>10. CASE Committed(Com)
  <2>1. p.pc = "apply" /\ state = "APPLYING" /\ UNCHANGED disk
    BY <1>1, <1>10 DEF Committed, At, Fits
  <2>2. Fits(Com, "finish", "CONFIRMED") /\ Fits(Com, "arm", "APPLIED_UNCONFIRMED")
    BY DEF Fits
  <2>3. Rises(state, "CONFIRMED") /\ Rises(state, "APPLIED_UNCONFIRMED")
    BY <1>1, <1>2, <2>1, RisesOn
  <2>4. SetState(Com, "CONFIRMED", "finish") \/ SetState(Com, "APPLIED_UNCONFIRMED", "arm")
    BY <1>10 DEF Committed
  <2> QED
    BY <1>1, <1>2, <1>3, <2>1, <2>2, <2>3, <2>4, SetMeta
<1>11. CASE SpawnWatchdog(Com)
  <2>1. /\ proc'[Com] = [p EXCEPT !.pc = "armwait"]
        /\ proc'[Wd] = [proc[Wd] EXCEPT !.pc = "spawned"]
        /\ \A b \in Actors \ {Com, Wd} : proc'[b] = proc[b]
    BY <1>1, <1>11 DEF SpawnWatchdog, TypeOK
  <2>2. proc[Wd] \in Procs
    BY <1>1 DEF TypeOK
  <2>3. /\ proc'[Com].pc = "armwait" /\ proc'[Com].rec = p.rec
        /\ proc'[Wd].pc = "spawned" /\ proc'[Wd].rec = proc[Wd].rec
    BY <1>1, <2>1, <2>2 DEF Procs
  <2>4. UNCHANGED <<lines, tail>> /\ state' = state /\ p.pc = "arm"
    BY <1>11 DEF SpawnWatchdog, At, disk
  <2>5. \A b \in Actors : proc'[b].rec = proc[b].rec
    BY <2>1, <2>3
  <2>6. Told'
    BY <2>4, <2>5 DEF MetaInv, Told, Below
  <2>7. Place(Com)' /\ Place(Wd)'
    BY <1>1, <2>3, <2>4 DEF Place, Fits
  <2>8. \A b \in Actors \ {Com, Wd} : Place(b)'
    BY <2>1, <2>4 DEF MetaInv, Place
  <2> QED
    BY <2>6, <2>7, <2>8 DEF MetaInv
<1>12. CASE ArmEnds(Com)
  <2>1. PICK pc \in {"finish", "undo"} : Goto(Com, pc)
    BY <1>12 DEF ArmEnds
  <2>2. UNCHANGED disk /\ state' = state /\ Fits(Com, pc, state)
    BY <1>1, <1>12, <2>1 DEF ArmEnds, At, Fits
  <2> QED
    BY <1>1, <1>2, <2>1, <2>2, GoesMeta
<1> QED
  BY <1>4, <1>5, <1>6, <1>7, <1>8, <1>9, <1>10, <1>11, <1>12 DEF CommitStep

LEMMA RestoreMeta ==
  ASSUME IInv, MetaInv, NEW a \in Actors, RestoreStep(a)
  PROVE  MetaInv'
<1> DEFINE p == proc[a]
<1>1. /\ p \in Procs /\ TypeOK /\ state \in States
      /\ Fits(a, p.pc, state) /\ PcInv(a)
  BY DEF IInv, TypeOK, MetaInv, Place
<1>2. /\ {"refused", "read", "restore", "finish"} \subseteq Pcs
      /\ {"REVERTING", "REVERTED", "REVERT_FAILED"} \subseteq States
      /\ {"REVERTED", "REVERT_FAILED"} \subseteq Terminal
      /\ "APPLYING" \notin Terminal /\ "APPLIED_UNCONFIRMED" \notin Terminal
      /\ "REVERTING" \notin Terminal
  BY DEF Pcs, States, Terminal
<1>3. p.pc \in {"undo", "restore"} => lock = a
  BY <1>1, LogAssumption DEF PcInv, Actors
<1>f. \A s : Fits(a, "refused", s) /\ Fits(a, "finish", s)
  BY DEF Fits
<1>4. CASE Undo(a)
  <2>1. p.pc = "undo" /\ UNCHANGED disk
    BY <1>4 DEF Undo, At
  <2>2. CASE Goto(a, "refused") /\ state' = state
    BY <1>2, <1>f, <2>1, <2>2, GoesMeta
  <2> DEFINE q == [p EXCEPT !.rest = IF a = Com THEN p.done ELSE @, !.done = {}]
  <2>3. CASE state' = "REVERTING" /\ Becomes(a, Appending(q, StateIs("REVERTING"), "read"))
    <3>1. q \in Procs /\ StateIs("REVERTING") \in Records
      BY <1>1, <1>2, Kinds DEF Procs
    <3>2. Turns(a, "read", StateIs("REVERTING"))
      BY <1>1, <1>2, <2>3, <3>1, SpeaksIs DEF Turns
    <3>3. state \notin Terminal
      BY <1>1, <1>2, <2>1 DEF Fits
    <3>4. Rises(state, "REVERTING") /\ Fits(a, "read", "REVERTING")
      BY <1>1, <3>3, RisesOn DEF Fits
    <3> QED
      BY <1>2, <1>3, <2>1, <2>3, <3>2, <3>4, Stating
  <2> QED
    BY <1>4, <2>2, <2>3 DEF Undo
<1>5. CASE ReadSnapshots(a)
  <2> DEFINE q == [p EXCEPT !.pc = IF Unreadable THEN "refused" ELSE "restore",
                            !.snaps = {r \in Refs : Read(Snapshot(r))}]
  <2>1. q \in Procs /\ q.pc \in {"refused", "restore"} /\ q.rec = p.rec
    BY <1>1, <1>2 DEF Procs
  <2>2. Becomes(a, q) /\ p.pc = "read" /\ state' = state /\ UNCHANGED disk
    BY <1>5 DEF ReadSnapshots, At
  <2>3. Turns(a, q.pc, p.rec)
    BY <1>1, <2>1, <2>2, OneProc DEF Turns
  <2>4. Fits(a, q.pc, state)
    BY <1>1, <1>f, <2>1, <2>2 DEF Fits
  <2> HIDE DEF q
  <2> QED
    BY <2>2, <2>3, <2>4, Quietly
<1>6. CASE Restore(a)
  <2>1. PICK r \in p.rest, ok \in BOOLEAN :
          Becomes(a, Appending([p EXCEPT !.rest = @ \ {r}, !.bad = @ \/ ~ok],
                               Note, "restore"))
    BY <1>6 DEF Restore
  <2>2. [p EXCEPT !.rest = @ \ {r}, !.bad = @ \/ ~ok] \in Procs /\ Note \in Records
    BY <1>1, Kinds DEF Procs
  <2>3. Turns(a, "restore", Note)
    BY <1>1, <1>2, <2>1, <2>2, SpeaksIs DEF Turns
  <2>4. UNCHANGED disk /\ state' = state /\ Fits(a, "restore", state)
    BY <1>1, <1>6 DEF Restore, At
  <2> QED
    BY <2>3, <2>4, Quietly DEF Silent
<1>7. CASE RestoreDone(a)
  <2>1. PICK s \in {"REVERTED", "REVERT_FAILED"} : SetState(a, s, "finish")
    BY <1>7 DEF RestoreDone
  <2>2. p.pc = "restore" /\ UNCHANGED disk
    BY <1>7 DEF RestoreDone, At
  <2>3. state = "REVERTING"
    BY <1>1, <2>2 DEF Fits
  <2>4. s \in States /\ Rises(state, s)
    BY <1>1, <1>2, <2>3, RisesOn
  <2> QED
    BY <1>2, <1>3, <1>f, <2>1, <2>2, <2>4, SetMeta
<1>8. CASE Refuse(a) \/ Finish(a)
  <2>1. UNCHANGED <<lines, tail>> /\ state' = state
    BY <1>8 DEF Refuse, Finish, disk
  <2>2. Says(a, Note, "finish") \/ Becomes(a, Ended(a))
    BY <1>8 DEF Refuse, Finish, Says
  <2>3. Below(tail)'
    BY <2>1 DEF MetaInv, Told, Below
  <2> QED
    BY <1>2, <1>f, <2>1, <2>2, <2>3, GoesMeta, EndsMeta DEF disk
<1> QED
  BY <1>4, <1>5, <1>6, <1>7, <1>8 DEF RestoreStep

LEMMA OthersMeta ==
  ASSUME IInv, MetaInv, NEW a \in Actors, OtherCalm(a)
  PROVE  MetaInv'
<1> DEFINE p == proc[a]
<1>1. /\ p \in Procs /\ TypeOK /\ state \in States
      /\ Fits(a, p.pc, state) /\ PcInv(a) /\ Below(tail)
  BY DEF IInv, TypeOK, MetaInv, Place, Told
<1>2. /\ {"queued", "plan", "refused", "finish", "undo", "settle", "watch"} \subseteq Pcs
      /\ {"AUDIT_ONLY", "CONFIRMED"} \subseteq States \cap Terminal
      /\ "APPLIED_UNCONFIRMED" \notin Terminal
  BY DEF Pcs, States, Terminal
<1>3. p.pc \in {"plan", "settle"} => lock = a /\ a # Com
  BY <1>1, LogAssumption DEF PcInv, Actors, ComPcs, Early
<1>f. /\ \A pc \in {"queued", "refused", "finish", "settle", "watch"} : \A s : Fits(a, pc, s)
      /\ UNCHANGED disk /\ state' = state => Below(tail)'
  BY <1>1 DEF Fits, disk, Below
<1>4. CASE ScanOrphans(a)
  BY <1>2, <1>f, <1>4, GoesMeta DEF ScanOrphans
<1>5. CASE RecoverEnters(a)
  <2>1. a # Com
    BY <1>1, <1>5, LogAssumption DEF RecoverEnters, At, PcInv, Actors, ComPcs, Early
  <2>2. state \notin Terminal /\ Goto(a, "plan") /\ UNCHANGED disk /\ state' = state
    BY <1>5 DEF RecoverEnters
  <2>3. Fits(a, "plan", state)
    BY <2>1, <2>2 DEF Fits
  <2> QED
    BY <1>2, <2>2, <2>3, GoesMeta
<1>6. CASE GiveUp(a)
  <2>1. UNCHANGED <<disk, lines>> /\ state' = state
    BY <1>6 DEF GiveUp, disk
  <2>2. Becomes(a, Ended(a)) \/ Says(a, Note, "finish")
    BY <1>6 DEF GiveUp
  <2> QED
    BY <1>2, <1>f, <2>1, <2>2, GoesMeta, EndsMeta
<1>7. CASE Plan(a)
  <2>1. p.pc = "plan" /\ UNCHANGED disk
    BY <1>7 DEF Plan, At
  <2>2. state \notin Terminal /\ lock = a /\ a # Com
    BY <1>1, <1>3, <2>1 DEF Fits
  <2>3. CASE Goto(a, "refused") /\ state' = state
    BY <1>2, <1>f, <2>1, <2>3, GoesMeta
  <2>4. CASE SetState(a, "AUDIT_ONLY", "finish")
    <3>1. Rises(state, "AUDIT_ONLY")
      BY <1>1, <1>2, <2>2, RisesOn
    <3> QED
      BY <1>2, <1>f, <2>1, <2>2, <2>4, <3>1, SetMeta
  <2>5. CASE Becomes(a, Appending([p EXCEPT !.rest = Applied], Note, "undo")) /\ state' = state
    <3>1. [p EXCEPT !.rest = Applied] \in Procs /\ Note \in Records
      BY <1>1, Kinds DEF Procs, Applied
    <3>2. Turns(a, "undo", Note)
      BY <1>1, <1>2, <2>5, <3>1, SpeaksIs DEF Turns
    <3>3. Fits(a, "undo", state)
      BY <2>2 DEF Fits
    <3> QED
      BY <2>1, <2>5, <3>2, <3>3, Quietly DEF Silent
  <2> QED
    BY <1>7, <2>3, <2>4, <2>5 DEF Plan
<1>8. CASE Crash(a)
  <2>1. UNCHANGED <<disk, lines>> /\ state' = state /\ Becomes(a, Ended(a))
    BY <1>8 DEF Crash, Dies, disk
  <2> QED
    BY <1>f, <2>1, EndsMeta
<1>9. CASE Confirm(a)
  BY <1>2, <1>f, <1>9, GoesMeta DEF Confirm
<1>10. CASE Settle(a)
  <2>1. p.pc = "settle" /\ UNCHANGED disk
    BY <1>10 DEF Settle, At
  <2>2. CASE Goto(a, "finish") /\ state' = state
    BY <1>2, <1>f, <2>1, <2>2, GoesMeta
  <2>3. CASE /\ state \in {"APPLIED_UNCONFIRMED", "CONFIRMED"}
             /\ SetState(a, "CONFIRMED", "finish")
    <3>1. Rises(state, "CONFIRMED")
      BY <1>1, <1>2, <2>3, RisesOn
    <3> QED
      BY <1>2, <1>3, <1>f, <2>1, <2>3, <3>1, SetMeta
  <2> QED
    BY <1>10, <2>2, <2>3 DEF Settle
<1>11. CASE a = Wd /\ (WdComesUp \/ WdSeesEnd \/ WdExpires)
  <2>1. UNCHANGED disk /\ state' = state
    BY <1>11 DEF WdComesUp, WdSeesEnd, WdExpires
  <2>2. \E pc \in {"watch", "finish", "queued"} : Says(a, Note, pc)
    BY <1>11 DEF WdComesUp, WdSeesEnd, WdExpires
  <2> QED
    BY <1>2, <1>f, <2>1, <2>2, GoesMeta
<1> QED
  BY <1>4, <1>5, <1>6, <1>7, <1>8, <1>9, <1>10, <1>11 DEF OtherCalm, RecoverStep

\* What append() does to the file: nothing stands there that was not told.
LEMMA AppendMeta ==
  ASSUME IInv, MetaInv, NEW a \in Actors, AppendStep(a)
  PROVE  MetaInv'
<1>1. /\ state' = state /\ TypeOK /\ lines \in Seq(Records \cup {Junk})
      /\ \A i \in 1..Len(lines) : Below(lines[i])
      /\ Below(tail) /\ Below(proc[a].rec)
  BY DEF IInv, TypeOK, MetaInv, Told, AppendStep, Look, Mend, Report, Write
<1>2. \A rec : Below(rec)' <=> Below(rec)
  BY <1>1 DEF Below
<1>3. Below(NoTail) /\ Below(Note) /\ Below(Junk)
  BY SilentIs DEF Below, Silent
<1>4. /\ proc'[a].pc = proc[a].pc /\ proc'[a].rec \in {proc[a].rec, Note}
      /\ \A b \in Actors \ {a} : proc'[b] = proc[b]
      /\ tail' \in {tail, NoTail}
      /\ \/ lines' = lines
         \/ /\ \A i \in 1..Len(lines') : i <= Len(lines) /\ lines'[i] = lines[i]
            /\ lines' \in Seq(Records \cup {Junk})
         \/ \E rec \in Records \cup {Junk} : Below(rec) /\ lines' = Append(lines, rec)
  <2>1. CASE Look(a)
    BY <1>1, <2>1, LookIs DEF Look, disk
  <2>2. CASE Mend(a)
    <3>1. CASE Cutting(a)
      <4>1. /\ Len(lines') = proc[a].cut /\ proc[a].cut \in Nat
            /\ \A i \in 1..proc[a].cut : lines'[i] = lines[i]
            /\ lines' \in Seq(Records \cup {Junk})
        BY <1>1, <2>2, <3>1, MendIs DEF TypeOK, Procs
      <4>2. proc[a].cut <= Len(lines)
        BY <3>1, CutKnown
      <4> QED
        BY <1>1, <2>2, <4>1, <4>2, MendIs
    <3>2. CASE ~Cutting(a)
      BY <1>1, <1>3, <2>2, <3>2, MendIs
    <3> QED
      BY <3>1, <3>2
  <2>3. CASE Report(a) \/ Write(a)
    <3>1. Below(Line(a))
      BY <1>1, <1>3, <2>3 DEF Line, Completed
    <3> QED
      BY <1>1, <2>3, <3>1, PutIs
  <2> QED
    BY <2>1, <2>2, <2>3 DEF AppendStep
<1>5. \A i \in DOMAIN lines' : Below(lines'[i])
  <2>1. CASE lines' = lines
    BY <1>1, <2>1
  <2>2. CASE /\ \A i \in 1..Len(lines') : i <= Len(lines) /\ lines'[i] = lines[i]
             /\ lines' \in Seq(Records \cup {Junk})
    BY <1>1, <2>2
  <2>3. ASSUME NEW rec \in Records \cup {Junk}, Below(rec), lines' = Append(lines, rec)
        PROVE  \A i \in DOMAIN lines' : Below(lines'[i])
    <3>1. /\ lines' \in Seq(Records \cup {Junk}) /\ Len(lines') = Len(lines) + 1
          /\ \A i \in 1..Len(lines) : lines'[i] = lines[i]
          /\ lines'[Len(lines) + 1] = rec
      BY <1>1, <2>3, Appended
    <3>2. \A i \in DOMAIN lines' : i \in 1..Len(lines) \/ i = Len(lines) + 1
      BY <1>1, <3>1
    <3> QED
      BY <1>1, <2>3, <3>1, <3>2
  <2> QED
    BY <1>4, <2>1, <2>2, <2>3
<1>6. Told'
  <2>1. \A b \in Actors : Below(proc'[b].rec)
    BY <1>1, <1>3, <1>4 DEF MetaInv, Told
  <2>2. Below(tail')
    BY <1>1, <1>3, <1>4
  <2> QED
    BY <1>1, <1>5, <2>1, <2>2 DEF Told, Below
<1>7. \A b \in Actors : Place(b)'
  BY <1>1, <1>4 DEF MetaInv, Place
<1> QED
  BY <1>6, <1>7 DEF MetaInv

LEMMA TearMeta ==
  ASSUME IInv, MetaInv, NEW a \in Actors, Tear(a)
  PROVE  MetaInv'
<1>1. /\ UNCHANGED <<lines, state>> /\ tail' \in {Torn, proc[a].rec, Note}
      /\ Becomes(a, Ended(a))
  BY DEF Tear, Dies
<1>2. Below(Torn) /\ Below(Note) /\ Below(proc[a].rec)
  BY SilentIs DEF Below, Silent, MetaInv, Told
<1>3. Below(tail)'
  BY <1>1, <1>2 DEF Below
<1> QED
  BY <1>1, <1>3, EndsMeta

LEMMA InitMeta == Init => MetaInv
<1> SUFFICES ASSUME Init PROVE MetaInv
  OBVIOUS
<1>1. lines = <<>> /\ tail = NoTail /\ state = "PENDING"
  BY DEF Init
<1>2. /\ [Fresh("none") EXCEPT !.rest = Refs] \in Procs /\ "snapshot" \in Pcs
      /\ Note \in Records
  BY Kinds DEF Fresh, Procs, Pcs, Steps
<1>3. proc[Com].pc = "snapshot" /\ proc[Com].rec = Note
  <2> DEFINE q == [Fresh("none") EXCEPT !.rest = Refs]
  <2>1. proc[Com] = Appending(q, Note, "snapshot")
    BY DEF Init, Actors
  <2> HIDE DEF q
  <2> QED
    BY <1>2, <2>1, AppendingIs DEF q
<1>4. ASSUME NEW b \in Actors, b # Com
      PROVE  proc[b].pc \in {"none", "idle"} /\ proc[b].rec = Note
  BY <1>4 DEF Init, Fresh
<1>5. Below(Note) /\ Below(NoTail)
  BY SilentIs DEF Below, Silent
<1>6. Told
  BY <1>1, <1>3, <1>4, <1>5 DEF Told
<1>7. \A b \in Actors : Place(b)
  BY <1>1, <1>3, <1>4 DEF Place, Fits
<1> QED
  BY <1>6, <1>7 DEF MetaInv

LEMMA NextMeta == IInv /\ MetaInv /\ [Next]_vars => MetaInv'
<1> SUFFICES ASSUME IInv, MetaInv, [Next]_vars PROVE MetaInv'
  OBVIOUS
<1>1. CASE CommitStep
  BY <1>1, CommitMeta
<1>2. ASSUME NEW a \in Actors, AppendStep(a) PROVE MetaInv'
  BY <1>2, AppendMeta
<1>3. ASSUME NEW a \in Actors, RestoreStep(a) PROVE MetaInv'
  BY <1>3, RestoreMeta
<1>4. ASSUME NEW a \in Actors, OtherCalm(a) PROVE MetaInv'
  BY <1>4, OthersMeta
<1>5. ASSUME NEW a \in Actors, Tear(a) PROVE MetaInv'
  BY <1>5, TearMeta
<1>6. CASE UNCHANGED vars
  BY <1>6 DEF vars, disk, MetaInv, Told, Below, Place
<1> QED
  BY <1>1, <1>2, <1>3, <1>4, <1>5, <1>6 DEF Next, OtherCalm, Actors

\* Of the first n numbers, a set that has any has a greatest one.
LEMMA TopOf ==
  ASSUME NEW n \in Nat, NEW S, S \subseteq 1..n, S # {}
  PROVE  \E m \in S : \A j \in S : j <= m
<1> DEFINE R == OpToRel(<, Nat)
           T == {n - i : i \in S}
<1>1. T \subseteq Nat /\ T # {}
  <2>1. \A i \in S : n - i \in Nat
    OBVIOUS
  <2>2. T \subseteq Nat
    BY <2>1
  <2>3. PICK i \in S : TRUE
    OBVIOUS
  <2>4. n - i \in T
    OBVIOUS
  <2> QED
    BY <2>2, <2>4
<1>2. IsWellFoundedOn(R, Nat)
  BY NatLessThanWellFounded
<1>3. \A x, y \in Nat : x < y => <<x, y>> \in R
  BY DEF OpToRel
<1> HIDE DEF R
<1>4. PICK x \in T : \A y \in T : ~(<<y, x>> \in R)
  BY <1>1, <1>2, WFMin
<1>5. PICK m \in S : x = n - m
  BY <1>4
<1>6. ASSUME NEW j \in S PROVE j <= m
  <2>1. n - j \in T /\ n - j \in Nat /\ x \in Nat
    BY <1>1, <1>4
  <2>2. ~(n - j < x)
    BY <1>3, <1>4, <2>1
  <2> QED
    BY <1>5, <2>1, <2>2
<1> QED
  BY <1>6

\* The log's last state is one that its lines tell of.
LEMMA MetaAhead ==
  ASSUME TypeOK, MetaInv PROVE MetaIsAhead
<1>1. state \in States /\ lines \in Seq(Records \cup {Junk})
  BY DEF TypeOK
<1>2. /\ \A rec \in Records \cup {Junk} :
           rec.event = "STATE" => \E s \in States : rec = StateIs(s) /\ rec.state = s
  <2>1. \A r : Snapshot(r).event = "SNAPSHOT" /\ ApplyStart(r).event = "APPLY_START"
    BY DEF Snapshot, ApplyStart
  <2>2. Note.event = "NOTE" /\ Junk.event = "JUNK"
    BY DEF Note, Junk
  <2>3. \A s : StateIs(s).state = s
    BY DEF StateIs
  <2> QED
    BY <2>1, <2>2, <2>3 DEF Records
<1>3. CASE StateEvents = {}
  BY <1>1, <1>3, RisesOn DEF MetaIsAhead, LastState, Stage, Terminal
<1>4. CASE StateEvents # {}
  <2>1. StateEvents \subseteq 1..Len(lines)
    BY <1>1 DEF StateEvents
  <2>2. PICK m \in StateEvents : \A j \in StateEvents : j <= m
    <3>1. Len(lines) \in Nat
      BY <1>1
    <3> QED
      BY <1>4, <2>1, <3>1, TopOf
  <2>3. DEFINE last == CHOOSE i \in StateEvents : \A j \in StateEvents : j <= i
  <2>4. last \in StateEvents
    BY <2>2
  <2> HIDE DEF last
  <2>5. lines[last] \in Records \cup {Junk} /\ lines[last].event = "STATE"
    BY <1>1, <2>1, <2>4 DEF StateEvents
  <2>6. PICK s \in States : lines[last] = StateIs(s) /\ lines[last].state = s
    BY <1>2, <2>5
  <2>7. Rises(s, state)
    BY <2>4, <2>6 DEF MetaInv, Told, Below, StateEvents
  <2>8. LastState = s
    BY <1>4, <2>6 DEF LastState, last
  <2> QED
    BY <2>7, <2>8 DEF MetaIsAhead, Rises
<1> QED
  BY <1>3, <1>4

\* Recovery, which reads only meta.json, never misses a step that the log
\* tells of: whatever was torn, mended, cut off or written by a late watchdog.
THEOREM MetaStaysAhead == Spec => []MetaIsAhead
<1>1. IInv /\ MetaInv => MetaIsAhead
  BY MetaAhead DEF IInv
<1>2. Init => MetaInv
  BY InitMeta
<1>3. IInv /\ MetaInv /\ [Next]_vars => MetaInv'
  BY NextMeta
<1> QED
  BY <1>1, <1>2, <1>3, Invariance, PTL DEF Spec
=============================================================================
