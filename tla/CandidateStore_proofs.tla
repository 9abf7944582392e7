------------------------ MODULE CandidateStore_proofs ------------------------
(***************************************************************************)
(* Proofs about CandidateStore for any number of sessions, Orchestrators,  *)
(* resources, paths, commands, deaths, failed saves and unreadable stores: *)
(*                                                                         *)
(*   TypeCorrect          Spec => []TypeOK                                 *)
(*   StoreImplementsArea  Spec => KeepsStagingArea                         *)
(*   WorkIsKept           Spec => NothingVanishes                          *)
(*   OldStagingGoesToOne  Spec => []LegacyGoesToOne                        *)
(*                                                                         *)
(* The inductive invariant IInv says who holds each lock (LockInv), which  *)
(* command a session is at (CmdInv), that a view read under the lock is    *)
(* still the store, or empty if the read failed (ViewInv), who has the old *)
(* build's file (LegacyInv) and that what is acknowledged was applied      *)
(* (AckInv).  OneInv follows the old build's staging through views and     *)
(* stores.                                                                 *)
(***************************************************************************)
EXTENDS CandidateStore, TLAPS

-----------------------------------------------------------------------------
(* The commands.                                                           *)

LEMMA EmptyType == Empty \in Stagings
BY DEF Empty, Stagings

LEMMA OldType == OldStaging \in Stagings
BY DEF OldStaging, Stagings, Item, Items, Modes

\* A command is told by its name.
LEMMA CommandNames ==
  ASSUME NEW c \in Commands
  PROVE  /\ c.op = "adopt" <=> c = Adopt
         /\ c.op = "discard" <=> c = Discard
         /\ c.op = "ack" => c.plan \in Stagings
         /\ c.op \notin {"adopt", "discard", "ack"} => c \in Edits
         /\ c \in Edits => c.op \in {"set", "load", "prune", "delete", "drop"}
BY DEF Commands, Edits, Adopt, Discard

\* An edit makes an item, or removes it.
LEMMA EditedType ==
  ASSUME NEW e \in Edits, NEW i \in Items \cup {NoItem}
  PROVE  Edited(e, i) \in Items \cup {NoItem}
<1> DEFINE j == IF i = NoItem THEN Item("merge", {}, {}) ELSE i
<1>1. j \in Items
  BY DEF Item, Items, Modes
<1>2. CASE e.op = "set"
  BY <1>1, <1>2 DEF Edited, SetPath, Edits, Item, Items, Modes
<1>3. CASE e.op = "prune"
  BY <1>1, <1>3 DEF Edited, Prune, Edits, Item, Items, Modes
<1>4. CASE e.op = "load"
  BY <1>4 DEF Edited, Edits, Item, Items, Modes
<1>5. CASE e.op \in {"delete", "drop"}
  BY <1>5 DEF Edited, Item, Items, Modes
<1> QED
  BY <1>2, <1>3, <1>4, <1>5 DEF Edits

LEMMA ApplyType ==
  ASSUME NEW c \in Commands, NEW st \in Stagings, NEW old \in Stagings
  PROVE  Apply(c, st, old) \in Stagings
<1>1. CASE c.op = "discard"
  BY <1>1, EmptyType DEF Apply
<1>2. CASE c.op = "ack"
  BY <1>2 DEF Apply, Acknowledged, Stagings
<1>3. CASE c.op = "adopt"
  BY <1>3 DEF Apply, Adopted, Stagings
<1>4. CASE c.op \notin {"discard", "ack", "adopt"}
  <2>1. c \in Edits
    BY <1>4, CommandNames
  <2>2. Apply(c, st, old) = [st EXCEPT ![c.ref] = Edited(c, st[c.ref])]
    BY <1>4 DEF Apply
  <2>3. c.ref \in Refs /\ st[c.ref] \in Items \cup {NoItem}
    BY <2>1 DEF Edits, Stagings
  <2> QED
    BY <2>1, <2>2, <2>3, EditedType DEF Stagings
<1> QED
  BY <1>1, <1>2, <1>3, <1>4

\* Only an adoption looks at what there is to adopt.
LEMMA ApplyIgnoresOld ==
  ASSUME NEW c \in Commands, c # Adopt, NEW st, NEW old, NEW old2
  PROVE  Apply(c, st, old) = Apply(c, st, old2)
BY CommandNames DEF Apply

LEMMA CommandMembers ==
  /\ Edits \cup {Discard, Adopt} \subseteq Commands
  /\ \A st \in Stagings : Ack(st) \in Commands /\ Ack(st).op = "ack"
                          /\ Ack(st).plan = st /\ Ack(st) # Adopt
  /\ \A e \in Edits \cup {Discard} : e.op # "ack" /\ e # Adopt
  /\ Adopt.op = "adopt"
BY DEF Commands, Ack, Edits, Discard, Adopt

-----------------------------------------------------------------------------
(* The inductive invariant.                                                *)

HoldsLock(s)  == proc[s].pc \in {"loaded", "read", "unlinked"}
HoldsClaim(s) == proc[s].pc \in {"lock", "loaded", "read", "unlinked"}
                   /\ proc[s].cmd = Adopt

\* Who holds each lock.
LockInv ==
  /\ \A o \in Origins, s \in Sessions :
       lock[o] = s <=> OriginOf[s] = o /\ HoldsLock(s)
  /\ \A s \in Sessions : claim = s <=> HoldsClaim(s)

\* The command at each point.
CmdInv(s) ==
  LET p == proc[s]
  IN  /\ p.pc \in {"off", "idle"} <=> p.cmd = Nothing
      /\ p.pc \in {"claim", "read", "unlinked"} => p.cmd = Adopt
      /\ p.pc = "commit" => p.cmd.op = "ack"

\* What a session that holds its lock takes for the store.
Seen(s) == IF proc[s].blind THEN Empty ELSE Content(OriginOf[s])

\* Under its lock a session's view is that, or what it adopts on top.
ViewInv(s) == /\ At(s, "loaded") => proc[s].view = Seen(s)
              /\ At(s, "read") \/ At(s, "unlinked")
                   => proc[s].view = Adopted(OldStaging, Seen(s))

\* An adoption finds the file, and nobody takes it before the adoption does.
LegacyInv(s) == /\ At(s, "read") => legacy
                /\ At(s, "unlinked") => ~legacy

\* What is being acknowledged was applied.
AckInv(s) ==
  proc[s].pc \in {"lock", "loaded"} /\ proc[s].cmd.op = "ack"
    => Pairs(proc[s].cmd.plan) \subseteq applied[OriginOf[s]]

SessionInv(s) == CmdInv(s) /\ ViewInv(s) /\ LegacyInv(s) /\ AckInv(s)

IInv == TypeOK /\ LockInv /\ \A s \in Sessions : SessionInv(s)

USE CandidateStoreAssumption

LEMMA ContentType == ASSUME TypeOK, NEW o \in Origins PROVE Content(o) \in Stagings
BY EmptyType DEF TypeOK, Content

LEMMA PairsType == ASSUME NEW st \in Stagings PROVE Pairs(st) \in SUBSET (Refs \X Items)
BY DEF Pairs, Stagings

\* What a session is after it has read its store.
LEMMA Loaded ==
  ASSUME TypeOK, NEW s \in Sessions, NEW pc \in Pcs,
         NEW cmd \in Commands \cup {Nothing}, Load(s, pc, cmd)
  PROVE  /\ proc' \in [Sessions -> Procs]
         /\ \A t \in Sessions \ {s} : proc'[t] = proc[t]
         /\ proc'[s].pc = pc /\ proc'[s].cmd = cmd
         /\ proc'[s].view = IF proc'[s].blind THEN Empty ELSE Content(OriginOf[s])
         /\ left' \in [{"asks", "crashes", "faults", "unread"} -> Nat]
<1> DEFINE o == OriginOf[s]
           p == [pc |-> pc, cmd |-> cmd, view |-> Content(o),
                 unadopted |-> file[o] = Missing /\ legacy, blind |-> FALSE]
           q == [p EXCEPT !.view = Empty, !.blind = TRUE]
<1>1. p \in Procs /\ q \in Procs
  BY ContentType, EmptyType DEF Procs, TypeOK
<1>2. CASE Becomes(s, p) /\ UNCHANGED left
  BY <1>1, <1>2 DEF Becomes, TypeOK
<1>3. CASE Spends("unread") /\ Becomes(s, q)
  BY <1>1, <1>3 DEF Becomes, Spends, TypeOK
<1> QED
  BY <1>2, <1>3 DEF Load

THEOREM InitIInv == Init => IInv
<1> SUFFICES ASSUME Init PROVE IInv
  OBVIOUS
<1>1. \A s \in Sessions : proc[s] = Off
  BY DEF Init
<1>2. TypeOK
  BY EmptyType DEF Init, TypeOK, Procs, Off, Pcs
<1>3. LockInv
  BY <1>1 DEF Init, LockInv, HoldsLock, HoldsClaim, Off
<1>4. \A s \in Sessions : SessionInv(s)
  BY <1>1 DEF SessionInv, CmdInv, ViewInv, LegacyInv, AckInv, At, Off
<1> QED
  BY <1>2, <1>3, <1>4 DEF IInv

-----------------------------------------------------------------------------
(* Every step keeps it.                                                    *)

THEOREM NextIInv == IInv /\ [Next]_vars => IInv'
<1> SUFFICES ASSUME IInv, [Next]_vars PROVE IInv'
  OBVIOUS
<1> USE DEF IInv
<1>b. ASSUME NEW s \in Sessions, At(s, "loaded") \/ At(s, "unlinked")
      PROVE  Changed(s) \in Stagings
  <2>1. proc[s].view \in Stagings /\ proc[s].cmd \in Commands
    BY <1>b DEF At, TypeOK, Procs, SessionInv, CmdInv
  <2> QED
    BY <2>1, EmptyType, ApplyType DEF Changed
<1>1. ASSUME NEW s \in Sessions, Start(s) PROVE IInv'
  <2> DEFINE p == proc'[s]
  <2>1. Load(s, "idle", Nothing) /\ "idle" \in Pcs
    BY <1>1 DEF Start, Pcs
  <2>2. TypeOK'
    BY <1>1, <2>1, Loaded DEF Start, TypeOK
  <2>3. \A t \in Sessions : proc'[t] = IF t = s THEN p ELSE proc[t]
    BY <2>1, Loaded
  <2>4. proc[s].pc = "off" /\ p.pc = "idle" /\ p.cmd = Nothing
    BY <1>1, <2>1, Loaded DEF Start, At
  <2> HIDE DEF p
  <2>5. LockInv'
    BY <1>1, <2>3, <2>4 DEF Start, TypeOK, LockInv, HoldsLock, HoldsClaim, SessionInv, CmdInv
  <2>6. ASSUME NEW t \in Sessions PROVE SessionInv(t)'
    BY <1>1, <2>3, <2>4 DEF Start, TypeOK, SessionInv, CmdInv, ViewInv, LegacyInv,
         AckInv, At, Seen, Content
  <2> QED
    BY <2>2, <2>5, <2>6
<1>2. ASSUME NEW s \in Sessions, Quit(s) PROVE IInv'
  <2> DEFINE p == Off
  <2>1. p \in Procs
    BY <1>2, EmptyType DEF Off, Procs, Pcs
  <2>2. TypeOK'
    BY <1>2, <2>1 DEF Quit, Becomes, TypeOK
  <2>3. \A t \in Sessions : proc'[t] = IF t = s THEN p ELSE proc[t]
    BY <1>2 DEF Quit, Becomes, TypeOK
  <2>4. proc[s].pc = "idle" /\ p.pc = "off" /\ p.cmd = Nothing
    BY <1>2 DEF Quit, At, Off
  <2> HIDE DEF p
  <2>5. LockInv'
    BY <1>2, <2>3, <2>4 DEF Quit, Becomes, TypeOK, LockInv, HoldsLock, HoldsClaim,
         SessionInv, CmdInv
  <2>6. ASSUME NEW t \in Sessions PROVE SessionInv(t)'
    BY <1>2, <2>3, <2>4 DEF Quit, Becomes, TypeOK, SessionInv, CmdInv, ViewInv,
         LegacyInv, AckInv, At, Seen, Content
  <2> QED
    BY <2>2, <2>5, <2>6
<1>3. ASSUME NEW s \in Sessions, Ask(s) PROVE IInv'
  <2> DEFINE p == proc'[s]
  <2>1. p \in Procs
    <3>1. PICK c \in Edits \cup {Discard} :
            proc' = [proc EXCEPT ![s].pc = "lock", ![s].cmd = c]
      BY <1>3 DEF Ask
    <3>2. c \in Commands /\ proc[s] \in Procs
      BY CommandMembers DEF TypeOK
    <3>3. p = [proc[s] EXCEPT !.pc = "lock", !.cmd = c]
      BY <3>1 DEF TypeOK
    <3> QED
      BY ONLY <3>2, <3>3 DEF Procs, Pcs
  <2>2. TypeOK'
    BY <1>3, <2>1 DEF Ask, Spends, TypeOK
  <2>3. \A t \in Sessions : proc'[t] = IF t = s THEN p ELSE proc[t]
    BY <1>3 DEF Ask, Spends, TypeOK
  <2>4. proc[s].pc = "idle" /\ p.pc = "lock" /\ p.cmd \in Edits \cup {Discard}
    BY <1>3 DEF Ask, At, TypeOK, Procs
  <2> HIDE DEF p
  <2>5. LockInv'
    BY <1>3, <2>3, <2>4, CommandMembers DEF Ask, Spends, TypeOK, LockInv, HoldsLock,
         HoldsClaim, SessionInv, CmdInv
  <2>6. ASSUME NEW t \in Sessions PROVE SessionInv(t)'
    BY <1>3, <2>3, <2>4, CommandMembers DEF Ask, Spends, TypeOK, SessionInv, CmdInv,
         ViewInv, LegacyInv, AckInv, At, Seen, Content
  <2> QED
    BY <2>2, <2>5, <2>6
<1>4. ASSUME NEW s \in Sessions, AskAdopt(s) PROVE IInv'
  <2> DEFINE p == proc'[s]
  <2>1. p \in Procs
    <3>1. proc' = [proc EXCEPT ![s].pc = "claim", ![s].cmd = Adopt]
      BY <1>4 DEF AskAdopt
    <3>2. Adopt \in Commands
      BY CommandMembers
    <3>3. proc[s] \in Procs /\ p = [proc[s] EXCEPT !.pc = "claim", !.cmd = Adopt]
      BY <3>1 DEF TypeOK
    <3> HIDE DEF p
    <3> QED
      BY ONLY <3>2, <3>3 DEF Procs, Pcs
  <2>2. TypeOK'
    BY <1>4, <2>1 DEF AskAdopt, Spends, TypeOK
  <2>3. \A t \in Sessions : proc'[t] = IF t = s THEN p ELSE proc[t]
    BY <1>4 DEF AskAdopt, Spends, TypeOK
  <2>4. proc[s].pc = "idle" /\ p.pc = "claim" /\ p.cmd = Adopt
    BY <1>4 DEF AskAdopt, At, TypeOK, Procs
  <2> HIDE DEF p
  <2>5. LockInv'
    BY <1>4, <2>3, <2>4 DEF AskAdopt, Spends, TypeOK, LockInv, HoldsLock, HoldsClaim,
         SessionInv, CmdInv
  <2>6. ASSUME NEW t \in Sessions PROVE SessionInv(t)'
    BY <1>4, <2>3, <2>4, CommandMembers DEF AskAdopt, Spends, TypeOK, SessionInv,
         CmdInv, ViewInv, LegacyInv, AckInv, At, Seen, Content
  <2> QED
    BY <2>2, <2>5, <2>6
<1>5. ASSUME NEW s \in Sessions, TakeClaim(s) PROVE IInv'
  <2> DEFINE p == proc'[s]
  <2>1. p \in Procs
    <3>1. proc[s] \in Procs /\ p = [proc[s] EXCEPT !.pc = "lock"]
      BY <1>5 DEF TakeClaim, Goes, TypeOK
    <3> HIDE DEF p
    <3> QED
      BY ONLY <3>1 DEF Procs, Pcs
  <2>2. TypeOK'
    BY <1>5, <2>1 DEF TakeClaim, Goes, TypeOK
  <2>3. \A t \in Sessions : proc'[t] = IF t = s THEN p ELSE proc[t]
    BY <1>5 DEF TakeClaim, Goes, TypeOK
  <2>4. proc[s].pc = "claim" /\ p.pc = "lock" /\ p.cmd = proc[s].cmd /\ p.cmd = Adopt
    BY <1>5 DEF TakeClaim, Goes, At, TypeOK, Procs, SessionInv, CmdInv
  <2> HIDE DEF p
  <2>5. LockInv'
    BY <1>5, <2>3, <2>4 DEF TakeClaim, Goes, TypeOK, LockInv, HoldsLock, HoldsClaim,
         SessionInv, CmdInv
  <2>6. ASSUME NEW t \in Sessions PROVE SessionInv(t)'
    BY <1>5, <2>3, <2>4, CommandMembers DEF TakeClaim, Goes, TypeOK, SessionInv,
         CmdInv, ViewInv, LegacyInv, AckInv, At, Seen, Content
  <2> QED
    BY <2>2, <2>5, <2>6
<1>6. ASSUME NEW s \in Sessions, TakeLock(s) PROVE IInv'
  <2> DEFINE p == proc'[s]
  <2>1. /\ Load(s, "loaded", proc[s].cmd) /\ "loaded" \in Pcs
        /\ proc[s].cmd \in Commands \cup {Nothing}
    BY <1>6 DEF TakeLock, Pcs, TypeOK, Procs
  <2>2. TypeOK'
    BY <1>6, <2>1, Loaded DEF TakeLock, TypeOK
  <2>3. \A t \in Sessions : proc'[t] = IF t = s THEN p ELSE proc[t]
    BY <2>1, Loaded
  <2>4. /\ proc[s].pc = "lock" /\ p.pc = "loaded" /\ p.cmd = proc[s].cmd
        /\ p.view = IF p.blind THEN Empty ELSE Content(OriginOf[s])
    BY <1>6, <2>1, Loaded DEF TakeLock, At
  <2> HIDE DEF p
  <2>5. LockInv'
    BY <1>6, <2>3, <2>4 DEF TakeLock, TypeOK, LockInv, HoldsLock, HoldsClaim,
         SessionInv, CmdInv
  <2>6. ASSUME NEW t \in Sessions PROVE SessionInv(t)'
    BY <1>6, <2>3, <2>4 DEF TakeLock, TypeOK, SessionInv, CmdInv, ViewInv, LegacyInv,
         AckInv, At, Seen, Content
  <2> QED
    BY <2>2, <2>5, <2>6
<1>7. ASSUME NEW s \in Sessions, Busy(s) PROVE IInv'
  <2> DEFINE p == proc'[s]
  <2>1. p \in Procs
    <3>1. proc[s] \in Procs /\ p = [proc[s] EXCEPT !.pc = "idle", !.cmd = Nothing]
      BY <1>7 DEF Busy, TypeOK
    <3> HIDE DEF p
    <3> QED
      BY ONLY <3>1 DEF Procs, Pcs
  <2>2. TypeOK'
    BY <1>7, <2>1 DEF Busy, Release, TypeOK
  <2>3. \A t \in Sessions : proc'[t] = IF t = s THEN p ELSE proc[t]
    BY <1>7 DEF Busy, Release, TypeOK
  <2>4. proc[s].pc \in {"claim", "lock"} /\ p.pc = "idle" /\ p.cmd = Nothing
    BY <1>7 DEF Busy, At, TypeOK, Procs
  <2> HIDE DEF p
  <2>5. LockInv'
    BY <1>7, <2>3, <2>4 DEF Busy, Release, TypeOK, LockInv, HoldsLock, HoldsClaim,
         SessionInv, CmdInv
  <2>6. ASSUME NEW t \in Sessions PROVE SessionInv(t)'
    BY <1>7, <2>3, <2>4 DEF Busy, Release, TypeOK, SessionInv, CmdInv, ViewInv,
         LegacyInv, AckInv, At, Seen, Content
  <2> QED
    BY <2>2, <2>5, <2>6
<1>8. ASSUME NEW s \in Sessions, ReadLegacy(s) PROVE IInv'
  <2> DEFINE p == proc'[s]
  <2>1. p \in Procs
    <3> DEFINE v == Apply(Adopt, proc[s].view, OldStaging)
    <3>1. v \in Stagings
      BY ApplyType, OldType, CommandMembers DEF TypeOK, Procs
    <3>2. proc' = [proc EXCEPT ![s].pc = "read", ![s].view = v]
      BY <1>8 DEF ReadLegacy
    <3> HIDE DEF v
    <3>3. proc[s] \in Procs /\ p = [proc[s] EXCEPT !.pc = "read", !.view = v]
      BY <3>2 DEF TypeOK
    <3> HIDE DEF p
    <3> QED
      BY ONLY <3>1, <3>3 DEF Procs, Pcs
  <2>2. TypeOK'
    BY <1>8, <2>1 DEF ReadLegacy, TypeOK
  <2>3. \A t \in Sessions : proc'[t] = IF t = s THEN p ELSE proc[t]
    BY <1>8 DEF ReadLegacy, TypeOK
  <2>4. /\ proc[s].pc = "loaded" /\ p.pc = "read" /\ p.cmd = Adopt /\ proc[s].cmd = Adopt
       /\ p.blind = proc[s].blind
       /\ p.view = Adopted(OldStaging, Seen(s)) /\ legacy
    BY <1>8, CommandMembers DEF ReadLegacy, At, TypeOK, Procs, SessionInv, ViewInv,
         Apply, Adopt
  <2> HIDE DEF p
  <2>5. LockInv'
    BY <1>8, <2>3, <2>4 DEF ReadLegacy, TypeOK, LockInv, HoldsLock, HoldsClaim,
         SessionInv, CmdInv
  <2>6. ASSUME NEW t \in Sessions PROVE SessionInv(t)'
    <3>1. CASE t = s
      <4>1. proc'[t] = p
        BY <3>1, <2>3
      <4> QED
        BY <4>1, <3>1, <1>8, <2>4, CommandMembers DEF ReadLegacy, SessionInv,
             CmdInv, ViewInv, LegacyInv, AckInv, At, Seen, Content
    <3>2. CASE t # s
      <4>1. proc'[t] = proc[t]
        BY <3>2, <2>3
      <4> QED
        BY <4>1, <1>8 DEF ReadLegacy, SessionInv, CmdInv, ViewInv, LegacyInv,
             AckInv, At, Seen, Content
    <3> QED
      BY <3>1, <3>2
  <2> QED
    BY <2>2, <2>5, <2>6
<1>9. ASSUME NEW s \in Sessions, Unlink(s) PROVE IInv'
  <2> DEFINE p == proc'[s]
  <2>1. p \in Procs
    <3>1. proc[s] \in Procs /\ p = [proc[s] EXCEPT !.pc = "unlinked", !.unadopted = FALSE]
      BY <1>9 DEF Unlink, TypeOK
    <3> HIDE DEF p
    <3> QED
      BY ONLY <3>1 DEF Procs, Pcs
  <2>2. TypeOK'
    BY <1>9, <2>1 DEF Unlink, TypeOK
  <2>3. \A t \in Sessions : proc'[t] = IF t = s THEN p ELSE proc[t]
    BY <1>9 DEF Unlink, TypeOK
  <2>4. /\ proc[s].pc = "read" /\ p.pc = "unlinked" /\ p.cmd = Adopt /\ proc[s].cmd = Adopt
       /\ p.view = proc[s].view /\ p.blind = proc[s].blind
    BY <1>9 DEF Unlink, At, TypeOK, Procs, SessionInv, CmdInv
  <2>a. \A t \in Sessions : proc[t].pc = "read" => t = s
    BY <2>4 DEF LockInv, HoldsClaim, SessionInv, CmdInv
  <2> HIDE DEF p
  <2>5. LockInv'
    BY <1>9, <2>3, <2>4 DEF Unlink, TypeOK, LockInv, HoldsLock, HoldsClaim, SessionInv, CmdInv
  <2>6. ASSUME NEW t \in Sessions PROVE SessionInv(t)'
    BY <1>9, <2>3, <2>4, <2>a, CommandMembers DEF Unlink, TypeOK, SessionInv, CmdInv,
         ViewInv, LegacyInv, AckInv, At, Seen, Content
  <2> QED
    BY <2>2, <2>5, <2>6
<1>10. ASSUME NEW s \in Sessions, Save(s) PROVE IInv'
  <2> DEFINE p == proc'[s]
  <2>1. p \in Procs
    <3>1. Changed(s) \in Stagings /\ proc[s] \in Procs
      BY <1>10, <1>b DEF Save, Return, Ready, TypeOK
    <3>2. p = [proc[s] EXCEPT !.pc = "idle", !.cmd = Nothing, !.view = Changed(s)]
      BY <1>10 DEF Save, Return, TypeOK
    <3> HIDE DEF p
    <3> QED
      BY ONLY <3>1, <3>2 DEF Procs, Pcs
  <2>2. TypeOK'
    BY <1>10, <2>1, <1>b, PairsType DEF Save, Return, Ready, Release, TypeOK
  <2>3. \A t \in Sessions : proc'[t] = IF t = s THEN p ELSE proc[t]
    BY <1>10 DEF Save, Return, Release, TypeOK
  <2>4. /\ proc[s].pc \in {"loaded", "unlinked"} /\ p.pc = "idle" /\ p.cmd = Nothing
       /\ OriginOf[s] \in Origins
    BY <1>10 DEF Save, Return, Ready, At, TypeOK, Procs
  <2>a. \A t \in Sessions : HoldsLock(t) /\ OriginOf[t] = OriginOf[s] => t = s
    BY <2>4 DEF LockInv, HoldsLock
  <2> HIDE DEF p
  <2>5. LockInv'
    BY <1>10, <2>3, <2>4 DEF Save, Return, Release, TypeOK, LockInv, HoldsLock,
         HoldsClaim, SessionInv, CmdInv
  <2>6. ASSUME NEW t \in Sessions PROVE SessionInv(t)'
    <3>1. CASE t = s
      <4>1. proc'[t] = p
        BY <3>1, <2>3
      <4> QED
        BY <4>1, <3>1, <1>10, <2>4, CommandMembers DEF Save, Return, SessionInv,
             CmdInv, ViewInv, LegacyInv, AckInv, At, Seen, Content
    <3>2. CASE t # s
      <4>1. proc'[t] = proc[t]
        BY <3>2, <2>3
      <4>2. HoldsLock(t) => Content(OriginOf[t])' = Content(OriginOf[t])
        BY <3>2, <2>4, <2>a, <1>10 DEF Save, Content, TypeOK
      <4> QED
        BY <4>1, <4>2, <1>10 DEF Save, HoldsLock, SessionInv, CmdInv, ViewInv,
             LegacyInv, AckInv, At, Seen
    <3> QED
      BY <3>1, <3>2
  <2> QED
    BY <2>2, <2>5, <2>6
<1>11. ASSUME NEW s \in Sessions, SaveFails(s) PROVE IInv'
  <2> DEFINE p == proc'[s]
  <2>1. p \in Procs
    <3>1. Changed(s) \in Stagings /\ proc[s] \in Procs
      BY <1>11, <1>b DEF SaveFails, Return, Ready, TypeOK
    <3>2. p = [proc[s] EXCEPT !.pc = "idle", !.cmd = Nothing, !.view = Changed(s)]
      BY <1>11 DEF SaveFails, Return, TypeOK
    <3> HIDE DEF p
    <3> QED
      BY ONLY <3>1, <3>2 DEF Procs, Pcs
  <2>2. TypeOK'
    BY <1>11, <2>1 DEF SaveFails, Return, Release, Spends, TypeOK
  <2>3. \A t \in Sessions : proc'[t] = IF t = s THEN p ELSE proc[t]
    BY <1>11 DEF SaveFails, Return, Release, Spends, TypeOK
  <2>4. /\ proc[s].pc \in {"loaded", "unlinked"} /\ p.pc = "idle" /\ p.cmd = Nothing
       /\ OriginOf[s] \in Origins
    BY <1>11 DEF SaveFails, Return, Ready, At, TypeOK, Procs
  <2> HIDE DEF p
  <2>5. LockInv'
    BY <1>11, <2>3, <2>4 DEF SaveFails, Return, Release, Spends, TypeOK, LockInv,
         HoldsLock, HoldsClaim, SessionInv, CmdInv
  <2>6. ASSUME NEW t \in Sessions PROVE SessionInv(t)'
    BY <1>11, <2>3, <2>4 DEF SaveFails, Return, Release, Spends, TypeOK, SessionInv,
         CmdInv, ViewInv, LegacyInv, AckInv, At, Seen, Content
  <2> QED
    BY <2>2, <2>5, <2>6
<1>12. ASSUME NEW s \in Sessions, Commit(s) PROVE IInv'
  <2> DEFINE p == proc'[s]
  <2>1. p \in Procs
    <3>1. proc' = [proc EXCEPT ![s].pc = "commit", ![s].cmd = Ack(proc[s].view)]
      BY <1>12 DEF Commit
    <3>2. Ack(proc[s].view) \in Commands
      BY CommandMembers DEF TypeOK, Procs
    <3>3. proc[s] \in Procs /\ p = [proc[s] EXCEPT !.pc = "commit", !.cmd = Ack(proc[s].view)]
      BY <3>1 DEF TypeOK
    <3> HIDE DEF p
    <3> QED
      BY ONLY <3>2, <3>3 DEF Procs, Pcs
  <2>2. TypeOK'
    BY <1>12, <2>1 DEF Commit, Spends, TypeOK
  <2>3. \A t \in Sessions : proc'[t] = IF t = s THEN p ELSE proc[t]
    BY <1>12 DEF Commit, Spends, TypeOK
  <2>4. proc[s].pc = "idle" /\ p.pc = "commit" /\ p.cmd \in Commands /\ p.cmd.op = "ack"
    BY <1>12, CommandMembers DEF Commit, At, TypeOK, Procs
  <2> HIDE DEF p
  <2>5. LockInv'
    BY <1>12, <2>3, <2>4 DEF Commit, Spends, TypeOK, LockInv, HoldsLock, HoldsClaim,
         SessionInv, CmdInv
  <2>6. ASSUME NEW t \in Sessions PROVE SessionInv(t)'
    <3>1. CASE t = s
      <4>1. proc'[t] = p
        BY <3>1, <2>3
      <4> QED
        BY <4>1, <3>1, <1>12, <2>4, CommandMembers DEF Commit, SessionInv, CmdInv,
             ViewInv, LegacyInv, AckInv, At, Seen, Content
    <3>2. CASE t # s
      <4>1. proc'[t] = proc[t]
        BY <3>2, <2>3
      <4> QED
        BY <4>1, <1>12 DEF Commit, SessionInv, CmdInv, ViewInv, LegacyInv, AckInv,
             At, Seen, Content
    <3> QED
      BY <3>1, <3>2
  <2> QED
    BY <2>2, <2>5, <2>6
<1>13. ASSUME NEW s \in Sessions, CommitSucceeds(s) PROVE IInv'
  <2> DEFINE p == proc'[s]
  <2>1. p \in Procs
    <3>1. proc[s] \in Procs /\ p = [proc[s] EXCEPT !.pc = "lock"]
      BY <1>13 DEF CommitSucceeds, Goes, TypeOK
    <3> HIDE DEF p
    <3> QED
      BY ONLY <3>1 DEF Procs, Pcs
  <2>2. TypeOK'
    BY <1>13, <2>1, PairsType, CommandNames DEF CommitSucceeds, Goes, At, SessionInv,
         CmdInv, Procs, TypeOK
  <2>3. \A t \in Sessions : proc'[t] = IF t = s THEN p ELSE proc[t]
    BY <1>13 DEF CommitSucceeds, Goes, TypeOK
  <2>4. /\ proc[s].pc = "commit" /\ p.pc = "lock" /\ p.cmd = proc[s].cmd /\ p.cmd.op = "ack"
       /\ p.cmd \in Commands /\ p.cmd # Adopt /\ p.cmd.plan \in Stagings
       /\ OriginOf[s] \in Origins
    BY <1>13, CommandNames DEF CommitSucceeds, Goes, At, TypeOK, Procs, SessionInv,
         CmdInv, Adopt
  <2>b. \A t \in Sessions : applied[OriginOf[t]] \subseteq applied'[OriginOf[t]]
    BY <1>13, <2>4 DEF CommitSucceeds, TypeOK
  <2> HIDE DEF p
  <2>5. LockInv'
    BY <1>13, <2>3, <2>4 DEF CommitSucceeds, Goes, TypeOK, LockInv, HoldsLock,
         HoldsClaim, SessionInv, CmdInv
  <2>6. ASSUME NEW t \in Sessions PROVE SessionInv(t)'
    BY <1>13, <2>3, <2>4, <2>b DEF CommitSucceeds, Goes, TypeOK, SessionInv, CmdInv,
         ViewInv, LegacyInv, AckInv, At, Seen, Content
  <2> QED
    BY <2>2, <2>5, <2>6
<1>14. ASSUME NEW s \in Sessions, CommitFails(s) PROVE IInv'
  <2> DEFINE p == proc'[s]
  <2>1. p \in Procs
    <3>1. proc[s] \in Procs /\ p = [proc[s] EXCEPT !.pc = "idle", !.cmd = Nothing]
      BY <1>14 DEF CommitFails, TypeOK
    <3> HIDE DEF p
    <3> QED
      BY ONLY <3>1 DEF Procs, Pcs
  <2>2. TypeOK'
    BY <1>14, <2>1 DEF CommitFails, TypeOK
  <2>3. \A t \in Sessions : proc'[t] = IF t = s THEN p ELSE proc[t]
    BY <1>14 DEF CommitFails, TypeOK
  <2>4. proc[s].pc = "commit" /\ p.pc = "idle" /\ p.cmd = Nothing
    BY <1>14 DEF CommitFails, At, TypeOK, Procs
  <2> HIDE DEF p
  <2>5. LockInv'
    BY <1>14, <2>3, <2>4 DEF CommitFails, TypeOK, LockInv, HoldsLock, HoldsClaim,
         SessionInv, CmdInv
  <2>6. ASSUME NEW t \in Sessions PROVE SessionInv(t)'
    BY <1>14, <2>3, <2>4 DEF CommitFails, TypeOK, SessionInv, CmdInv, ViewInv,
         LegacyInv, AckInv, At, Seen, Content
  <2> QED
    BY <2>2, <2>5, <2>6
<1>15. ASSUME NEW s \in Sessions, Crash(s) PROVE IInv'
  <2> DEFINE p == Off
  <2>1. p \in Procs
    BY <1>15, EmptyType DEF Off, Procs, Pcs
  <2>2. TypeOK'
    BY <1>15, <2>1 DEF Crash, Becomes, Release, Spends, TypeOK
  <2>3. \A t \in Sessions : proc'[t] = IF t = s THEN p ELSE proc[t]
    BY <1>15 DEF Crash, Becomes, Release, Spends, TypeOK
  <2>4. p.pc = "off" /\ p.cmd = Nothing
    BY <1>15 DEF Off
  <2> HIDE DEF p
  <2>5. LockInv'
    BY <1>15, <2>3, <2>4 DEF Crash, Becomes, Release, Spends, TypeOK, LockInv,
         HoldsLock, HoldsClaim, SessionInv, CmdInv
  <2>6. ASSUME NEW t \in Sessions PROVE SessionInv(t)'
    BY <1>15, <2>3, <2>4 DEF Crash, Becomes, Release, Spends, TypeOK, SessionInv,
         CmdInv, ViewInv, LegacyInv, AckInv, At, Seen, Content
  <2> QED
    BY <2>2, <2>5, <2>6
<1>16. ASSUME UNCHANGED vars PROVE IInv'
  BY <1>16 DEF vars, TypeOK, LockInv, HoldsLock, HoldsClaim, SessionInv, CmdInv,
               ViewInv, LegacyInv, AckInv, At, Seen, Content
<1> QED
  BY <1>1, <1>2, <1>3, <1>4, <1>5, <1>6, <1>7, <1>8, <1>9, <1>10, <1>11, <1>12, <1>13,
       <1>14, <1>15, <1>16 DEF Next

THEOREM Invariance == Spec => []IInv
BY InitIInv, NextIInv, PTL DEF Spec

\* The staging, the sessions and the locks are of their types.
THEOREM TypeCorrect == Spec => []TypeOK
BY Invariance, PTL DEF IInv

-----------------------------------------------------------------------------
(* The store implements StagingArea.                                       *)

AskedNow(s) == IF proc[s].pc \in {"off", "idle", "commit"} THEN Nothing
               ELSE proc[s].cmd
StagedNow   == [o \in Origins |-> Content(o)]
AskedOfAll  == [s \in Sessions |-> AskedNow(s)]
PoolNow     == IF legacy \/ InHand THEN OldStaging ELSE Empty
BlindNow    == {s \in Sessions : proc[s].blind /\ lock[OriginOf[s]] = s}
IsBlind(s)  == proc[s].blind /\ HoldsLock(s)

LEMMA AreaData ==
  /\ Area!Empty = Empty /\ Area!OldStaging = OldStaging
  /\ Area!Adopt = Adopt /\ Area!Commands = Commands
BY DEF Area!Empty, Empty, Area!OldStaging, OldStaging, Area!Adopt, Adopt,
       Area!Item, Item, Area!Commands, Commands, Area!Edits, Edits,
       Area!Discard, Discard, Area!Stagings, Stagings, Area!Items, Items,
       Area!Modes, Modes

LEMMA AreaApply ==
  ASSUME NEW c, NEW st, NEW old PROVE Area!Apply(c, st, old) = Apply(c, st, old)
BY DEF Area!Apply, Apply, Area!Empty, Empty, Area!Acknowledged, Acknowledged,
       Area!Adopted, Adopted, Area!Edited, Edited, Area!SetPath, SetPath,
       Area!Prune, Prune, Area!Item, Item

\* The actions of StagingArea, in terms of the store.
AreaAsk(s) ==
  /\ AskedNow(s) = Nothing /\ AskedNow(s)' \in Commands
  /\ \A t \in Sessions : t # s => AskedNow(t)' = AskedNow(t)
  /\ \A t \in Sessions : IsBlind(t)' <=> IsBlind(t)
  /\ StagedNow' = StagedNow /\ PoolNow' = PoolNow

AreaBlind(s) ==
  /\ AskedNow(s) # Nothing /\ IsBlind(s)'
  /\ \A t \in Sessions : AskedNow(t)' = AskedNow(t)
  /\ \A t \in Sessions : t # s => (IsBlind(t)' <=> IsBlind(t))
  /\ StagedNow' = StagedNow /\ PoolNow' = PoolNow

AreaAnswer(s) ==
  /\ AskedNow(s) # Nothing /\ AskedNow(s)' = Nothing /\ ~IsBlind(s)'
  /\ \A t \in Sessions : t # s => /\ AskedNow(t)' = AskedNow(t)
                                  /\ IsBlind(t)' <=> IsBlind(t)

AreaPerform(s) ==
  /\ AreaAnswer(s)
  /\ StagedNow' = [StagedNow EXCEPT ![OriginOf[s]] =
                      Apply(AskedNow(s), IF IsBlind(s) THEN Empty ELSE @, PoolNow)]
  /\ PoolNow' = IF AskedNow(s) = Adopt THEN Empty ELSE PoolNow

AreaFail(s) ==
  /\ AreaAnswer(s)
  /\ StagedNow' = StagedNow
  /\ \/ PoolNow' = PoolNow
     \/ AskedNow(s) = Adopt /\ PoolNow' = Empty

AreaStutter ==
  /\ \A t \in Sessions : AskedNow(t)' = AskedNow(t) /\ (IsBlind(t)' <=> IsBlind(t))
  /\ StagedNow' = StagedNow /\ PoolNow' = PoolNow

LEMMA AreaSteps ==
  ASSUME LockInv, LockInv',
         \/ AreaStutter
         \/ \E s \in Sessions :
              AreaAsk(s) \/ AreaBlind(s) \/ AreaPerform(s) \/ AreaFail(s)
  PROVE  [Area!Next]_(Area!vars)
<1>a. AskedOfAll' = [s \in Sessions |-> AskedNow(s)']
  BY DEF AskedOfAll
<1>b. \A s \in Sessions : /\ s \in BlindNow <=> IsBlind(s)
                          /\ s \in BlindNow' <=> IsBlind(s)'
  BY DEF LockInv, BlindNow, IsBlind
<1>c. BlindNow \subseteq Sessions /\ BlindNow' \subseteq Sessions
  BY DEF BlindNow
<1>1. CASE AreaStutter
  <2>1. AskedOfAll' = AskedOfAll /\ BlindNow' = BlindNow
    BY <1>1, <1>a, <1>b, <1>c DEF AreaStutter, AskedOfAll
  <2> QED
    BY <1>1, <2>1 DEF AreaStutter, Area!vars, AskedOfAll, AskedNow, StagedNow,
         PoolNow, BlindNow
<1>2. ASSUME NEW s \in Sessions, AreaAsk(s) PROVE Area!Next
  <2>1. AskedOfAll' = [AskedOfAll EXCEPT ![s] = AskedOfAll'[s]]
    BY <1>2, <1>a DEF AreaAsk, AskedOfAll
  <2>2. AskedOfAll[s] = Nothing /\ AskedOfAll'[s] \in Area!Commands
    BY <1>2, <1>a, AreaData DEF AreaAsk, AskedOfAll
  <2>3. BlindNow' = BlindNow
    BY <1>2, <1>b, <1>c DEF AreaAsk
  <2>4. Area!Ask(s)
    BY <2>1, <2>2, <2>3, <1>2
    DEF Area!Ask, AreaAsk, AskedOfAll, AskedNow, StagedNow, PoolNow, BlindNow
  <2> QED
    BY <2>4 DEF Area!Next
<1>6. ASSUME NEW s \in Sessions, AreaBlind(s) PROVE Area!Next
  <2>1. AskedOfAll' = AskedOfAll /\ AskedOfAll[s] # Nothing
    BY <1>6, <1>a DEF AreaBlind, AskedOfAll
  <2>2. BlindNow' = BlindNow \cup {s}
    BY <1>6, <1>b, <1>c DEF AreaBlind
  <2>3. Area!GoBlind(s)
    BY <2>1, <2>2, <1>6
    DEF Area!GoBlind, AreaBlind, AskedOfAll, AskedNow, StagedNow, PoolNow, BlindNow
  <2> QED
    BY <2>3 DEF Area!Next
<1>3. ASSUME NEW s \in Sessions, AreaAnswer(s) PROVE Area!Answered(s)
  <2>1. AskedOfAll' = [AskedOfAll EXCEPT ![s] = Nothing] /\ AskedOfAll[s] # Nothing
    BY <1>3, <1>a DEF AreaAnswer, AskedOfAll
  <2>2. BlindNow' = BlindNow \ {s}
    BY <1>3, <1>b, <1>c DEF AreaAnswer
  <2> QED
    BY <2>1, <2>2 DEF Area!Answered, AskedOfAll, AskedNow, BlindNow
<1>4. ASSUME NEW s \in Sessions, AreaPerform(s) PROVE Area!Next
  <2>1. AskedOfAll[s] = AskedNow(s) /\ Area!Answered(s)
    BY <1>4, <1>3 DEF AskedOfAll, AreaPerform
  <2>2. /\ StagedNow' = [StagedNow EXCEPT ![OriginOf[s]] =
               Area!Apply(AskedOfAll[s], IF s \in BlindNow THEN Area!Empty ELSE @, PoolNow)]
        /\ PoolNow' = IF AskedOfAll[s] = Area!Adopt THEN Area!Empty ELSE PoolNow
    BY <1>4, <1>b, <2>1, AreaApply, AreaData DEF AreaPerform
  <2>3. Area!Perform(s)
    BY <2>1, <2>2 DEF Area!Perform, AskedOfAll, AskedNow, StagedNow, PoolNow, BlindNow
  <2> QED
    BY <2>3 DEF Area!Next
<1>5. ASSUME NEW s \in Sessions, AreaFail(s) PROVE Area!Next
  <2>1. AskedOfAll[s] = AskedNow(s) /\ Area!Answered(s) /\ StagedNow' = StagedNow
    BY <1>5, <1>3 DEF AskedOfAll, AreaFail
  <2>2. CASE PoolNow' = PoolNow
    <3>1. Area!Fail(s)
      BY <2>1, <2>2 DEF Area!Fail, StagedNow, PoolNow
    <3> QED
      BY <3>1 DEF Area!Next
  <2>3. CASE AskedNow(s) = Adopt /\ PoolNow' = Empty
    <3>1. AskedOfAll[s] = Area!Adopt /\ PoolNow' = Area!Empty
      BY <2>1, <2>3, AreaData
    <3>2. Area!Lose(s)
      BY <2>1, <3>1 DEF Area!Lose, AskedOfAll, AskedNow, StagedNow, PoolNow
    <3> QED
      BY <3>2 DEF Area!Next
  <2> QED
    BY <1>5, <2>2, <2>3 DEF AreaFail
<1> QED
  BY <1>1, <1>2, <1>4, <1>5, <1>6

THEOREM StepImplements == IInv /\ IInv' /\ [Next]_vars => [Area!Next]_(Area!vars)
<1> SUFFICES ASSUME IInv, IInv', [Next]_vars
             PROVE  \/ AreaStutter
                    \/ \E s \in Sessions :
                         AreaAsk(s) \/ AreaBlind(s) \/ AreaPerform(s) \/ AreaFail(s)
  BY AreaSteps DEF IInv
<1> USE DEF IInv
<1>s. file' = file => StagedNow' = StagedNow
  BY DEF StagedNow, Content
\* The pool changes with the legacy file and with who has it in hand.
<1>p. ASSUME NEW s \in Sessions, legacy' = legacy,
             \A t \in Sessions : t # s => proc'[t] = proc[t],
             proc[s].pc = "unlinked" <=> proc'[s].pc = "unlinked"
      PROVE  PoolNow' = PoolNow
  BY <1>p DEF PoolNow, InHand, At
\* One session at most has it in hand.
<1>h. ASSUME NEW s \in Sessions, NEW t \in Sessions,
             HoldsClaim(s), proc[t].pc = "unlinked"
      PROVE  t = s
  BY <1>h DEF LockInv, HoldsClaim, SessionInv, CmdInv
<1>1. ASSUME NEW s \in Sessions, Start(s) PROVE AreaStutter
  <2>1. /\ \A t \in Sessions : t # s => proc'[t] = proc[t]
        /\ proc[s].pc = "off" /\ proc'[s].pc = "idle"
    BY <1>1, Loaded DEF Start, At, Pcs
  <2>2. file' = file /\ legacy' = legacy
    BY <1>1 DEF Start
  <2> QED
    BY <2>1, <2>2, <1>p, <1>s DEF AreaStutter, AskedNow, IsBlind, HoldsLock
<1>2. ASSUME NEW s \in Sessions, Quit(s) PROVE AreaStutter
  <2>1. /\ \A t \in Sessions : t # s => proc'[t] = proc[t]
        /\ proc[s].pc = "idle" /\ proc'[s].pc = "off"
    BY <1>2 DEF Quit, Becomes, Off, At, TypeOK, Procs
  <2>2. file' = file /\ legacy' = legacy
    BY <1>2 DEF Quit
  <2> QED
    BY <2>1, <2>2, <1>p, <1>s DEF AreaStutter, AskedNow, IsBlind, HoldsLock
<1>3. ASSUME NEW s \in Sessions, TakeClaim(s) PROVE AreaStutter
  <2>1. /\ \A t \in Sessions : t # s => proc'[t] = proc[t]
        /\ proc[s].pc = "claim" /\ proc'[s].pc = "lock" /\ proc'[s].cmd = proc[s].cmd
    BY <1>3 DEF TakeClaim, Goes, At, TypeOK, Procs
  <2>2. file' = file /\ legacy' = legacy
    BY <1>3 DEF TakeClaim
  <2> QED
    BY <2>1, <2>2, <1>p, <1>s DEF AreaStutter, AskedNow, IsBlind, HoldsLock
<1>4. ASSUME NEW s \in Sessions, TakeLock(s) PROVE AreaStutter \/ AreaBlind(s)
  <2>0. proc[s].cmd \in Commands \cup {Nothing} /\ "loaded" \in Pcs
    BY DEF TypeOK, Procs, Pcs
  <2>1. /\ \A t \in Sessions : t # s => proc'[t] = proc[t]
        /\ proc[s].pc = "lock" /\ proc'[s].pc = "loaded" /\ proc'[s].cmd = proc[s].cmd
    BY <1>4, <2>0, Loaded DEF TakeLock, At
  <2>2. file' = file /\ legacy' = legacy
    BY <1>4 DEF TakeLock
  <2>3. CASE ~proc'[s].blind
    BY <2>1, <2>2, <2>3, <1>p, <1>s DEF AreaStutter, AskedNow, IsBlind, HoldsLock
  <2>4. CASE proc'[s].blind
    <3>1. AskedNow(s) # Nothing
      BY <2>1 DEF AskedNow, SessionInv, CmdInv
    <3> QED
      BY <2>1, <2>2, <2>4, <3>1, <1>p, <1>s DEF AreaBlind, AskedNow, IsBlind, HoldsLock
  <2> QED
    BY <2>3, <2>4
<1>5. ASSUME NEW s \in Sessions, ReadLegacy(s) PROVE AreaStutter
  <2>1. /\ \A t \in Sessions : t # s => proc'[t] = proc[t]
        /\ proc[s].pc = "loaded" /\ proc'[s].pc = "read" /\ proc'[s].cmd = proc[s].cmd
        /\ proc'[s].blind = proc[s].blind
    BY <1>5 DEF ReadLegacy, At, TypeOK, Procs
  <2>2. file' = file /\ legacy' = legacy
    BY <1>5 DEF ReadLegacy
  <2> QED
    BY <2>1, <2>2, <1>p, <1>s DEF AreaStutter, AskedNow, IsBlind, HoldsLock
<1>6. ASSUME NEW s \in Sessions, Commit(s) PROVE AreaStutter
  <2>1. /\ \A t \in Sessions : t # s => proc'[t] = proc[t]
        /\ proc[s].pc = "idle" /\ proc'[s].pc = "commit"
    BY <1>6 DEF Commit, Spends, At, TypeOK, Procs
  <2>2. file' = file /\ legacy' = legacy
    BY <1>6 DEF Commit
  <2> QED
    BY <2>1, <2>2, <1>p, <1>s DEF AreaStutter, AskedNow, IsBlind, HoldsLock
<1>7. ASSUME NEW s \in Sessions, CommitFails(s) PROVE AreaStutter
  <2>1. /\ \A t \in Sessions : t # s => proc'[t] = proc[t]
        /\ proc[s].pc = "commit" /\ proc'[s].pc = "idle"
    BY <1>7 DEF CommitFails, At, TypeOK, Procs
  <2>2. file' = file /\ legacy' = legacy
    BY <1>7 DEF CommitFails
  <2> QED
    BY <2>1, <2>2, <1>p, <1>s DEF AreaStutter, AskedNow, IsBlind, HoldsLock
<1>8. ASSUME NEW s \in Sessions, Unlink(s) PROVE AreaStutter
  <2>1. /\ \A t \in Sessions : t # s => proc'[t] = proc[t]
        /\ proc[s].pc = "read" /\ proc'[s].pc = "unlinked" /\ proc'[s].cmd = proc[s].cmd
        /\ proc'[s].blind = proc[s].blind
    BY <1>8 DEF Unlink, At, TypeOK, Procs
  <2>2. file' = file /\ legacy
    BY <1>8, <2>1 DEF Unlink, SessionInv, LegacyInv, At
  <2>3. PoolNow' = PoolNow
    BY <2>1, <2>2 DEF PoolNow, InHand, At
  <2> QED
    BY <2>1, <2>2, <2>3, <1>s DEF AreaStutter, AskedNow, IsBlind, HoldsLock
<1>9. ASSUME NEW s \in Sessions, Ask(s) PROVE AreaAsk(s)
  <2>1. /\ \A t \in Sessions : t # s => proc'[t] = proc[t]
        /\ proc[s].pc = "idle" /\ proc'[s].pc = "lock"
    BY <1>9 DEF Ask, Spends, At, TypeOK, Procs
  <2>2. file' = file /\ legacy' = legacy
    BY <1>9 DEF Ask
  <2>3. proc'[s].cmd \in Commands
    BY <2>1 DEF SessionInv, CmdInv, TypeOK, Procs
  <2> QED
    BY <2>1, <2>2, <2>3, <1>p, <1>s DEF AreaAsk, AskedNow, IsBlind, HoldsLock
<1>10. ASSUME NEW s \in Sessions, AskAdopt(s) PROVE AreaAsk(s)
  <2>1. /\ \A t \in Sessions : t # s => proc'[t] = proc[t]
        /\ proc[s].pc = "idle" /\ proc'[s].pc = "claim"
    BY <1>10 DEF AskAdopt, Spends, At, TypeOK, Procs
  <2>2. file' = file /\ legacy' = legacy
    BY <1>10 DEF AskAdopt
  <2>3. proc'[s].cmd \in Commands
    BY <2>1 DEF SessionInv, CmdInv, TypeOK, Procs
  <2> QED
    BY <2>1, <2>2, <2>3, <1>p, <1>s DEF AreaAsk, AskedNow, IsBlind, HoldsLock
<1>11. ASSUME NEW s \in Sessions, CommitSucceeds(s) PROVE AreaAsk(s)
  <2>1. /\ \A t \in Sessions : t # s => proc'[t] = proc[t]
        /\ proc[s].pc = "commit" /\ proc'[s].pc = "lock"
    BY <1>11 DEF CommitSucceeds, Goes, At, TypeOK, Procs
  <2>2. file' = file /\ legacy' = legacy
    BY <1>11 DEF CommitSucceeds
  <2>3. proc'[s].cmd \in Commands
    BY <2>1 DEF SessionInv, CmdInv, TypeOK, Procs
  <2> QED
    BY <2>1, <2>2, <2>3, <1>p, <1>s DEF AreaAsk, AskedNow, IsBlind, HoldsLock
\* A command that fails: Busy, SaveFails and the death of a session.
<1>f. ASSUME NEW s \in Sessions, file' = file, legacy' = legacy,
             \A t \in Sessions : t # s => proc'[t] = proc[t],
             proc[s].pc \notin {"off", "idle", "commit"},
             proc'[s].pc \in {"off", "idle"}
      PROVE  AreaFail(s)
  <2>1. AreaAnswer(s)
    BY <1>f DEF AreaAnswer, AskedNow, SessionInv, CmdInv, IsBlind, HoldsLock
  <2>2. CASE proc[s].pc # "unlinked"
    <3>1. proc[s].pc = "unlinked" <=> proc'[s].pc = "unlinked"
      BY <2>2, <1>f
    <3>2. PoolNow' = PoolNow
      BY <3>1, <1>f, <1>p
    <3> QED
      BY <2>1, <3>2, <1>f, <1>s DEF AreaFail
  <2>3. CASE proc[s].pc = "unlinked"
    <3>1. HoldsClaim(s) /\ ~legacy /\ AskedNow(s) = Adopt
      BY <2>3 DEF HoldsClaim, SessionInv, CmdInv, LegacyInv, At, AskedNow
    <3>2. ~InHand'
      BY <3>1, <1>h, <1>f DEF InHand, At
    <3>3. PoolNow' = Empty
      BY <3>1, <3>2, <1>f DEF PoolNow
    <3> QED
      BY <2>1, <3>1, <3>3, <1>f, <1>s DEF AreaFail
  <2> QED
    BY <2>2, <2>3
<1>12. ASSUME NEW s \in Sessions, Busy(s) PROVE AreaFail(s)
  <2>1. /\ \A t \in Sessions : t # s => proc'[t] = proc[t]
        /\ proc[s].pc \in {"claim", "lock"} /\ proc'[s].pc = "idle"
        /\ file' = file /\ legacy' = legacy
    BY <1>12 DEF Busy, At, TypeOK, Procs
  <2> QED
    BY <2>1, <1>f
<1>13. ASSUME NEW s \in Sessions, SaveFails(s) PROVE AreaFail(s)
  <2>1. /\ \A t \in Sessions : t # s => proc'[t] = proc[t]
        /\ proc[s].pc \in {"loaded", "unlinked"} /\ proc'[s].pc = "idle"
        /\ file' = file /\ legacy' = legacy
    BY <1>13 DEF SaveFails, Return, Ready, At, TypeOK, Procs
  <2> QED
    BY <2>1, <1>f
<1>14. ASSUME NEW s \in Sessions, Crash(s) PROVE AreaStutter \/ AreaFail(s)
  <2>1. /\ \A t \in Sessions : t # s => proc'[t] = proc[t]
        /\ proc[s].pc \notin {"off", "idle"} /\ proc'[s].pc = "off"
        /\ file' = file /\ legacy' = legacy
    BY <1>14 DEF Crash, Becomes, Off, TypeOK, Procs
  <2>2. CASE proc[s].pc = "commit"
    BY <2>1, <2>2, <1>p, <1>s DEF AreaStutter, AskedNow, IsBlind, HoldsLock
  <2> QED
    BY <2>1, <2>2, <1>f
<1>15. ASSUME NEW s \in Sessions, Save(s) PROVE AreaPerform(s)
  <2> DEFINE o == OriginOf[s]
             c == proc[s].cmd
  <2>1. /\ \A t \in Sessions : t # s => proc'[t] = proc[t]
        /\ proc[s].pc \in {"loaded", "unlinked"} /\ proc'[s].pc = "idle"
        /\ legacy' = legacy /\ file' = [file EXCEPT ![o] = Changed(s)]
    BY <1>15 DEF Save, Return, Ready, At, TypeOK, Procs
  <2>2. o \in Origins /\ c \in Commands /\ AskedNow(s) = c /\ Ready(s)
    BY <2>1, <1>15 DEF Save, Return, SessionInv, CmdInv, TypeOK, Procs, AskedNow
  <2>3. AreaAnswer(s)
    BY <2>1 DEF AreaAnswer, AskedNow, SessionInv, CmdInv, IsBlind, HoldsLock
  <2>4. Changed(s) = Apply(c, Seen(s), PoolNow)
    <3>1. CASE proc[s].pc = "unlinked"
      <4>1. PoolNow = OldStaging /\ c = Adopt
        BY <3>1 DEF PoolNow, InHand, At, SessionInv, CmdInv
      <4>2. Changed(s) = Adopted(OldStaging, Seen(s))
        BY <3>1 DEF Changed, At, SessionInv, ViewInv
      <4> QED
        BY <4>1, <4>2 DEF Apply, Adopt
    <3>2. CASE proc[s].pc = "loaded"
      <4>1. Changed(s) = Apply(c, Seen(s), Empty)
        BY <3>2 DEF Changed, At, SessionInv, ViewInv
      <4>2. CASE c # Adopt
        BY <4>1, <4>2, <2>2, ApplyIgnoresOld
      <4>3. CASE c = Adopt
        <5>1. ~legacy /\ HoldsClaim(s)
          BY <3>2, <4>3, <2>2 DEF Ready, HoldsClaim, At
        <5>2. PoolNow = Empty
          BY <5>1, <3>2, <1>h DEF PoolNow, InHand, At
        <5> QED
          BY <4>1, <5>2
      <4> QED
        BY <4>2, <4>3
    <3> QED
      BY <2>1, <3>1, <3>2
  <2>5. StagedNow' = [StagedNow EXCEPT ![o] = Changed(s)]
    <3>1. Changed(s) # Missing
      <4>1. proc[s].view \in Stagings
        BY DEF TypeOK, Procs
      <4>2. Changed(s) \in Stagings
        BY <4>1, <2>2, EmptyType, ApplyType DEF Changed
      <4> QED
        BY <4>2
    <3>2. \A q \in Origins : file'[q] = IF q = o THEN Changed(s) ELSE file[q]
      BY <2>1 DEF TypeOK
    <3>3. \A q \in Origins : Content(q)' = IF q = o THEN Changed(s) ELSE Content(q)
      BY <3>1, <3>2 DEF Content
    <3> QED
      BY <3>3 DEF StagedNow
  <2>6. Seen(s) = IF IsBlind(s) THEN Empty ELSE StagedNow[o]
    BY <2>1, <2>2 DEF StagedNow, Seen, IsBlind, HoldsLock
  <2>7. PoolNow' = IF c = Adopt THEN Empty ELSE PoolNow
    <3>1. CASE c = Adopt
      <4>1. HoldsClaim(s) /\ ~legacy
        BY <2>1, <2>2, <3>1 DEF HoldsClaim, Ready, SessionInv, LegacyInv, At
      <4>2. ~InHand'
        BY <4>1, <1>h, <2>1 DEF InHand, At
      <4> QED
        BY <3>1, <4>1, <4>2, <2>1 DEF PoolNow
    <3>2. CASE c # Adopt
      <4>1. proc[s].pc # "unlinked"
        BY <3>2 DEF SessionInv, CmdInv
      <4> QED
        BY <3>2, <4>1, <2>1, <1>p
    <3> QED
      BY <3>1, <3>2
  <2> QED
    BY <2>2, <2>3, <2>4, <2>5, <2>6, <2>7 DEF AreaPerform
<1>16. CASE UNCHANGED vars
  BY <1>16 DEF vars, AreaStutter, AskedNow, IsBlind, HoldsLock, StagedNow, Content, PoolNow,
               InHand, At
<1> QED
  BY <1>1, <1>2, <1>3, <1>4, <1>5, <1>6, <1>7, <1>8, <1>9, <1>10, <1>11, <1>12, <1>13,
       <1>14, <1>15, <1>16 DEF Next

THEOREM InitImplements == Init => Area!Init
<1> SUFFICES ASSUME Init PROVE Area!Init
  OBVIOUS
<1>1. \A s \in Sessions : proc[s] = Off
  BY DEF Init
<1>2. StagedNow = [o \in Origins |-> Empty]
  BY DEF Init, StagedNow, Content
<1>3. AskedOfAll = [s \in Sessions |-> Nothing]
  BY <1>1 DEF AskedOfAll, AskedNow, Off
<1>4. PoolNow \in {Empty, OldStaging} /\ BlindNow = {}
  BY <1>1 DEF PoolNow, BlindNow, Off
<1> QED
  BY <1>2, <1>3, <1>4, AreaData
  DEF Area!Init, StagedNow, AskedOfAll, AskedNow, PoolNow, BlindNow

\* Every mutation of a store takes effect at one moment, on all that is staged
\* at that moment, or fails and changes nothing (_mutate), for any number of
\* sessions of any number of Orchestrators; but one whose read of the store
\* failed takes effect on nothing, and replaces what is staged.
THEOREM StoreImplementsArea == Spec => KeepsStagingArea
BY InitImplements, StepImplements, Invariance, PTL
DEF KeepsStagingArea, Spec, Area!Spec

-----------------------------------------------------------------------------
(* What is staged does not vanish.                                         *)

LEMMA StepKeepsWork ==
  ASSUME IInv, [Next]_vars, NEW o \in Origins, NEW r \in Refs,
         Content(o)[r] \notin {NoItem, Content(o)'[r]}
  PROVE  \/ <<r, Content(o)[r]>> \in applied[o] \/ AskedFor(o, r)
         \/ \E s \in Sessions : lock[o] = s /\ proc[s].blind
<1> USE DEF IInv
<1>1. file'[o] # file[o]
  BY DEF Content
<1>2. PICK s \in Sessions : Save(s)
  BY <1>1 DEF Next, vars, Start, Quit, Ask, AskAdopt, TakeClaim, TakeLock, Busy,
     ReadLegacy, Unlink, SaveFails, Commit, CommitSucceeds, CommitFails, Crash
<1> DEFINE c == proc[s].cmd
<1>3. /\ OriginOf[s] = o /\ proc[s].pc \in {"loaded", "unlinked"}
      /\ file'[o] = Changed(s) /\ proc[s].view \in Stagings
  BY <1>1, <1>2 DEF Save, Return, Ready, At, TypeOK, Procs
<1>4. c \in Commands /\ lock[o] = s
  BY <1>3 DEF SessionInv, CmdInv, TypeOK, Procs, LockInv, HoldsLock
<1>5. Content(o)' = Changed(s)
  <2>1. Changed(s) \in Stagings
    BY <1>3, <1>4, EmptyType, ApplyType DEF Changed
  <2> QED
    BY <1>3, <2>1 DEF Content
<1>8. CASE proc[s].blind
  BY <1>4, <1>8
<1>9. proc[s].blind \/ Seen(s) = Content(o)
  BY <1>3 DEF Seen
<1>6. CASE proc[s].pc = "unlinked" /\ ~proc[s].blind
  <2>1. Content(o)' = Adopted(OldStaging, Content(o)) /\ c = Adopt
    BY <1>3, <1>5, <1>6, <1>9 DEF Changed, At, SessionInv, CmdInv, ViewInv
  <2>2. OldStaging[r] # NoItem
    BY <2>1 DEF Adopted
  <2>3. r \in OldRefs
    BY <2>2 DEF OldStaging
  <2> QED
    BY <1>3, <1>4, <2>1, <2>3 DEF AskedFor
<1>7. CASE proc[s].pc = "loaded" /\ ~proc[s].blind
  <2>1. Content(o)' = Apply(c, Content(o), Empty)
    BY <1>3, <1>5, <1>7, <1>9 DEF Changed, At, SessionInv, ViewInv
  <2>2. CASE c.op = "discard"
    BY <1>3, <1>4, <2>2, CommandNames DEF AskedFor
  <2>3. CASE c.op = "adopt"
    <3>1. Content(o)' = Adopted(Empty, Content(o))
      BY <2>1, <2>3 DEF Apply
    <3>2. Content(o)'[r] = Content(o)[r]
      BY <3>1 DEF Adopted, Empty
    <3> QED
      BY <3>2
  <2>4. CASE c.op = "ack"
    <3>1. Content(o)' = Acknowledged(c.plan, Content(o))
      BY <2>1, <2>4 DEF Apply
    <3>2. Content(o)[r] = c.plan[r]
      BY <3>1 DEF Acknowledged
    <3>3. <<r, Content(o)[r]>> \in Pairs(c.plan)
      BY <3>2 DEF Pairs
    <3> QED
      BY <1>3, <1>7, <2>4, <3>3 DEF SessionInv, AckInv
  <2>5. CASE c.op \notin {"discard", "adopt", "ack"}
    <3>1. c \in Edits
      BY <1>4, <2>5, CommandNames
    <3>2. Content(o)' = [Content(o) EXCEPT ![c.ref] = Edited(c, Content(o)[c.ref])]
      BY <2>1, <2>5 DEF Apply
    <3>3. c.ref = r
      BY <3>2, ContentType DEF Stagings
    <3> QED
      BY <1>3, <1>4, <3>1, <3>3 DEF AskedFor
  <2> QED
    BY <2>2, <2>3, <2>4, <2>5
<1> QED
  BY <1>3, <1>6, <1>7, <1>8

\* An item leaves a store, or changes, only on a command for it, when a commit
\* has applied it as it stands (clear_committed), or under a session that could
\* not read the store.
THEOREM WorkIsKept == Spec => NothingVanishes
<1>1. IInv /\ [Next]_vars =>
        [\A o \in Origins, r \in Refs :
           LET i == Content(o)[r]
           IN  i \notin {NoItem, Content(o)'[r]}
                 => \/ <<r, i>> \in applied[o] \/ AskedFor(o, r)
                    \/ \E s \in Sessions : lock[o] = s /\ proc[s].blind]_vars
  BY StepKeepsWork
<1> QED
  BY <1>1, Invariance, PTL DEF Spec, NothingVanishes

-----------------------------------------------------------------------------
(* The old build's staging goes to one Orchestrator.                       *)

HasOldIn(st) == \E r \in Refs : st[r] # NoItem /\ Old \in st[r].set
Tainted(o)   == \/ HasOld(saved[o])
                \/ \E s \in Sessions : OriginOf[s] = o /\ HasOldIn(proc[s].view)

\* While the file is there, only a session that reads it knows its content;
\* after that, only the stores and sessions of one Orchestrator do.
OneInv ==
  /\ \A o \in Origins : HasOldIn(Content(o)) => HasOld(saved[o])
  /\ legacy => \A o \in Origins : ~HasOld(saved[o])
  /\ legacy => \A s \in Sessions : HasOldIn(proc[s].view) => At(s, "read")
  /\ \A o, q \in Origins : Tainted(o) /\ Tainted(q) => o = q

LEMMA PairsHasOld == ASSUME NEW st PROVE HasOld(Pairs(st)) <=> HasOldIn(st)
<1>1. ASSUME NEW x \in Pairs(st), Old \in x[2].set PROVE HasOldIn(st)
  BY <1>1 DEF Pairs, HasOldIn
<1>2. ASSUME NEW r \in Refs, st[r] # NoItem, Old \in st[r].set PROVE HasOld(Pairs(st))
  <2>1. <<r, st[r]>> \in Pairs(st)
    BY <1>2 DEF Pairs
  <2> QED
    BY <2>1, <1>2 DEF HasOld
<1> QED
  BY <1>1, <1>2 DEF HasOld, HasOldIn

\* No command but an adoption stages the old path.
LEMMA ApplyAddsNoOld ==
  ASSUME NEW c \in Commands, NEW st \in Stagings, HasOldIn(Apply(c, st, Empty))
  PROVE  HasOldIn(st)
<1> USE StagedItemsAssumption
<1>1. CASE c.op = "discard"
  BY <1>1 DEF Apply, Empty, HasOldIn
<1>2. CASE c.op = "ack"
  BY <1>2 DEF Apply, Acknowledged, HasOldIn
<1>3. CASE c.op = "adopt"
  BY <1>3 DEF Apply, Adopted, Empty, HasOldIn
<1>4. CASE c.op \notin {"discard", "ack", "adopt"}
  <2>1. c \in Edits
    BY <1>4, CommandNames
  <2>2. Apply(c, st, Empty) = [st EXCEPT ![c.ref] = Edited(c, st[c.ref])]
    BY <1>4 DEF Apply
  <2>3. c.ref \in Refs /\ st[c.ref] \in Items \cup {NoItem}
    BY <2>1 DEF Edits, Stagings
  <2> DEFINE i == st[c.ref]
             e == Edited(c, i)
  <2>4. e # NoItem /\ Old \in e.set => i # NoItem /\ Old \in i.set
    <3> DEFINE j == IF i = NoItem THEN Item("merge", {}, {}) ELSE i
    <3>1. j \in Items /\ (Old \in j.set => i # NoItem /\ Old \in i.set)
      BY <2>3 DEF Item, Items, Modes
    <3> HIDE DEF j
    <3>2. CASE c.op = "set"
      <4>1. e = SetPath(j, c.path) /\ c.path \in Paths
        BY <3>2, <2>1 DEF Edited, Edits, j
      <4> QED
        BY <4>1, <3>1 DEF SetPath, Item
    <3>3. CASE c.op = "prune"
      <4>1. e = Prune(j, c.path)
        BY <3>3 DEF Edited, j
      <4> QED
        BY <4>1, <3>1 DEF Prune, Item
    <3>4. CASE c.op = "load"
      <4>1. e = Item("replace", {c.path}, {}) /\ c.path \in Paths
        BY <3>4, <2>1 DEF Edited, Edits
      <4> QED
        BY <4>1 DEF Item
    <3>5. CASE c.op = "delete"
      BY <3>5 DEF Edited, Item
    <3>6. CASE c.op = "drop"
      BY <3>6 DEF Edited
    <3> QED
      BY <3>2, <3>3, <3>4, <3>5, <3>6, <2>1, CommandNames
  <2> HIDE DEF e
  <2>5. PICK r \in Refs : /\ Apply(c, st, Empty)[r] # NoItem
                          /\ Old \in Apply(c, st, Empty)[r].set
    BY DEF HasOldIn
  <2>6. CASE r = c.ref
    BY <2>2, <2>3, <2>4, <2>5, <2>6 DEF Stagings, HasOldIn, e
  <2>7. CASE r # c.ref
    BY <2>2, <2>5, <2>7 DEF Stagings, HasOldIn
  <2> QED
    BY <2>6, <2>7
<1> QED
  BY <1>1, <1>2, <1>3, <1>4

LEMMA OneInit == Init => OneInv
<1> SUFFICES ASSUME Init PROVE OneInv
  OBVIOUS
<1>1. \A o \in Origins : saved[o] = {} /\ Content(o) = Empty
  BY DEF Init, Content
<1>2. \A s \in Sessions : proc[s].view = Empty
  BY DEF Init, Off
<1>3. ~HasOldIn(Empty) /\ ~HasOld({})
  BY DEF HasOldIn, HasOld, Empty
<1> QED
  BY <1>1, <1>2, <1>3 DEF OneInv, Tainted

LEMMA OneNext == IInv /\ OneInv /\ IInv' /\ [Next]_vars => OneInv'
<1> SUFFICES ASSUME IInv, OneInv, IInv', [Next]_vars PROVE OneInv'
  OBVIOUS
<1> USE DEF IInv
<1>o. \A s \in Sessions : OriginOf[s] \in Origins
  OBVIOUS
\* A step that leaves the files alone and reads a store at most.
<1>q. ASSUME NEW s \in Sessions, file' = file, saved' = saved,
             legacy' => legacy,
             \A t \in Sessions : t # s => proc'[t] = proc[t],
             \/ proc'[s].view \in {proc[s].view, Empty, Content(OriginOf[s])}
             \/ proc[s].view \in Stagings /\ proc[s].cmd \in Commands
                  /\ proc'[s].view = Apply(proc[s].cmd, proc[s].view, Empty),
             legacy' => ~At(s, "read") \/ proc'[s].view = Empty
      PROVE  OneInv'
  <2>1. HasOldIn(proc'[s].view) => HasOldIn(proc[s].view) \/ HasOld(saved[OriginOf[s]])
    <3>1. ~HasOldIn(Empty)
      BY DEF HasOldIn, Empty
    <3>2. HasOldIn(Content(OriginOf[s])) => HasOld(saved[OriginOf[s]])
      BY <1>o DEF OneInv
    <3>3. CASE proc'[s].view \in {proc[s].view, Empty, Content(OriginOf[s])}
      BY <3>1, <3>2, <3>3
    <3>4. CASE /\ proc[s].view \in Stagings /\ proc[s].cmd \in Commands
               /\ proc'[s].view = Apply(proc[s].cmd, proc[s].view, Empty)
      BY <3>4, ApplyAddsNoOld
    <3> QED
      BY <3>3, <3>4, <1>q
  <2>2. \A t \in Sessions : HasOldIn(proc'[t].view)
          => HasOldIn(proc[t].view) \/ HasOld(saved[OriginOf[t]])
    BY <2>1, <1>q
  <2>3. \A o \in Origins : Tainted(o)' => Tainted(o)
    BY <2>2, <1>q DEF Tainted
  <2>4. legacy' => \A t \in Sessions : HasOldIn(proc'[t].view) => At(t, "read")'
    <3> SUFFICES ASSUME legacy', NEW t \in Sessions, HasOldIn(proc'[t].view)
                 PROVE  At(t, "read")'
      OBVIOUS
    <3>1. HasOldIn(proc[t].view) /\ At(t, "read")
      BY <2>2, <1>o, <1>q DEF OneInv
    <3>2. t # s
      <4>1. ~HasOldIn(Empty)
        BY DEF HasOldIn, Empty
      <4> QED
        BY <3>1, <4>1, <1>q
    <3> QED
      BY <3>1, <3>2, <1>q DEF At
  <2>5. \A o \in Origins : Content(o)' = Content(o)
    BY <1>q DEF Content
  <2> QED
    BY <2>3, <2>4, <2>5, <1>q DEF OneInv
<1>1. ASSUME NEW s \in Sessions, Start(s) PROVE OneInv'
  BY <1>1, <1>q, Loaded DEF Start, At, Pcs
<1>2. ASSUME NEW s \in Sessions, Quit(s) PROVE OneInv'
  BY <1>2, <1>q DEF Quit, Becomes, Off, At, TypeOK, Procs
<1>3. ASSUME NEW s \in Sessions, Ask(s) PROVE OneInv'
  BY <1>3, <1>q DEF Ask, At, TypeOK, Procs
<1>4. ASSUME NEW s \in Sessions, AskAdopt(s) PROVE OneInv'
  BY <1>4, <1>q DEF AskAdopt, At, TypeOK, Procs
<1>5. ASSUME NEW s \in Sessions, TakeClaim(s) PROVE OneInv'
  BY <1>5, <1>q DEF TakeClaim, Goes, At, TypeOK, Procs
<1>6. ASSUME NEW s \in Sessions, TakeLock(s) PROVE OneInv'
  <2>1. proc[s].cmd \in Commands \cup {Nothing} /\ "loaded" \in Pcs
    BY DEF TypeOK, Procs, Pcs
  <2> QED
    BY <1>6, <2>1, <1>q, Loaded DEF TakeLock, At
<1>7. ASSUME NEW s \in Sessions, Busy(s) PROVE OneInv'
  BY <1>7, <1>q DEF Busy, At, TypeOK, Procs
<1>8. ASSUME NEW s \in Sessions, Commit(s) PROVE OneInv'
  BY <1>8, <1>q DEF Commit, At, TypeOK, Procs
<1>9. ASSUME NEW s \in Sessions, CommitSucceeds(s) PROVE OneInv'
  BY <1>9, <1>q DEF CommitSucceeds, Goes, At, TypeOK, Procs
<1>10. ASSUME NEW s \in Sessions, CommitFails(s) PROVE OneInv'
  BY <1>10, <1>q DEF CommitFails, At, TypeOK, Procs
<1>11. ASSUME NEW s \in Sessions, Crash(s) PROVE OneInv'
  BY <1>11, <1>q DEF Crash, Becomes, Off, TypeOK, Procs
<1>12. ASSUME NEW s \in Sessions, Unlink(s) PROVE OneInv'
  BY <1>12, <1>q DEF Unlink, At, TypeOK, Procs
<1>v. ASSUME NEW s \in Sessions, Ready(s)
      PROVE  /\ proc[s].view \in Stagings /\ proc[s].cmd \in Commands
             /\ \/ Changed(s) = proc[s].view
                \/ Changed(s) = Apply(proc[s].cmd, proc[s].view, Empty)
             /\ ~At(s, "read")
  BY <1>v DEF Ready, Changed, At, TypeOK, Procs, SessionInv, CmdInv
<1>13. ASSUME NEW s \in Sessions, SaveFails(s) PROVE OneInv'
  <2>1. /\ \A t \in Sessions : t # s => proc'[t] = proc[t]
        /\ proc'[s].view = Changed(s) /\ Ready(s)
        /\ file' = file /\ saved' = saved /\ legacy' = legacy
    BY <1>13 DEF SaveFails, Return, TypeOK, Procs
  <2> QED
    BY <2>1, <1>q, <1>v
<1>14. ASSUME NEW s \in Sessions, Save(s) PROVE OneInv'
  <2> DEFINE o == OriginOf[s]
  <2>1. /\ \A t \in Sessions : t # s => proc'[t] = proc[t]
        /\ proc'[s].view = Changed(s) /\ Ready(s) /\ o \in Origins
        /\ file' = [file EXCEPT ![o] = Changed(s)] /\ legacy' = legacy
        /\ saved' = [saved EXCEPT ![o] = @ \cup Pairs(Changed(s))]
    BY <1>14 DEF Save, Return, TypeOK, Procs
  <2>2. HasOldIn(Changed(s)) => HasOldIn(proc[s].view)
    BY <2>1, <1>v, ApplyAddsNoOld
  <2>3. HasOld(saved'[o]) <=> HasOld(saved[o]) \/ HasOldIn(Changed(s))
    <3>1. saved'[o] = saved[o] \cup Pairs(Changed(s))
      BY <2>1 DEF TypeOK
    <3>2. HasOld(saved[o] \cup Pairs(Changed(s)))
            <=> HasOld(saved[o]) \/ HasOld(Pairs(Changed(s)))
      BY DEF HasOld
    <3> QED
      BY <3>1, <3>2, PairsHasOld
  <2>4. \A q \in Origins : q # o => saved'[q] = saved[q] /\ file'[q] = file[q]
    BY <2>1 DEF TypeOK
  <2>5. \A q \in Origins : Tainted(q)' => Tainted(q)
    BY <2>1, <2>2, <2>3, <2>4 DEF Tainted
  <2>6. legacy => ~HasOldIn(proc[s].view)
    BY <2>1, <1>v DEF OneInv
  <2>7. legacy' => \A q \in Origins : ~HasOld(saved'[q])
    BY <2>1, <2>2, <2>3, <2>4, <2>6 DEF OneInv
  <2>8. legacy' => \A t \in Sessions : HasOldIn(proc'[t].view) => At(t, "read")'
    BY <2>1, <2>2, <2>6 DEF OneInv, At
  <2>9. \A q \in Origins : HasOldIn(Content(q)') => HasOld(saved'[q])
    <3>1. ASSUME NEW q \in Origins, q # o, HasOldIn(Content(q)') PROVE HasOld(saved'[q])
      BY <3>1, <2>4 DEF OneInv, Content
    <3>2. Content(o)' \in {Changed(s), Empty} /\ ~HasOldIn(Empty)
      BY <2>1 DEF Content, TypeOK, HasOldIn, Empty
    <3> QED
      BY <3>1, <3>2, <2>3
  <2> QED
    BY <2>5, <2>7, <2>8, <2>9 DEF OneInv
<1>15. ASSUME NEW s \in Sessions, ReadLegacy(s) PROVE OneInv'
  <2>1. /\ \A t \in Sessions : t # s => proc'[t] = proc[t]
        /\ file' = file /\ saved' = saved /\ legacy' = legacy /\ legacy
        /\ At(s, "read")' /\ HoldsClaim(s) /\ At(s, "loaded")
    BY <1>15 DEF ReadLegacy, At, TypeOK, Procs, HoldsClaim
  <2>2. \A t \in Sessions : ~At(t, "read")
    BY <2>1 DEF LockInv, HoldsClaim, SessionInv, CmdInv, At
  <2>3. \A t \in Sessions : HasOldIn(proc'[t].view) => t = s
    BY <2>1, <2>2 DEF OneInv
  <2>4. \A o \in Origins : Tainted(o)' => o = OriginOf[s]
    BY <2>1, <2>3 DEF Tainted, OneInv
  <2>5. \A o \in Origins : Content(o)' = Content(o)
    BY <2>1 DEF Content
  <2> QED
    BY <2>1, <2>3, <2>4, <2>5 DEF OneInv
<1>16. CASE UNCHANGED vars
  <2>1. \A o \in Origins : Content(o)' = Content(o) /\ (Tainted(o)' <=> Tainted(o))
    BY <1>16 DEF vars, Content, Tainted
  <2> QED
    BY <2>1, <1>16 DEF vars, OneInv, At
<1> QED
  BY <1>1, <1>2, <1>3, <1>4, <1>5, <1>6, <1>7, <1>8, <1>9, <1>10, <1>11, <1>12,
     <1>13, <1>14, <1>15, <1>16 DEF Next

\* What the old build staged never gets into the stores of two Orchestrators
\* (adopt_legacy), however many share its display host.
THEOREM OldStagingGoesToOne == Spec => []LegacyGoesToOne
<1>1. OneInv => LegacyGoesToOne
  BY DEF OneInv, Tainted, LegacyGoesToOne
<1>2. Spec => []OneInv
  BY OneInit, OneNext, Invariance, PTL DEF Spec
<1> QED
  BY <1>1, <1>2, PTL

=============================================================================
