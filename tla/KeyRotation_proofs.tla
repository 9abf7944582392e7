------------------------- MODULE KeyRotation_proofs -------------------------
(***************************************************************************)
(* Proofs about KeyRotation for any number of files, secrets, sessions,    *)
(* keys, and rotations, one after the other or at once:                    *)
(*                                                                         *)
(*   TypeCorrect        Spec => []TypeOK                                   *)
(*   SecretsOpen        Spec => []EveryBlobOpens                           *)
(*   RotationKeepsAll   Spec => []NothingIsLost                            *)
(*   RotationRetires    Spec => OldKeyRetired                              *)
(*                                                                         *)
(* The inductive invariant IInv says what a session holds (SessionInv),    *)
(* that a file written while a rotation runs is known to be (Overlap) and  *)
(* so is a rotation that is not alone (Cross), how old the keys are (Age), *)
(* which previous keys are still current (RetireInv), what any rotation    *)
(* has read (CopyInv), and what is under which key at each point of a      *)
(* rotation that is alone (SoleInv).                                       *)
(***************************************************************************)
EXTENDS KeyRotation, TLAPS

\* The keys a secret may be under, of a file that cannot escape.
Good == Openers \cup ousted \cup lost
Free == Files \ (exposed \cup stranded)

\* The key a session is about to write under opens, unless its file may escape.
SessionInv(s) ==
  LET p == proc[s]
  IN  /\ p.pc = "off" <=> p.file = NoFile
      /\ \A f \in Files : lock[f] = s <=> p.file = f
      /\ p.pc = "off" => p.put = {}
      /\ p.pc = "write" /\ p.put # {} =>
           /\ p.key # NoKey
           /\ p.file \notin exposed => p.key \in Good

\* Whoever writes while a rotation runs writes an exposed file.
Overlap == Running # {} => Writing \subseteq exposed /\ current # NoKey

\* Rotations that run at the same time are all known to.
Cross == \A p, q \in Running : p # q => p \in crossed

Age == current <= made /\ previous <= made /\ \A p \in Rotators : rot[p].old <= made

\* When the previous key is the current one, a rotation is or was interrupted
\* between keeping it and storing the new one.
RetireInv == \/ previous \in {NoKey} \cup half
             \/ previous # current
             \/ \E p \in Rotators : rot[p].pc = "renew"

\* What a rotation has still to read, and has read.
CopyInv(p) ==
  LET q == rot[p]
  IN  /\ q.pc \notin {"stores", "journals"} => q.todo = {} /\ q.missed = {}
      /\ q.pc = "stores" => q.todo \subseteq Stores
      /\ q.pc = "journals" => q.todo \subseteq Journals
      /\ q.raw # {} => q.file # NoFile
      /\ q.file # NoFile =>
           /\ q.file \in q.todo
           /\ q.file \notin exposed => In(q.copy) = In(disk[q.file])
           /\ q.file \in Free => \A r \in In(q.copy) : q.copy[r] \in Good

\* Every secret of a file is under one of the keys in ks, or under a lost one.
Safe(c, ks) == \A r \in In(c) : c[r] \in ks \cup ousted \cup lost
AllSafe(ks) == \A f \in Free : Safe(disk[f], ks)

\* The files the walk has left behind.
Done(q) == IF q.pc = "stores" THEN Stores \ q.todo
           ELSE IF q.pc = "journals" THEN Files \ q.todo ELSE {}

\* What a rotation that is alone knows of the secrets on disk.
SoleInv(p) ==
  LET q == rot[p]
  IN  /\ q.pc = "look" /\ previous = NoKey => AllSafe({q.old})
      /\ q.pc = "keep" => previous = NoKey /\ AllSafe({q.old})
      /\ q.pc = "renew" => previous # NoKey /\ AllSafe({previous})
      /\ \A f \in (Done(q) \cap Free) \ q.missed : Safe(disk[f], {current})
      /\ q.file \in Free =>
           \A r \in In(q.copy) \ q.raw : q.copy[r] \in {current} \cup ousted \cup lost

IInv == /\ TypeOK
        /\ \A s \in Sessions : SessionInv(s)
        /\ Overlap /\ Cross /\ Age /\ RetireInv
        /\ \A p \in Rotators : CopyInv(p) /\ (p \notin crossed => SoleInv(p))
        /\ EveryBlobOpens /\ NothingIsLost

-----------------------------------------------------------------------------
(* The invariant is inductive.                                             *)

USE KeyRotationAssumption

\* What sealing a set of secrets makes of a file.
LEMMA UnderIn ==
  ASSUME NEW k \in Nat, NEW s \in SUBSET Refs
  PROVE  /\ Under(k, s) \in Contents
         /\ k # NoKey => In(Under(k, s)) = s
         /\ \A r \in In(Under(k, s)) : Under(k, s)[r] = k
         /\ s = {} => Under(k, s) = Blank
BY DEF Under, Contents, In, NoKey, Blank

\* The record of a session, changed.
LEMMA ProcType ==
  ASSUME NEW p \in Procs, NEW pc \in {"off", "seal", "create", "write"}, NEW k \in Nat
  PROVE  [p EXCEPT !.pc = pc, !.key = k] \in Procs
BY DEF Procs

\* A file without secrets, and no rotation.
LEMMA BlankIn == Blank \in Contents /\ In(Blank) = {} /\ NoRotation \in Rotations
BY DEF Blank, Contents, In, NoKey, NoRotation, Rotations

\* A rotation that turns changes nothing of another.
LEMMA TurnsType ==
  ASSUME TypeOK, NEW p \in Rotators, NEW n,
         rot[p] \in Rotations => n \in Rotations, Turns(p, n)
  PROVE  /\ rot[p] \in Rotations /\ n \in Rotations
         /\ rot' \in [Rotators -> Rotations] /\ rot'[p] = n
         /\ \A t \in Rotators \ {p} : rot'[t] = rot[t]
BY DEF TypeOK, Turns

\* Nothing is sealed at first, and nobody is at work.
THEOREM InitIInv == Init => IInv
<1> SUFFICES ASSUME Init PROVE IInv
  OBVIOUS
<1>1. TypeOK
  BY BlankIn DEF Init, TypeOK, Off, NoRotation, Procs, NoKey, Files
<1>2. \A s \in Sessions : SessionInv(s)
  BY DEF Init, SessionInv, Off, Files
<1>3. Overlap /\ Cross /\ Age /\ RetireInv
  BY DEF Init, Overlap, Cross, Running, NoRotation, Age, RetireInv, NoKey
<1>4. \A p \in Rotators : CopyInv(p) /\ SoleInv(p)
  BY BlankIn DEF Init, CopyInv, SoleInv, NoRotation, Done, Free, Files
<1>5. EveryBlobOpens /\ NothingIsLost
  BY BlankIn DEF Init, EveryBlobOpens, NothingIsLost
<1> QED
  BY <1>1, <1>2, <1>3, <1>4, <1>5 DEF IInv

\* A session takes a file.
LEMMA TakesStep ==
  ASSUME IInv, NEW s \in Sessions, NEW f \in Files,
         NEW put \in SUBSET Refs, Takes(s, f, put)
  PROVE  IInv'
<1> USE DEF IInv, ring, history, NoKey
<1>1. TypeOK'
  BY DEF Takes, Spends, TypeOK, Procs, Files
<1>2. \A t \in Sessions : SessionInv(t)'
  BY DEF Takes, TypeOK, SessionInv, Good, Openers, Files
<1>3. Overlap'
  BY DEF Takes, Overlap, Running, Writing
<1>4. Cross'
  BY DEF Takes, Cross, Running
<1>5. Age'
  BY DEF Takes, Age
<1>6. RetireInv'
  BY DEF Takes, RetireInv
<1>7. \A q \in Rotators : CopyInv(q)'
  BY DEF Takes, CopyInv, Good, Openers, Free
<1>8. \A q \in Rotators : q \notin crossed' => SoleInv(q)'
  BY DEF Takes, SoleInv, AllSafe, Safe, Done, Free
<1>9. EveryBlobOpens'
  BY DEF Takes, EveryBlobOpens, Openers
<1>10. NothingIsLost'
  BY DEF Takes, NothingIsLost
<1> QED
  BY <1>1, <1>2, <1>3, <1>4, <1>5, <1>6, <1>7, <1>8, <1>9, <1>10

\* It looks the key up.
LEMMA FindKeyStep ==
  ASSUME IInv, NEW s \in Sessions, FindKey(s)
  PROVE  IInv'
<1> USE DEF IInv, ring, history, NoKey
<1>1. TypeOK'
  <2>1. [proc[s] EXCEPT !.pc = IF current = NoKey THEN "create" ELSE "write",
                        !.key = current] \in Procs
    BY ProcType DEF TypeOK
  <2>2. proc' \in [Sessions -> Procs]
    BY <2>1 DEF FindKey, TypeOK
  <2> QED
    BY <2>2 DEF FindKey, TypeOK
<1>2. \A t \in Sessions : SessionInv(t)'
  BY DEF FindKey, TypeOK, SessionInv, Good, Openers, Files
<1>3. Overlap'
  BY DEF FindKey, TypeOK, Overlap, Running, Writing
<1>4. Cross'
  BY DEF FindKey, Cross, Running
<1>5. Age'
  BY DEF FindKey, Age
<1>6. RetireInv'
  BY DEF FindKey, RetireInv
<1>7. \A q \in Rotators : CopyInv(q)'
  BY DEF FindKey, CopyInv, Good, Openers, Free
<1>8. \A q \in Rotators : q \notin crossed' => SoleInv(q)'
  BY DEF FindKey, SoleInv, AllSafe, Safe, Done, Free
<1>9. EveryBlobOpens'
  BY DEF FindKey, EveryBlobOpens, Openers
<1>10. NothingIsLost'
  BY DEF FindKey, NothingIsLost
<1> QED
  BY <1>1, <1>2, <1>3, <1>4, <1>5, <1>6, <1>7, <1>8, <1>9, <1>10

\* It stores a first key.
LEMMA CreateKeyStep ==
  ASSUME IInv, NEW s \in Sessions, CreateKey(s)
  PROVE  IInv'
<1> USE DEF IInv, ring, history, NoKey
<1>1. TypeOK'
  <2>1. made' \in Nat
    BY DEF CreateKey, TypeOK
  <2>2. [proc[s] EXCEPT !.pc = "write", !.key = made'] \in Procs
    BY <2>1, ProcType DEF TypeOK
  <2>3. proc' \in [Sessions -> Procs]
    BY <2>2 DEF CreateKey, TypeOK
  <2>4. ousted' \subseteq Keys
    BY DEF CreateKey, TypeOK, Keys
  <2> QED
    BY <2>1, <2>3, <2>4 DEF CreateKey, TypeOK
<1>2. \A t \in Sessions : SessionInv(t)'
  BY DEF CreateKey, TypeOK, SessionInv, Good, Openers, Files
<1>3. Overlap'
  BY DEF CreateKey, TypeOK, Overlap, Running, Writing
<1>4. Cross'
  BY DEF CreateKey, Cross, Running
<1>5. Age'
  BY DEF CreateKey, TypeOK, Rotations, Age
<1>6. RetireInv'
  BY DEF CreateKey, TypeOK, RetireInv, Age
<1>7. \A q \in Rotators : CopyInv(q)'
  BY DEF CreateKey, CopyInv, Good, Openers, Free
<1>8. \A q \in Rotators : q \notin crossed' => SoleInv(q)'
  <2> SUFFICES ASSUME NEW q \in Rotators, q \notin crossed PROVE SoleInv(q)'
    BY DEF CreateKey
  <2>1. CASE rot[q].pc = "off"
    BY <2>1 DEF CreateKey, CopyInv, SoleInv, Done, Free, Files
  <2>2. CASE rot[q].pc # "off"
    <3>1. current # NoKey /\ ousted' = ousted \cup {current} /\ lost' = lost
      BY <2>2 DEF CreateKey, Overlap, Running
    <3> QED
      BY <3>1 DEF CreateKey, SoleInv, AllSafe, Safe, Done, Free
  <2> QED
    BY <2>1, <2>2
<1>9. EveryBlobOpens'
  BY DEF CreateKey, EveryBlobOpens, Openers
<1>10. NothingIsLost'
  BY DEF CreateKey, NothingIsLost
<1> QED
  BY <1>1, <1>2, <1>3, <1>4, <1>5, <1>6, <1>7, <1>8, <1>9, <1>10

\* It writes what it sealed.
LEMMA WriteStep ==
  ASSUME IInv, NEW s \in Sessions, Write(s)
  PROVE  IInv'
<1> USE DEF IInv, ring, history, NoKey
<1>1. TypeOK'
  <2> DEFINE p == proc[s]
  <2>1. p \in Procs /\ p.file \in Files
    BY DEF Write, TypeOK, SessionInv, Procs
  <2>2. p.key \in Nat /\ p.put \in SUBSET Refs
    BY <2>1 DEF Procs
  <2>3. Under(p.key, p.put) \in Contents
    BY <2>2, UnderIn
  <2>4. [r \in Refs |-> IF r \in p.put THEN p.key ELSE disk[p.file][r]] \in Contents
    BY <2>1, <2>2 DEF TypeOK, Contents
  <2>5. disk' \in [Files -> Contents]
    BY <2>3, <2>4 DEF Write, TypeOK
  <2>6. wanted' \in [Files -> SUBSET Refs]
    BY <2>1, <2>2 DEF Write, TypeOK
  <2>7. lock' \in [Files -> Sessions \cup {NoOne}] /\ proc' \in [Sessions -> Procs]
    BY DEF Write, Leave, TypeOK, Off, Procs
  <2> QED
    BY <2>5, <2>6, <2>7 DEF Write, TypeOK
<1>2. \A t \in Sessions : SessionInv(t)'
  BY DEF Write, Leave, TypeOK, SessionInv, Off, Good, Openers
<1>3. Overlap'
  BY DEF Write, Leave, Overlap, Running, Writing, Off
<1>4. Cross'
  BY DEF Write, Cross, Running
<1>5. Age'
  BY DEF Write, Age
<1>6. RetireInv'
  BY DEF Write, RetireInv
<1>7. \A q \in Rotators : CopyInv(q)'
  BY DEF Write, CopyInv, Good, Openers, Free, Overlap, Running, Writing,
       SessionInv
<1>8. \A q \in Rotators : q \notin crossed' => SoleInv(q)'
  BY DEF Write, SoleInv, AllSafe, Safe, Done, Free, Overlap, Running, Writing,
       SessionInv
<1>9. EveryBlobOpens'
  <2> SUFFICES ASSUME NEW g \in Files, g \notin exposed \cup stranded, NEW r \in In(disk'[g])
               PROVE  disk'[g][r] \in Openers \cup ousted \cup lost
    BY DEF Write, EveryBlobOpens, Openers, In
  <2>1. CASE g # proc[s].file
    BY <2>1 DEF Write, EveryBlobOpens, TypeOK
  <2>2. CASE g = proc[s].file
    <3>1. proc[s].key \in Nat /\ proc[s].put \in SUBSET Refs
      BY DEF TypeOK, Procs
    <3>2. r \in Refs
      BY DEF In
    <3>3. CASE r \in proc[s].put
      <4>1. disk'[g][r] = proc[s].key
        BY <2>2, <3>1, <3>2, <3>3 DEF Write, TypeOK, Under
      <4> QED
        BY <2>2, <3>3, <4>1 DEF SessionInv, Write, Good
    <3>4. CASE r \notin proc[s].put
      <4>1. g \notin Stores
        BY <2>2, <3>2, <3>4 DEF Write, TypeOK, Under, In
      <4>2. disk'[g][r] = disk[g][r]
        BY <2>2, <3>2, <3>4, <4>1 DEF Write, TypeOK
      <4> QED
        BY <3>2, <4>2 DEF EveryBlobOpens, In
    <3> QED
      BY <3>3, <3>4
  <2> QED
    BY <2>1, <2>2
<1>10. NothingIsLost'
  BY UnderIn DEF Write, TypeOK, Procs, NothingIsLost, SessionInv, In
<1> QED
  BY <1>1, <1>2, <1>3, <1>4, <1>5, <1>6, <1>7, <1>8, <1>9, <1>10

\* It gives up.
LEMMA GiveUpStep ==
  ASSUME IInv, NEW s \in Sessions, GiveUp(s)
  PROVE  IInv'
<1> USE DEF IInv, ring, history, NoKey
<1>1. TypeOK'
  BY DEF GiveUp, Leave, TypeOK, Procs, Off
<1>2. \A t \in Sessions : SessionInv(t)'
  BY DEF GiveUp, Leave, TypeOK, SessionInv, Off, Good, Openers
<1>3. Overlap'
  BY DEF GiveUp, Leave, Overlap, Running, Writing, Off
<1>4. Cross'
  BY DEF GiveUp, Cross, Running
<1>5. Age'
  BY DEF GiveUp, Age
<1>6. RetireInv'
  BY DEF GiveUp, RetireInv
<1>7. \A q \in Rotators : CopyInv(q)'
  BY DEF GiveUp, CopyInv, Good, Openers, Free
<1>8. \A q \in Rotators : q \notin crossed' => SoleInv(q)'
  BY DEF GiveUp, SoleInv, AllSafe, Safe, Done, Free
<1>9. EveryBlobOpens'
  BY DEF GiveUp, EveryBlobOpens, Openers
<1>10. NothingIsLost'
  BY DEF GiveUp, NothingIsLost
<1> QED
  BY <1>1, <1>2, <1>3, <1>4, <1>5, <1>6, <1>7, <1>8, <1>9, <1>10

\* A rotation that is alone is the only one; what it does concerns no other.
LEMMA Others ==
  ASSUME IInv, NEW p \in Running, NEW q \in Rotators, q # p,
         rot'[q] = rot[q], crossed' = crossed, q \notin crossed
  PROVE  /\ rot[q] \in Rotations /\ rot[q].pc = "off" /\ rot[q].file = NoFile
         /\ SoleInv(q)'
<1>1. rot[q].pc = "off" /\ rot[q] \in Rotations
  BY DEF IInv, Cross, Running, TypeOK
<1>2. rot[q].file = NoFile
  BY <1>1 DEF IInv, CopyInv
<1> QED
  BY <1>1, <1>2 DEF SoleInv, Done, Free, Files

\* A rotation begins.
LEMMA RotBeginStep ==
  ASSUME IInv, NEW p \in Rotators, RotBegin(p)
  PROVE  IInv'
<1> USE DEF IInv, ring, history, NoKey
<1> DEFINE q == rot[p]
           n == rot'[p]
<1>1. /\ rot' \in [Rotators -> Rotations] /\ q \in Rotations /\ n \in Rotations
      /\ \A t \in Rotators \ {p} : rot'[t] = rot[t]
      /\ n.pc = "look" /\ n.old = current
      /\ n.todo = q.todo /\ n.missed = q.missed
      /\ n.file = q.file /\ n.copy = q.copy /\ n.raw = q.raw
  BY DEF RotBegin, Begins, Turns, TypeOK, Rotations
<1>2. /\ q.pc = "off" /\ Running' = Running \cup {p}
      /\ q.file = NoFile /\ q.todo = {} /\ q.missed = {} /\ q.raw = {}
  BY <1>1 DEF RotBegin, Begins, Running, CopyInv
<1>3. \A t \in Rotators \ {p} : t \notin crossed' => SoleInv(t)'
  <2> SUFFICES ASSUME NEW t \in Rotators \ {p}, t \notin crossed' PROVE SoleInv(t)'
    OBVIOUS
  <2>1. rot'[t] = rot[t] /\ rot[t].pc = "off" /\ rot[t].file = NoFile
    BY <1>1 DEF RotBegin, Begins, Running, CopyInv
  <2> QED
    BY <2>1 DEF SoleInv, Done, Free, Files
<1>4. TypeOK'
  <2>1. Writing \subseteq Files
    BY DEF TypeOK, Procs, Writing
  <2>2. left' \in [{"asks", "runs"} -> Nat]
    BY DEF RotBegin, Begins, Spends, TypeOK
  <2> QED
    BY <1>1, <2>1, <2>2 DEF RotBegin, Begins, TypeOK, Keys, Running
<1>5. \A t \in Sessions : SessionInv(t)'
  BY DEF RotBegin, Begins, SessionInv, Good, Openers
<1>6. Overlap'
  BY DEF RotBegin, Begins, Overlap, Writing
<1>7. Cross'
  BY <1>2 DEF RotBegin, Begins, Cross, Running
<1>8. Age'
  BY <1>1 DEF RotBegin, Begins, Age
<1>9. RetireInv'
  BY <1>1 DEF RotBegin, Begins, RetireInv
<1>10. \A t \in Rotators : CopyInv(t)'
  BY <1>1, <1>2 DEF RotBegin, Begins, CopyInv, Good, Openers, Free
<1>11. p \notin crossed' => SoleInv(p)'
  BY <1>1, <1>2 DEF RotBegin, Begins, CopyInv, SoleInv, AllSafe, Safe, Done,
       Free, Running, EveryBlobOpens, Openers, Files
<1>12. EveryBlobOpens'
  BY DEF RotBegin, Begins, EveryBlobOpens, Openers
<1>13. NothingIsLost'
  BY DEF RotBegin, Begins, NothingIsLost
<1> QED
  BY <1>3, <1>4, <1>5, <1>6, <1>7, <1>8, <1>9, <1>10, <1>11, <1>12, <1>13 DEF
       RotBegin

\* It keeps the old key next, or finds one kept.
LEMMA LookStep ==
  ASSUME IInv, NEW p \in Rotators, Look(p)
  PROVE  IInv'
<1> USE DEF IInv, ring, history, NoKey
<1> DEFINE q == rot[p]
           n == rot'[p]
<1>1. /\ rot' \in [Rotators -> Rotations] /\ q \in Rotations /\ n \in Rotations
      /\ \A t \in Rotators \ {p} : rot'[t] = rot[t]
      /\ n.missed = q.missed
      /\ n.file = q.file /\ n.copy = q.copy /\ n.raw = q.raw
      /\ \/ /\ previous = NoKey
            /\ n.pc = "keep" /\ n.old = q.old /\ n.todo = q.todo
         \/ /\ previous # NoKey
            /\ n.pc = "stores" /\ n.old = NoKey /\ n.todo \in Found(Stores)
  <2>1. CASE previous = NoKey
    BY <2>1 DEF Look, Turns, TypeOK, Rotations
  <2>2. CASE previous # NoKey
    <3>1. PICK t \in Found(Stores) :
            Turns(p, [rot[p] EXCEPT !.pc = "stores", !.todo = t, !.old = NoKey])
      BY <2>2 DEF Look
    <3>2. t \subseteq Files
      BY <3>1 DEF Found, Files
    <3>3. rot[p] \in Rotations
      BY DEF TypeOK
    <3> DEFINE x == [rot[p] EXCEPT !.pc = "stores", !.todo = t, !.old = NoKey]
    <3>4. /\ x \in Rotations
          /\ x.pc = "stores" /\ x.old = NoKey /\ x.todo = t /\ x.missed = q.missed
          /\ x.file = q.file /\ x.copy = q.copy /\ x.raw = q.raw
      BY ONLY <3>2, <3>3 DEF Rotations, NoKey, Contents
    <3>5. Turns(p, x)
      BY <3>1 DEF Turns
    <3> HIDE DEF x
    <3> QED
      BY <3>4, <3>5, TurnsType, <2>2, <3>1
  <2> QED
    BY <2>1, <2>2
<1>2. p \in Running /\ Running' = Running
  BY <1>1 DEF Look, CopyInv, Running
<1>3. \A t \in Rotators \ {p} : t \notin crossed => SoleInv(t)'
  BY <1>1, <1>2, Others DEF Look
<1>4. TypeOK'
  BY <1>1 DEF Look, Turns, TypeOK
<1>5. \A t \in Sessions : SessionInv(t)'
  BY <1>2 DEF Look, SessionInv, Overlap, Writing, Good, Openers
<1>6. Overlap'
  BY <1>2 DEF Look, Overlap, Writing
<1>7. Cross'
  BY <1>2 DEF Look, Cross
<1>8. Age'
  <2>1. made' = made /\ current' = current /\ previous' = previous /\ n.old \in {q.old, NoKey}
    BY <1>1 DEF Look
  <2> QED
    BY <1>1, <2>1 DEF Age, TypeOK
<1>9. RetireInv'
  BY <1>1 DEF Look, Turns, RetireInv
<1>10. \A t \in Rotators : CopyInv(t)'
  <2>1. q.pc = "look" /\ q.todo = {} /\ q.missed = {} /\ q.raw = {} /\ q.file = NoFile
    BY DEF Look, CopyInv
  <2>2. n.todo \subseteq Stores /\ (n.pc = "keep" => n.todo = {}) /\ n.pc \in {"keep", "stores"}
    BY <1>1, <2>1 DEF Found
  <2>3. CopyInv(p)'
    BY <1>1, <2>1, <2>2 DEF Look, CopyInv
  <2>4. ASSUME NEW t \in Rotators, t # p PROVE CopyInv(t)'
    BY <1>1, <2>4 DEF Look, CopyInv, Good, Openers, Free
  <2> QED
    BY <2>3, <2>4
<1>11. p \notin crossed' => SoleInv(p)'
  BY <1>1, <1>2, BlankIn DEF Look, SoleInv, AllSafe, Safe, Done, Free, Found,
       Files, CopyInv
<1>12. EveryBlobOpens'
  BY DEF Look, EveryBlobOpens, Openers
<1>13. NothingIsLost'
  BY DEF Look, NothingIsLost
<1> QED
  BY <1>3, <1>4, <1>5, <1>6, <1>7, <1>8, <1>9, <1>10, <1>11, <1>12, <1>13 DEF
       Look

\* It keeps the old key.
LEMMA KeepOldStep ==
  ASSUME IInv, NEW p \in Rotators, KeepOld(p)
  PROVE  IInv'
<1> USE DEF IInv, ring, history, NoKey
<1> DEFINE q == rot[p]
           n == rot'[p]
<1>1. /\ rot' \in [Rotators -> Rotations] /\ q \in Rotations /\ n \in Rotations
      /\ \A t \in Rotators \ {p} : rot'[t] = rot[t]
      /\ n.pc = "renew" /\ n.old = NoKey
      /\ n.todo = q.todo /\ n.missed = q.missed
      /\ n.file = q.file /\ n.copy = q.copy /\ n.raw = q.raw
  BY DEF KeepOld, Turns, TypeOK, Rotations, Running
<1>2. p \in Running /\ Running' = Running
  BY <1>1 DEF KeepOld, Running
<1>3. \A t \in Rotators \ {p} : t \notin crossed => SoleInv(t)'
  BY <1>1, <1>2, Others DEF KeepOld
<1>4. Good \subseteq Good'
  BY DEF KeepOld, Drops, Good, Openers, SoleInv
<1>5. TypeOK'
  BY <1>1 DEF KeepOld, Drops, Openers, Keys, TypeOK
<1>6. \A t \in Sessions : SessionInv(t)'
  BY <1>2 DEF KeepOld, SessionInv, Overlap, Writing
<1>7. Overlap'
  BY <1>2 DEF KeepOld, Overlap, Writing
<1>8. Cross'
  BY <1>2 DEF KeepOld, Cross
<1>9. Age'
  BY <1>1 DEF KeepOld, Age, TypeOK
<1>10. RetireInv'
  BY <1>1 DEF KeepOld, RetireInv
<1>11. \A t \in Rotators : CopyInv(t)'
  BY <1>1, <1>2, <1>4 DEF KeepOld, CopyInv, Free
<1>12. p \notin crossed' => SoleInv(p)'
  BY <1>1 DEF KeepOld, Drops, TypeOK, Keys, CopyInv, SoleInv, AllSafe, Safe,
       Done, Free, Files
<1>13. EveryBlobOpens'
  BY <1>4 DEF KeepOld, EveryBlobOpens, Good
<1>14. NothingIsLost'
  BY DEF KeepOld, NothingIsLost
<1> QED
  BY <1>3, <1>5, <1>6, <1>7, <1>8, <1>9, <1>10, <1>11, <1>12, <1>13, <1>14 DEF
       KeepOld

\* It stores the new key.
LEMMA NewKeyStep ==
  ASSUME IInv, NEW p \in Rotators, NewKey(p)
  PROVE  IInv'
<1> USE DEF IInv, ring, history, NoKey
<1> DEFINE q == rot[p]
           n == rot'[p]
<1>1. /\ rot' \in [Rotators -> Rotations] /\ q \in Rotations /\ n \in Rotations
      /\ \A t \in Rotators \ {p} : rot'[t] = rot[t]
      /\ n.pc = "stores" /\ n.old = q.old
      /\ n.missed = q.missed
      /\ n.file = q.file /\ n.copy = q.copy /\ n.raw = q.raw
      /\ n.todo \in Found(Stores)
  <2>1. PICK t \in Found(Stores) :
          Turns(p, [rot[p] EXCEPT !.pc = "stores", !.todo = t])
    BY DEF NewKey
  <2>2. t \subseteq Files
    BY <2>1 DEF Found, Files
  <2>3. rot[p] \in Rotations
    BY DEF TypeOK
  <2> DEFINE x == [rot[p] EXCEPT !.pc = "stores", !.todo = t]
  <2>4. /\ x \in Rotations
        /\ x.pc = "stores" /\ x.old = q.old /\ x.todo = t /\ x.missed = q.missed
        /\ x.file = q.file /\ x.copy = q.copy /\ x.raw = q.raw
    BY ONLY <2>2, <2>3 DEF Rotations, NoKey, Contents
  <2>5. Turns(p, x)
    BY <2>1 DEF Turns
  <2> HIDE DEF x
  <2> QED
    BY <2>4, <2>5, TurnsType, <2>1
<1>2. p \in Running /\ Running' = Running
  BY <1>1 DEF NewKey, Running
<1>3. \A t \in Rotators \ {p} : t \notin crossed => SoleInv(t)'
  BY <1>1, <1>2, Others DEF NewKey
<1>4. p \in crossed => Good \subseteq Good'
  BY DEF NewKey, Drops, Good, Openers
<1>5. TypeOK'
  BY <1>1 DEF NewKey, Drops, Openers, Keys, TypeOK
<1>6. \A t \in Sessions : SessionInv(t)'
  BY <1>2 DEF NewKey, SessionInv, Overlap, Writing
<1>7. Overlap'
  BY <1>2 DEF NewKey, Overlap, Writing, TypeOK
<1>8. Cross'
  BY <1>2 DEF NewKey, Cross
<1>9. Age'
  BY <1>1 DEF NewKey, Age, TypeOK, Rotations
<1>10. RetireInv'
  BY <1>1 DEF NewKey, RetireInv, Age, TypeOK
<1>11. \A t \in Rotators : CopyInv(t)'
  <2>1. n.todo \subseteq Stores /\ n.file = NoFile
    BY <1>1 DEF NewKey, CopyInv, Found
  <2>2. ASSUME NEW t \in Rotators, t # p PROVE CopyInv(t)'
    <3>1. CASE p \notin crossed
      BY <1>1, <1>2, <3>1, <2>2, Others DEF NewKey, CopyInv, Cross, Running
    <3>2. CASE p \in crossed
      BY <1>1, <2>2, <3>2, <1>4 DEF NewKey, CopyInv, Free
    <3> QED
      BY <3>1, <3>2
  <2> QED
    BY <1>1, <2>1, <2>2 DEF NewKey, CopyInv
<1>12. p \notin crossed' => SoleInv(p)'
  BY <1>1, BlankIn DEF NewKey, Found, Drops, TypeOK, CopyInv, SoleInv,
       AllSafe, Safe, Done, Free, Files
<1>13. EveryBlobOpens'
  <2>1. CASE p \in crossed
    BY <1>4, <2>1 DEF NewKey, EveryBlobOpens, Good
  <2>2. CASE p \notin crossed
    BY <2>2 DEF NewKey, EveryBlobOpens, SoleInv, AllSafe, Safe, Free, Drops,
         Openers
  <2> QED
    BY <2>1, <2>2
<1>14. NothingIsLost'
  BY DEF NewKey, NothingIsLost
<1> QED
  BY <1>3, <1>5, <1>6, <1>7, <1>8, <1>9, <1>10, <1>11, <1>12, <1>13, <1>14 DEF
       NewKey

\* It reads a file.
LEMMA ReadStep ==
  ASSUME IInv, NEW p \in Rotators, NEW f \in Files, Read(p, f)
  PROVE  IInv'
<1> USE DEF IInv, ring, history, NoKey
<1> DEFINE q == rot[p]
           n == rot'[p]
<1>1. /\ rot' \in [Rotators -> Rotations] /\ q \in Rotations /\ n \in Rotations
      /\ \A t \in Rotators \ {p} : rot'[t] = rot[t]
      /\ n.pc = q.pc /\ n.old = q.old
      /\ n.missed = q.missed
      
      /\ \/ /\ disk[f] = Blank /\ n.todo = q.todo \ {f}
            /\ n.file = q.file /\ n.copy = q.copy /\ n.raw = q.raw
         \/ /\ disk[f] # Blank /\ n.todo = q.todo
            /\ n.file = f /\ n.copy = disk[f] /\ n.raw = In(disk[f])
  <2>1. rot[p] \in Rotations /\ disk[f] \in Contents /\ In(disk[f]) \subseteq Refs
    BY DEF TypeOK, In
  <2>2. CASE disk[f] = Blank
    <3>1. [rot[p] EXCEPT !.todo = @ \ {f}] \in Rotations
      BY ONLY <2>1 DEF Rotations
    <3> QED
      BY <2>1, <2>2, <3>1, TurnsType DEF Read, Rotations
  <2>3. CASE disk[f] # Blank
    <3> DEFINE x == [rot[p] EXCEPT !.file = f, !.copy = disk[f], !.raw = In(disk[f])]
    <3>1. /\ x \in Rotations
          /\ x.pc = q.pc /\ x.old = q.old /\ x.todo = q.todo /\ x.missed = q.missed
          /\ x.file = f /\ x.copy = disk[f] /\ x.raw = In(disk[f])
      BY ONLY <2>1, f \in Files DEF Rotations, NoKey, Contents
    <3>2. Turns(p, x)
      BY <2>3 DEF Read
    <3> HIDE DEF x
    <3> QED
      BY <3>1, <3>2, TurnsType, <2>3
  <2> QED
    BY <2>2, <2>3
<1>2. p \in Running /\ Running' = Running
  BY <1>1 DEF Read, CopyInv, Running
<1>3. \A t \in Rotators \ {p} : t \notin crossed => SoleInv(t)'
  BY <1>1, <1>2, Others DEF Read
<1>4. TypeOK'
  BY <1>1 DEF Read, Turns, TypeOK
<1>5. \A t \in Sessions : SessionInv(t)'
  BY <1>2 DEF Read, SessionInv, Overlap, Writing, Good, Openers
<1>6. Overlap'
  BY <1>2 DEF Read, Overlap, Writing
<1>7. Cross'
  BY <1>2 DEF Read, Cross
<1>8. Age'
  BY <1>1 DEF Read, Age
<1>9. RetireInv'
  BY <1>1 DEF Read, RetireInv
<1>10. \A t \in Rotators : CopyInv(t)'
  BY <1>1 DEF Read, CopyInv, EveryBlobOpens, Good, Openers, Free
<1>11. p \notin crossed' => SoleInv(p)'
  BY <1>1, BlankIn DEF Read, CopyInv, SoleInv, AllSafe, Safe, Done, Free, Files
<1>12. EveryBlobOpens'
  BY DEF Read, EveryBlobOpens, Openers
<1>13. NothingIsLost'
  BY DEF Read, NothingIsLost
<1> QED
  BY <1>3, <1>4, <1>5, <1>6, <1>7, <1>8, <1>9, <1>10, <1>11, <1>12, <1>13 DEF
       Read

\* It cannot read one.
LEMMA PassOverStep ==
  ASSUME IInv, NEW p \in Rotators, NEW f \in Files, PassOver(p, f)
  PROVE  IInv'
<1> USE DEF IInv, ring, history, NoKey
<1> DEFINE q == rot[p]
           n == rot'[p]
<1>1. /\ rot' \in [Rotators -> Rotations] /\ q \in Rotations /\ n \in Rotations
      /\ \A t \in Rotators \ {p} : rot'[t] = rot[t]
      /\ n.pc = q.pc /\ n.old = q.old
      /\ n.todo = q.todo \ {f} /\ n.missed = q.missed \cup {f}
      /\ n.file = q.file /\ n.copy = q.copy /\ n.raw = q.raw
  <2>1. rot[p] \in Rotations
    BY DEF TypeOK
  <2> DEFINE x == [rot[p] EXCEPT !.todo = @ \ {f}, !.missed = @ \cup {f}]
  <2>2. /\ x \in Rotations
        /\ x.pc = q.pc /\ x.old = q.old /\ x.todo = q.todo \ {f} /\ x.missed = q.missed \cup {f}
        /\ x.file = q.file /\ x.copy = q.copy /\ x.raw = q.raw
    BY ONLY <2>1, f \in Files DEF Rotations, NoKey, Contents
  <2>3. Turns(p, x)
    BY DEF PassOver
  <2> HIDE DEF x
  <2> QED
    BY <2>2, <2>3, TurnsType
<1>2. p \in Running /\ Running' = Running
  BY <1>1 DEF PassOver, CopyInv, Running
<1>3. \A t \in Rotators \ {p} : t \notin crossed => SoleInv(t)'
  BY <1>1, <1>2, Others DEF PassOver
<1>4. TypeOK'
  BY <1>1 DEF PassOver, Turns, TypeOK
<1>5. \A t \in Sessions : SessionInv(t)'
  BY <1>2 DEF PassOver, SessionInv, Overlap, Writing, Good, Openers
<1>6. Overlap'
  BY <1>2 DEF PassOver, Overlap, Writing
<1>7. Cross'
  BY <1>2 DEF PassOver, Cross
<1>8. Age'
  BY <1>1 DEF PassOver, Age
<1>9. RetireInv'
  BY <1>1 DEF PassOver, RetireInv
<1>10. \A t \in Rotators : CopyInv(t)'
  BY <1>1 DEF PassOver, CopyInv, Good, Openers, Free
<1>11. p \notin crossed' => SoleInv(p)'
  BY <1>1 DEF PassOver, CopyInv, SoleInv, AllSafe, Safe, Done, Free, Files
<1>12. EveryBlobOpens'
  BY DEF PassOver, EveryBlobOpens, Openers
<1>13. NothingIsLost'
  BY DEF PassOver, NothingIsLost
<1> QED
  BY <1>3, <1>4, <1>5, <1>6, <1>7, <1>8, <1>9, <1>10, <1>11, <1>12, <1>13 DEF
       PassOver

\* It seals one secret anew.
LEMMA ResealStep ==
  ASSUME IInv, NEW p \in Rotators, NEW r \in Refs, Reseal(p, r)
  PROVE  IInv'
<1> USE DEF IInv, ring, history, NoKey
<1> DEFINE q == rot[p]
           n == rot'[p]
<1>1. /\ rot' \in [Rotators -> Rotations] /\ q \in Rotations /\ n \in Rotations
      /\ \A t \in Rotators \ {p} : rot'[t] = rot[t]
      /\ n.pc = q.pc /\ n.old = q.old
      /\ n.todo = q.todo /\ n.missed = q.missed
      /\ n.file = q.file /\ n.copy = [q.copy EXCEPT ![r] = current] /\ n.raw = q.raw \ {r}
  <2>1. rot[p] \in Rotations /\ current \in Nat
    BY DEF TypeOK
  <2> DEFINE x == [rot[p] EXCEPT !.copy[r] = current, !.raw = @ \ {r}]
  <2>2. /\ x \in Rotations
        /\ x.pc = q.pc /\ x.old = q.old /\ x.todo = q.todo /\ x.missed = q.missed
        /\ x.file = q.file /\ x.copy = [q.copy EXCEPT ![r] = current] /\ x.raw = q.raw \ {r}
    BY ONLY <2>1 DEF Rotations, NoKey, Contents
  <2>3. Turns(p, x)
    BY DEF Reseal
  <2> HIDE DEF x
  <2> QED
    BY <2>2, <2>3, TurnsType
<1>2. p \in Running /\ Running' = Running
  BY <1>1 DEF Reseal, CopyInv, Running
<1>3. \A t \in Rotators \ {p} : t \notin crossed => SoleInv(t)'
  BY <1>1, <1>2, Others DEF Reseal
<1>4. TypeOK'
  BY <1>1 DEF Reseal, Turns, TypeOK
<1>5. \A t \in Sessions : SessionInv(t)'
  BY <1>2 DEF Reseal, SessionInv, Overlap, Writing, Good, Openers
<1>6. Overlap'
  BY <1>2 DEF Reseal, Overlap, Writing
<1>7. Cross'
  BY <1>2 DEF Reseal, Cross
<1>8. Age'
  BY <1>1 DEF Reseal, Age
<1>9. RetireInv'
  BY <1>1 DEF Reseal, RetireInv
<1>10. \A t \in Rotators : CopyInv(t)'
  BY <1>1, <1>2 DEF Reseal, CopyInv, Good, Openers, Free, In, Overlap,
       Rotations, Contents
<1>11. p \notin crossed' => SoleInv(p)'
  BY <1>1 DEF Reseal, SoleInv, AllSafe, Safe, Done, Free, Files, In,
       Rotations, Contents
<1>12. EveryBlobOpens'
  BY DEF Reseal, EveryBlobOpens, Openers
<1>13. NothingIsLost'
  BY DEF Reseal, NothingIsLost
<1> QED
  BY <1>3, <1>4, <1>5, <1>6, <1>7, <1>8, <1>9, <1>10, <1>11, <1>12, <1>13 DEF
       Reseal

\* It replaces the file.
LEMMA RewriteStep ==
  ASSUME IInv, NEW p \in Rotators, NEW f \in Files, Rewrite(p, f)
  PROVE  IInv'
<1> USE DEF IInv, ring, history, NoKey
<1> DEFINE q == rot[p]
           n == rot'[p]
<1>1. /\ rot' \in [Rotators -> Rotations] /\ q \in Rotations /\ n \in Rotations
      /\ \A t \in Rotators \ {p} : rot'[t] = rot[t]
      /\ n.pc = q.pc /\ n.old = q.old
      /\ n.todo = q.todo \ {f} /\ n.missed = q.missed
      /\ n.file = NoFile /\ n.copy = Blank /\ n.raw = q.raw
  BY BlankIn DEF Rewrite, Turns, TypeOK, Rotations, CopyInv
<1>2. p \in Running /\ Running' = Running
  BY <1>1 DEF Rewrite, CopyInv, Running
<1>3. \A t \in Rotators \ {p} : t \notin crossed => SoleInv(t)'
  BY <1>1, <1>2, Others DEF Rewrite
<1>4. TypeOK'
  BY <1>1 DEF Rewrite, TypeOK, Rotations
<1>5. \A t \in Sessions : SessionInv(t)'
  BY <1>2 DEF Rewrite, SessionInv, Overlap, Writing, Good, Openers
<1>6. Overlap'
  BY <1>2 DEF Rewrite, Overlap, Writing
<1>7. Cross'
  BY <1>2 DEF Rewrite, Cross
<1>8. Age'
  BY <1>1 DEF Rewrite, Age
<1>9. RetireInv'
  BY <1>1 DEF Rewrite, RetireInv
<1>10. \A t \in Rotators : CopyInv(t)'
  BY <1>1 DEF Rewrite, CopyInv, Good, Openers, Free, TypeOK
<1>11. p \notin crossed' => SoleInv(p)'
  BY <1>1 DEF Rewrite, SoleInv, AllSafe, Safe, Done, Free, Files, CopyInv,
       TypeOK
<1>12. EveryBlobOpens'
  BY <1>1 DEF Rewrite, EveryBlobOpens, Openers, CopyInv, Good, Free, TypeOK
<1>13. NothingIsLost'
  BY <1>1 DEF Rewrite, NothingIsLost, CopyInv, TypeOK
<1> QED
  BY <1>3, <1>4, <1>5, <1>6, <1>7, <1>8, <1>9, <1>10, <1>11, <1>12, <1>13 DEF
       Rewrite

\* It goes on to the journals.
LEMMA WalkStep ==
  ASSUME IInv, NEW p \in Rotators, WalkJournals(p)
  PROVE  IInv'
<1> USE DEF IInv, ring, history, NoKey
<1> DEFINE q == rot[p]
           n == rot'[p]
<1>1. /\ rot' \in [Rotators -> Rotations] /\ q \in Rotations /\ n \in Rotations
      /\ \A t \in Rotators \ {p} : rot'[t] = rot[t]
      /\ n.pc = "journals" /\ n.old = q.old
      /\ n.missed = q.missed
      /\ n.file = q.file /\ n.copy = q.copy /\ n.raw = q.raw
      /\ n.todo \in Found(Journals)
  <2>1. PICK t \in Found(Journals) :
          Turns(p, [rot[p] EXCEPT !.pc = "journals", !.todo = t])
    BY DEF WalkJournals
  <2>2. t \subseteq Files
    BY <2>1 DEF Found, Files
  <2>3. rot[p] \in Rotations
    BY DEF TypeOK
  <2> DEFINE x == [rot[p] EXCEPT !.pc = "journals", !.todo = t]
  <2>4. /\ x \in Rotations
        /\ x.pc = "journals" /\ x.old = q.old /\ x.todo = t /\ x.missed = q.missed
        /\ x.file = q.file /\ x.copy = q.copy /\ x.raw = q.raw
    BY ONLY <2>2, <2>3 DEF Rotations, NoKey, Contents
  <2>5. Turns(p, x)
    BY <2>1 DEF Turns
  <2> HIDE DEF x
  <2> QED
    BY <2>4, <2>5, TurnsType, <2>1
<1>2. p \in Running /\ Running' = Running
  BY <1>1 DEF WalkJournals, Running
<1>3. \A t \in Rotators \ {p} : t \notin crossed => SoleInv(t)'
  BY <1>1, <1>2, Others DEF WalkJournals
<1>4. TypeOK'
  BY <1>1 DEF WalkJournals, Turns, TypeOK
<1>5. \A t \in Sessions : SessionInv(t)'
  BY <1>2 DEF WalkJournals, SessionInv, Overlap, Writing, Good, Openers
<1>6. Overlap'
  BY <1>2 DEF WalkJournals, Overlap, Writing
<1>7. Cross'
  BY <1>2 DEF WalkJournals, Cross
<1>8. Age'
  BY <1>1 DEF WalkJournals, Age
<1>9. RetireInv'
  BY <1>1 DEF WalkJournals, RetireInv
<1>10. \A t \in Rotators : CopyInv(t)'
  BY <1>1 DEF WalkJournals, CopyInv, Good, Openers, Free, Found
<1>11. p \notin crossed' => SoleInv(p)'
  BY <1>1, BlankIn DEF WalkJournals, Found, SoleInv, AllSafe, Safe, Done,
       Free, Files, CopyInv
<1>12. EveryBlobOpens'
  BY DEF WalkJournals, EveryBlobOpens, Openers
<1>13. NothingIsLost'
  BY DEF WalkJournals, NothingIsLost
<1> QED
  BY <1>3, <1>4, <1>5, <1>6, <1>7, <1>8, <1>9, <1>10, <1>11, <1>12, <1>13 DEF
       WalkJournals

\* It ends, and forgets the old key.
LEMMA ForgetStep ==
  ASSUME IInv, NEW p \in Rotators, Forget(p)
  PROVE  IInv'
<1> USE DEF IInv, ring, history, NoKey
<1> DEFINE q == rot[p]
           n == rot'[p]
<1>1. /\ rot' \in [Rotators -> Rotations] /\ q \in Rotations /\ n \in Rotations
      /\ \A t \in Rotators \ {p} : rot'[t] = rot[t]
      /\ n.pc = "off" /\ n.old = NoKey
      /\ n.todo = {} /\ n.missed = {}
      /\ n.file = NoFile /\ n.copy = Blank /\ n.raw = {}
  BY BlankIn DEF Forget, NoRotation, Turns, TypeOK, Running
<1>2. p \in Running /\ Running' = Running \ {p}
  BY <1>1 DEF Forget, Running
<1>3. \A t \in Rotators \ {p} : t \notin crossed => SoleInv(t)'
  BY <1>1, <1>2, Others DEF Forget
<1>4. p \in crossed => Good \subseteq Good'
  BY DEF Forget, Drops, Good, Openers
<1>5. TypeOK'
  BY <1>1 DEF Forget, Drops, Openers, Keys, TypeOK, CopyInv, Rotations
<1>6. \A t \in Sessions : SessionInv(t)'
  BY <1>2 DEF Forget, SessionInv, Overlap, Writing
<1>7. Overlap'
  BY <1>2 DEF Forget, Overlap, Writing
<1>8. Cross'
  BY <1>2 DEF Forget, Cross
<1>9. Age'
  BY <1>1 DEF Forget, Age, TypeOK
<1>10. RetireInv'
  BY <1>1 DEF Forget, RetireInv
<1>11. \A t \in Rotators : CopyInv(t)'
  <2>1. ASSUME NEW t \in Rotators, t # p PROVE CopyInv(t)'
    <3>1. CASE p \notin crossed
      BY <1>1, <1>2, <3>1, <2>1, Others DEF Forget, CopyInv, Cross, Running
    <3>2. CASE p \in crossed
      BY <1>1, <2>1, <3>2, <1>4 DEF Forget, CopyInv, Free
    <3> QED
      BY <3>1, <3>2
  <2> QED
    BY <1>1, <2>1 DEF Forget, CopyInv
<1>12. p \notin crossed' => SoleInv(p)'
  BY <1>1 DEF Forget, SoleInv, Done, Free, Files
<1>13. EveryBlobOpens'
  <2>1. CASE p \in crossed \/ previous' = previous
    <3>1. Good \subseteq Good' /\ exposed' = exposed /\ stranded \subseteq stranded' /\ disk' = disk
      BY <1>4, <2>1 DEF Forget, Drops, Good, Openers
    <3> QED
      BY <3>1 DEF EveryBlobOpens, Good
  <2>2. CASE p \notin crossed /\ previous' = NoKey
    <3>1. \A f \in Free \ q.missed : Safe(disk[f], {current})
      BY <2>2 DEF Forget, SoleInv, Done, Free
    <3>2. ousted' = ousted /\ lost' = lost /\ disk' = disk /\ current' = current
      BY <2>2 DEF Forget, Drops
    <3>3. \A f \in Files \ (exposed' \cup stranded') : f \in Free \ q.missed
      BY <2>2 DEF Forget, Free
    <3>4. \A f \in Files : \A r \in In(disk[f]) : disk[f][r] # NoKey
      BY DEF In
    <3> QED
      BY <3>1, <3>2, <3>3, <3>4 DEF EveryBlobOpens, Safe, Openers
  <2> QED
    BY <2>1, <2>2 DEF Forget
<1>14. NothingIsLost'
  BY DEF Forget, NothingIsLost
<1> QED
  BY <1>3, <1>5, <1>6, <1>7, <1>8, <1>9, <1>10, <1>11, <1>12, <1>13, <1>14 DEF
       Forget

\* It stops.
LEMMA StopsStep ==
  ASSUME IInv, NEW p \in Rotators, p \in Running, Stops(p)
  PROVE  IInv'
<1> USE DEF IInv, ring, history, NoKey
<1> DEFINE q == rot[p]
           n == rot'[p]
<1>1. /\ rot' \in [Rotators -> Rotations] /\ q \in Rotations /\ n \in Rotations
      /\ \A t \in Rotators \ {p} : rot'[t] = rot[t]
      /\ n.pc = "off" /\ n.old = NoKey
      /\ n.todo = {} /\ n.missed = {}
      /\ n.file = NoFile /\ n.copy = Blank /\ n.raw = {}
  BY BlankIn DEF Stops, NoRotation, Turns, TypeOK, Running
<1>2. p \in Running /\ Running' = Running \ {p}
  BY <1>1 DEF Stops, Running
<1>3. \A t \in Rotators \ {p} : t \notin crossed => SoleInv(t)'
  BY <1>1, <1>2, Others DEF Stops
<1>4. TypeOK'
  BY <1>1 DEF Stops, TypeOK, Keys
<1>5. \A t \in Sessions : SessionInv(t)'
  BY <1>2 DEF Stops, SessionInv, Overlap, Writing, Good, Openers
<1>6. Overlap'
  BY <1>2 DEF Stops, Overlap, Writing
<1>7. Cross'
  BY <1>2 DEF Stops, Cross
<1>8. Age'
  BY <1>1 DEF Stops, Age, TypeOK
<1>9. RetireInv'
  BY <1>1 DEF Stops, RetireInv
<1>10. \A t \in Rotators : CopyInv(t)'
  BY <1>1 DEF Stops, Turns, CopyInv, Good, Openers, Free
<1>11. p \notin crossed' => SoleInv(p)'
  BY <1>1 DEF Stops, SoleInv, Done, Free, Files
<1>12. EveryBlobOpens'
  BY DEF Stops, EveryBlobOpens, Openers
<1>13. NothingIsLost'
  BY DEF Stops, NothingIsLost
<1> QED
  BY <1>3, <1>4, <1>5, <1>6, <1>7, <1>8, <1>9, <1>10, <1>11, <1>12, <1>13 DEF
       Stops

\* Every step of the specification preserves the invariant.
THEOREM NextIInv == IInv /\ [Next]_vars => IInv'
<1> SUFFICES ASSUME IInv, [Next]_vars PROVE IInv'
  OBVIOUS
<1>1. CASE UNCHANGED vars
  <2> USE <1>1 DEF vars, IInv
  <2>1. TypeOK' /\ Overlap' /\ Cross' /\ Age' /\ RetireInv'
    BY DEF TypeOK, Overlap, Cross, Running, Writing, Age, RetireInv
  <2>2. (\A s \in Sessions : SessionInv(s))' /\ (\A p \in Rotators : CopyInv(p))'
    BY DEF SessionInv, CopyInv, Good, Openers, Free
  <2>3. (\A p \in Rotators : p \notin crossed => SoleInv(p))'
    BY DEF SoleInv, AllSafe, Safe, Done, Free
  <2>4. EveryBlobOpens' /\ NothingIsLost'
    BY DEF EveryBlobOpens, Openers, NothingIsLost
  <2> QED
    BY <2>1, <2>2, <2>3, <2>4
<1>2. ASSUME NEW s \in Sessions, NEW f \in Stores, Stage(s, f) PROVE IInv'
  BY <1>2, TakesStep DEF Stage, Files
<1>3. ASSUME NEW s \in Sessions, NEW f \in Journals, Snapshot(s, f) PROVE IInv'
  BY <1>3, TakesStep DEF Snapshot, Files
<1>4. ASSUME NEW p \in Rotators, NEW f \in Files,
             Read(p, f) \/ PassOver(p, f) \/ Rewrite(p, f)
      PROVE  IInv'
  BY <1>4, ReadStep, PassOverStep, RewriteStep
<1>5. ASSUME NEW p \in Rotators, NEW r \in Refs, Reseal(p, r) PROVE IInv'
  BY <1>5, ResealStep
<1>6. ASSUME NEW p \in Rotators, NEW r \in Refs, Refuse(p, r) PROVE IInv'
  BY <1>6, StopsStep DEF Refuse, Running, IInv, CopyInv
<1>7. ASSUME NEW p \in Rotators, Interrupt(p) PROVE IInv'
  BY <1>7, StopsStep DEF Interrupt
<1> QED
  BY <1>1, <1>2, <1>3, <1>4, <1>5, <1>6, <1>7, FindKeyStep, CreateKeyStep,
       WriteStep,
     GiveUpStep, RotBeginStep, LookStep, KeepOldStep, NewKeyStep, WalkStep, ForgetStep
     DEF Next

\* The invariant holds throughout.
THEOREM Invariance == Spec => []IInv
<1>1. Init => IInv
  BY InitIInv
<1>2. IInv /\ [Next]_vars => IInv'
  BY NextIInv
<1> QED
  BY <1>1, <1>2, PTL DEF Spec

-----------------------------------------------------------------------------
(* The theorems.                                                           *)

\* The state variables hold what they are meant to hold, whatever sessions
\* and rotations do and wherever they stop.
THEOREM TypeCorrect == Spec => []TypeOK
<1>1. IInv => TypeOK
  BY DEF IInv
<1> QED
  BY <1>1, Invariance, PTL

\* At every point of any rotations, alone or together, interrupted or re-run,
\* every secret on disk opens: but for a file that a session wrote while a
\* rotation ran or that a rotation passed over before it deleted the key, and
\* for a key that another session put over or that one of two rotations
\* running at once took off the ring.
THEOREM SecretsOpen == Spec => []EveryBlobOpens
<1>1. IInv => EveryBlobOpens
  BY DEF IInv
<1> QED
  BY <1>1, Invariance, PTL

\* No number of rotations, re-runs, interruptions and files passed over takes
\* a secret out of a file or puts one back, unless a session wrote the file
\* while a rotation ran.
THEOREM RotationKeepsAll == Spec => []NothingIsLost
<1>1. IInv => NothingIsLost
  BY DEF IInv
<1> QED
  BY <1>1, Invariance, PTL

\* A rotation that ends has retired the key it found, unless it finished one
\* that was interrupted, or is still at work, between keeping the old key and
\* storing the new one.
THEOREM RotationRetires == Spec => OldKeyRetired
<1>1. IInv /\ [Next]_vars =>
        [previous' = NoKey => \/ previous \in {NoKey} \cup half
                              \/ previous # current
                              \/ \E p \in Rotators : rot[p].pc = "renew"]_vars
  BY DEF IInv, RetireInv
<1> QED
  BY <1>1, Invariance, PTL DEF Spec, OldKeyRetired

=============================================================================
