--------------------------- MODULE HostLock_proofs ---------------------------
(***************************************************************************)
(* What HostLock promises, for any number of processes, objects, nested    *)
(* acquisitions and crashes.                                               *)
(***************************************************************************)
EXTENDS HostLock, FiniteSetTheorems, TLAPS

\* What a process in the middle of a call is doing it to.
OpInv(p) ==
  LET c == op[p]
  IN  /\ c.at \in {"idle", "dead"} => c.obj = NoObj
      /\ c.at = "take" => c.obj \in Objs
      /\ c.at = "pop" => c.obj \in Objs /\ p \in Procs /\ barriers[p][c.obj] > 0
      /\ c.at \in {"wipe", "write", "erase", "unlock"} =>
           /\ c.obj \in Objs \cup {Probe}
           /\ kernel[c.file] = p
      /\ c.at \in {"wipe", "write"} => depth[p][c.file] = 1
      /\ c.at \in {"erase", "unlock"} => depth[p][c.file] = 0
      /\ c.at = "unlock" => record[c.file] = NoProc
      /\ c.obj = Probe => c.at \in {"wipe", "write", "erase", "unlock"}
      /\ c.barrier => /\ c.at \in {"take", "wipe", "write"}
                      /\ c.file = Own /\ p \in Procs /\ c.obj \in Objs
                      /\ barriers[p][c.obj] > 0
      /\ p \in OldProcs => /\ \A o \in Objs : barriers[p][o] = 0
                           /\ c.obj \in Objs => c.file = Legacy

\* A file in the table of a process is locked by it, and its record, once
\* written, names the process; a record names nobody else who is alive.
FileInv(p, f) ==
  LET c == op[p]
  IN  /\ depth[p][f] > 0 =>
           /\ kernel[f] = p
           /\ record[f] = p \/ (c.file = f /\ c.at \in {"wipe", "write"})
      /\ record[f] = p => At(p, "dead") \/ kernel[f] = p

\* Every acquisition of a process of this build has one of the old name under
\* it, when the old file was there from the start: how far the two counts are
\* apart at each point of a call.
BarrierInv(p) ==
  LET c     == op[p]
      own   == depth[p][Own]
      old   == depth[p][Legacy]
      owed  == c.at \in {"take", "wipe", "write"} /\ c.barrier
      extra == \/ c.at = "pop"
               \/ owed
               \/ c.at \in {"erase", "unlock"} /\ c.file = Own /\ c.obj \in Objs
  IN  /\ c.at \in {"idle", "dead"} => own = old
      /\ c.at = "take" => IF c.file = Own THEN c.barrier /\ old = own + 1
                                          ELSE old = own
      /\ c.at \in {"wipe", "write"} /\ c.obj \in Objs =>
           IF c.file = Own THEN c.barrier /\ old = 1 ELSE own = 0
      /\ c.at \in {"wipe", "write"} /\ c.obj = Probe => own + old = 1
      /\ c.at = "pop" => old = own + 1 \/ (old = 0 /\ own = 0)
      /\ c.at \in {"erase", "unlock"} =>
           own = 0 /\ (old = IF c.file = Own /\ c.obj \in Objs THEN 1 ELSE 0)
      /\ \A o \in Objs :
           barriers[p][o] = IF extra /\ o = c.obj THEN mine[p][o] + 1 ELSE mine[p][o]

FilesInv == \A p \in Everyone : OpInv(p) /\ \A f \in Files : FileInv(p, f)
Barriers == LegacyAtStart => legacyFile /\ \A p \in Procs : BarrierInv(p)


\* One step of one process, named.
Step(p) ==
  \/ \E o \in Objs : Acquire(p, o) \/ Release(p, o)
  \/ Nest(p) \/ TakeLock(p) \/ Wipe(p) \/ Write(p) \/ GiveUp(p)
  \/ Pop(p) \/ Erase(p) \/ Unlock(p)
  \/ \E f \in Files : ProbeFile(p, f)
  \/ Crash(p)

-----------------------------------------------------------------------------

LEMMA InitFiles == Init => TypeOK /\ FilesInv /\ Barriers
BY HostLockAssumption
   DEF Init, TypeOK, Calls, FilesInv, Barriers, OpInv, FileInv, BarrierInv, Idle, Call, Steps,
       Files, Own, Legacy, Everyone, At

\* The file a process works on, and that what it goes on to is a call.
LEMMA CallKnown ==
  ASSUME TypeOK, FilesInv, NEW p \in Everyone
  PROVE  /\ op[p] \in Calls /\ op[p].file \in Files /\ op[p].obj \in Objs \cup {Probe, NoObj}
         /\ Path(p) \in Files /\ Own \in Files /\ Legacy \in Files /\ OpInv(p)
         /\ \A f \in Files : FileInv(p, f)
BY DEF TypeOK, Calls, Files, Path, FilesInv

LEMMA CallType ==
  \A at \in Steps, f \in Files, o \in Objs \cup {Probe, NoObj}, b \in BOOLEAN :
    Call(at, f, o, b) \in Calls
BY DEF Call, Calls

LEMMA OpType ==
  ASSUME TypeOK, NEW p \in Everyone, NEW c \in Calls
  PROVE  [op EXCEPT ![p] = c] \in [Everyone -> Calls]
BY DEF TypeOK

\* Counters stay natural numbers.
LEMMA Counts ==
  ASSUME TypeOK, NEW p \in Everyone, NEW n \in Nat
  PROVE  /\ \A f \in Files : /\ depth[p][f] \in Nat
                            /\ [depth EXCEPT ![p][f] = n] \in [Everyone -> [Files -> Nat]]
         /\ \A o \in Objs : /\ mine[p][o] \in Nat /\ barriers[p][o] \in Nat
                           /\ [mine EXCEPT ![p][o] = n] \in [Everyone -> [Objs -> Nat]]
                           /\ [barriers EXCEPT ![p][o] = n] \in [Everyone -> [Objs -> Nat]]
BY DEF TypeOK

LEMMA CountType ==
  ASSUME TypeOK, NEW p \in Everyone, NEW o \in Objs, NEW f, Count(p, o, f)
  PROVE  /\ mine' \in [Everyone -> [Objs -> Nat]]
         /\ barriers' \in [Everyone -> [Objs -> Nat]]
<1>1. mine[p][o] + 1 \in Nat /\ barriers[p][o] + 1 \in Nat
  BY Counts
<1>2. /\ mine \in [Everyone -> [Objs -> Nat]]
      /\ barriers \in [Everyone -> [Objs -> Nat]]
  BY DEF TypeOK
<1>3. /\ [mine EXCEPT ![p][o] = @ + 1] \in [Everyone -> [Objs -> Nat]]
      /\ [barriers EXCEPT ![p][o] = @ + 1] \in [Everyone -> [Objs -> Nat]]
  BY <1>1, Counts
<1> QED
  BY <1>2, <1>3 DEF Count

\* Every step keeps the types.
LEMMA StepType ==
  ASSUME TypeOK, FilesInv, NEW p \in Everyone, Step(p)
  PROVE  TypeOK'
<1> USE DEF TypeOK
<1>k. /\ op[p].file \in Files /\ op[p].obj \in Objs \cup {Probe, NoObj}
      /\ Path(p) \in Files /\ Own \in Files /\ Legacy \in Files /\ OpInv(p)
  BY CallKnown
<1>s. \A at \in Steps : [op EXCEPT ![p].at = at] \in [Everyone -> Calls]
  BY DEF Calls
<1>a. \A o \in Objs : AfterOwn(p, o) \in Calls
  BY <1>k, CallType DEF AfterOwn, Idle, Steps
<1>d. ASSUME NEW f \in Files, Drop(p, f) PROVE depth' \in [Everyone -> [Files -> Nat]]
  <2>1. (IF depth[p][f] = 0 THEN 0 ELSE depth[p][f] - 1) \in Nat
    BY Counts
  <2> QED
    BY <1>d, <2>1, Counts DEF Drop
<1>1. ASSUME NEW o \in Objs, Acquire(p, o) PROVE TypeOK'
  <2>1. op' \in [Everyone -> Calls]
    BY <1>1, <1>k, <1>s, <1>a, CallType, OpType DEF Acquire, Idle, Path, Steps
  <2>2. depth' \in [Everyone -> [Files -> Nat]]
    BY <1>1, <1>k, <1>d, Counts DEF Acquire
  <2>3. /\ mine' \in [Everyone -> [Objs -> Nat]]
        /\ barriers' \in [Everyone -> [Objs -> Nat]]
    BY <1>1, <1>k, Counts DEF Acquire
  <2>4. /\ kernel' \in [Files -> Everyone \cup {NoProc}]
        /\ record' \in [Files -> Everyone \cup {NoProc}]
        /\ legacyFile' \in BOOLEAN
    BY <1>1, <1>k DEF Acquire
  <2> QED
    BY <2>1, <2>2, <2>3, <2>4
<1>2. ASSUME NEW o \in Objs, Release(p, o) PROVE TypeOK'
  <2>1. CASE mine[p][o] = 0
    <3>1. op' = [op EXCEPT ![p] = AfterOwn(p, o)] /\ UNCHANGED <<mine, depth>>
      BY <1>2, <2>1 DEF Release
    <3>2. op' \in [Everyone -> Calls]
      BY <3>1, <1>a, OpType
    <3> QED
      BY <1>2, <3>1, <3>2 DEF Release
  <2>2. CASE mine[p][o] > 0
    <3>0. ~(mine[p][o] = 0)
      BY <2>2
    <3>1. /\ Drop(p, Path(p)) /\ mine' = [mine EXCEPT ![p][o] = @ - 1]
          /\ op' = [op EXCEPT ![p] =
                      IF Last(p, Path(p)) THEN Call("erase", Path(p), o, FALSE)
                                          ELSE AfterOwn(p, o)]
      BY <1>2, <3>0, Zenon DEF Release
    <3>2. mine[p][o] - 1 \in Nat
      BY <2>2, Counts
    <3>3. (IF Last(p, Path(p)) THEN Call("erase", Path(p), o, FALSE)
                               ELSE AfterOwn(p, o)) \in Calls
      BY <1>a, <1>k, CallType DEF Steps
    <3>4. op' \in [Everyone -> Calls]
      BY <3>1, <3>3, OpType
    <3> QED
      BY <1>2, <1>d, <1>k, <3>1, <3>2, <3>4, Counts DEF Release
  <2> QED
    BY <2>1, <2>2, Counts
<1>3. ASSUME Nest(p) PROVE TypeOK'
  <2>1. op' \in [Everyone -> Calls]
    BY <1>3, <1>k, <1>s, <1>a, CallType, OpType DEF At, Idle, Nest, OpInv, Proceed, Steps
  <2>2. depth[p][op[p].file] + 1 \in Nat
    BY <1>k, Counts
  <2>3. op[p].obj \in Objs
    BY <1>3, <1>k DEF Nest, At, OpInv
  <2>4. depth' \in [Everyone -> [Files -> Nat]]
    BY <1>3, <1>k, <2>2, Counts DEF Nest
  <2> QED
    BY <1>3, <2>1, <2>3, <2>4, CountType DEF Nest
<1>4. ASSUME TakeLock(p) PROVE TypeOK'
  <2>1. op' \in [Everyone -> Calls]
    BY <1>4, <1>k, <1>s, <1>a, CallType, OpType DEF Goto, Idle, Steps, TakeLock
  <2>2. depth' \in [Everyone -> [Files -> Nat]]
    BY <1>4, <1>k, <1>d, Counts DEF TakeLock
  <2>3. /\ mine' \in [Everyone -> [Objs -> Nat]]
        /\ barriers' \in [Everyone -> [Objs -> Nat]]
    BY <1>4, <1>k, Counts DEF TakeLock
  <2>4. /\ kernel' \in [Files -> Everyone \cup {NoProc}]
        /\ record' \in [Files -> Everyone \cup {NoProc}]
        /\ legacyFile' \in BOOLEAN
    BY <1>4, <1>k DEF TakeLock
  <2> QED
    BY <2>1, <2>2, <2>3, <2>4
<1>5. ASSUME Wipe(p) PROVE TypeOK'
  <2>1. op' \in [Everyone -> Calls]
    BY <1>5, <1>k, <1>s, <1>a, CallType, OpType DEF Goto, Idle, Steps, Wipe
  <2>2. depth' \in [Everyone -> [Files -> Nat]]
    BY <1>5, <1>k, <1>d, Counts DEF Wipe
  <2>3. /\ mine' \in [Everyone -> [Objs -> Nat]]
        /\ barriers' \in [Everyone -> [Objs -> Nat]]
    BY <1>5, <1>k, Counts DEF Wipe
  <2>4. /\ kernel' \in [Files -> Everyone \cup {NoProc}]
        /\ record' \in [Files -> Everyone \cup {NoProc}]
        /\ legacyFile' \in BOOLEAN
    BY <1>5, <1>k DEF Wipe
  <2> QED
    BY <2>1, <2>2, <2>3, <2>4
<1>6. ASSUME Write(p) PROVE TypeOK'
  <2>1. CASE Probing(p)
    <3>1. op' \in [Everyone -> Calls] /\ UNCHANGED <<mine, barriers>>
      BY <1>6, <2>1, <1>s DEF Write, Goto, Steps
    <3>3. depth' = [depth EXCEPT ![p][op[p].file] = 0]
      BY <1>6, <2>1 DEF Write
    <3>2. depth' \in [Everyone -> [Files -> Nat]]
      BY <3>3, <1>k, Counts
    <3> QED
      BY <1>6, <3>1, <3>2, <1>k DEF Write
  <2>2. CASE ~Probing(p)
    <3>1. op[p].obj \in Objs
      BY <1>6, <2>2, <1>k DEF Write, At, OpInv, Probing
    <3>3. Count(p, op[p].obj, op[p].file) /\ Proceed(p) /\ UNCHANGED depth
      BY <1>6, <2>2 DEF Write
    <3>2. op' \in [Everyone -> Calls]
      BY <3>1, <3>3, <1>k, CallType, OpType DEF Proceed, Idle, Steps
    <3> QED
      BY <1>6, <2>2, <3>1, <3>2, <3>3, <1>k, CountType DEF Write
  <2> QED
    BY <2>1, <2>2
<1>7. ASSUME GiveUp(p) PROVE TypeOK'
  <2>1. op' \in [Everyone -> Calls]
    BY <1>7, <1>k, <1>s, <1>a, CallType, OpType DEF At, GiveUp, Idle, OpInv, Steps
  <2>2. depth' \in [Everyone -> [Files -> Nat]]
    BY <1>7, <1>k, <1>d, Counts DEF GiveUp
  <2>3. /\ mine' \in [Everyone -> [Objs -> Nat]]
        /\ barriers' \in [Everyone -> [Objs -> Nat]]
    BY <1>7, <1>k, Counts DEF GiveUp
  <2>4. /\ kernel' \in [Files -> Everyone \cup {NoProc}]
        /\ record' \in [Files -> Everyone \cup {NoProc}]
        /\ legacyFile' \in BOOLEAN
    BY <1>7, <1>k DEF GiveUp
  <2> QED
    BY <2>1, <2>2, <2>3, <2>4
<1>8. ASSUME Pop(p) PROVE TypeOK'
  <2>1. op' \in [Everyone -> Calls]
    BY <1>8, <1>k, <1>s, <1>a, CallType, OpType DEF At, Idle, OpInv, Pop, Steps
  <2>2. depth' \in [Everyone -> [Files -> Nat]]
    BY <1>8, <1>k, <1>d, Counts DEF Pop
  <2>3. /\ mine' \in [Everyone -> [Objs -> Nat]]
        /\ barriers' \in [Everyone -> [Objs -> Nat]]
    BY <1>8, <1>k, Counts DEF Pop, OpInv, At
  <2>4. /\ kernel' \in [Files -> Everyone \cup {NoProc}]
        /\ record' \in [Files -> Everyone \cup {NoProc}]
        /\ legacyFile' \in BOOLEAN
    BY <1>8, <1>k DEF Pop
  <2> QED
    BY <2>1, <2>2, <2>3, <2>4
<1>9. ASSUME Erase(p) PROVE TypeOK'
  <2>1. op' \in [Everyone -> Calls]
    BY <1>9, <1>k, <1>s, <1>a, CallType, OpType DEF Erase, Goto, Idle, Steps
  <2>2. depth' \in [Everyone -> [Files -> Nat]]
    BY <1>9, <1>k, <1>d, Counts DEF Erase
  <2>3. /\ mine' \in [Everyone -> [Objs -> Nat]]
        /\ barriers' \in [Everyone -> [Objs -> Nat]]
    BY <1>9, <1>k, Counts DEF Erase
  <2>4. /\ kernel' \in [Files -> Everyone \cup {NoProc}]
        /\ record' \in [Files -> Everyone \cup {NoProc}]
        /\ legacyFile' \in BOOLEAN
    BY <1>9, <1>k DEF Erase
  <2> QED
    BY <2>1, <2>2, <2>3, <2>4
<1>10. ASSUME Unlock(p) PROVE TypeOK'
  <2>1. op' \in [Everyone -> Calls]
    BY <1>10, <1>k, <1>s, <1>a, CallType, OpType DEF AfterOwn, Idle, Steps, Unlock
  <2>2. depth' \in [Everyone -> [Files -> Nat]]
    BY <1>10, <1>k, <1>d, Counts DEF Unlock
  <2>3. /\ mine' \in [Everyone -> [Objs -> Nat]]
        /\ barriers' \in [Everyone -> [Objs -> Nat]]
    BY <1>10, <1>k, Counts DEF Unlock
  <2>4. /\ kernel' \in [Files -> Everyone \cup {NoProc}]
        /\ record' \in [Files -> Everyone \cup {NoProc}]
        /\ legacyFile' \in BOOLEAN
    BY <1>10, <1>k DEF Unlock
  <2> QED
    BY <2>1, <2>2, <2>3, <2>4
<1>11. ASSUME NEW f \in Files, ProbeFile(p, f) PROVE TypeOK'
  <2>1. op' \in [Everyone -> Calls]
    BY <1>11, <1>k, <1>s, <1>a, CallType, OpType DEF Idle, ProbeFile, Steps
  <2>2. depth' \in [Everyone -> [Files -> Nat]]
    BY <1>11, <1>k, <1>d, Counts DEF ProbeFile
  <2>3. /\ mine' \in [Everyone -> [Objs -> Nat]]
        /\ barriers' \in [Everyone -> [Objs -> Nat]]
    BY <1>11, <1>k, Counts DEF ProbeFile
  <2>4. /\ kernel' \in [Files -> Everyone \cup {NoProc}]
        /\ record' \in [Files -> Everyone \cup {NoProc}]
        /\ legacyFile' \in BOOLEAN
    BY <1>11, <1>k DEF ProbeFile
  <2> QED
    BY <2>1, <2>2, <2>3, <2>4
<1>12. ASSUME Crash(p) PROVE TypeOK'
  <2>1. op' \in [Everyone -> Calls]
    BY <1>12, <1>k, <1>s, <1>a, CallType, OpType DEF Crash, Idle, Steps
  <2>2. depth' \in [Everyone -> [Files -> Nat]]
    BY <1>12, <1>k, <1>d, Counts DEF Crash
  <2>3. /\ mine' \in [Everyone -> [Objs -> Nat]]
        /\ barriers' \in [Everyone -> [Objs -> Nat]]
    BY <1>12, <1>k, Counts DEF Crash
  <2>4. /\ kernel' \in [Files -> Everyone \cup {NoProc}]
        /\ record' \in [Files -> Everyone \cup {NoProc}]
        /\ legacyFile' \in BOOLEAN
    BY <1>12, <1>k DEF Crash
  <2> QED
    BY <2>1, <2>2, <2>3, <2>4
<1> QED
  BY <1>1, <1>2, <1>3, <1>4, <1>5, <1>6, <1>7, <1>8, <1>9, <1>10, <1>11, <1>12 DEF Step

\* A step of one process changes no variable of another.
LEMMA OthersKeep ==
  ASSUME TypeOK, NEW p \in Everyone, Step(p), NEW q \in Everyone, q # p
  PROVE  /\ op'[q] = op[q] /\ depth'[q] = depth[q]
         /\ mine'[q] = mine[q] /\ barriers'[q] = barriers[q]
<1> DEFINE Goal == /\ op'[q] = op[q] /\ depth'[q] = depth[q]
                   /\ mine'[q] = mine[q] /\ barriers'[q] = barriers[q]
<1> USE DEF TypeOK
<1>1. ASSUME NEW o \in Objs, Acquire(p, o) PROVE Goal
  BY <1>1 DEF Acquire
<1>2. ASSUME NEW o \in Objs, Release(p, o) PROVE Goal
  BY <1>2 DEF Release, Drop
<1>3. ASSUME Nest(p) PROVE Goal
  BY <1>3 DEF Nest, Count, Proceed
<1>4. ASSUME TakeLock(p) PROVE Goal
  BY <1>4 DEF TakeLock, Goto
<1>5. ASSUME Wipe(p) PROVE Goal
  BY <1>5 DEF Wipe, Goto
<1>6. ASSUME Write(p) PROVE Goal
  BY <1>6 DEF Write, Goto, Count, Proceed
<1>7. ASSUME GiveUp(p) PROVE Goal
  BY <1>7 DEF GiveUp
<1>8. ASSUME Pop(p) PROVE Goal
  BY <1>8 DEF Pop, Drop
<1>9. ASSUME Erase(p) PROVE Goal
  BY <1>9 DEF Erase, Goto
<1>10. ASSUME Unlock(p) PROVE Goal
  BY <1>10 DEF Unlock
<1>11. ASSUME NEW f \in Files, ProbeFile(p, f) PROVE Goal
  BY <1>11 DEF ProbeFile
<1>12. ASSUME Crash(p) PROVE Goal
  BY <1>12 DEF Crash
<1> QED
  BY <1>1, <1>2, <1>3, <1>4, <1>5, <1>6, <1>7, <1>8, <1>9, <1>10, <1>11, <1>12 DEF Step

\* A step changes the lock of a file only if it was free or is the process's,
\* and a record only under the lock.
LEMMA LocksKeep ==
  ASSUME TypeOK, FilesInv, NEW p \in Everyone, Step(p), NEW g \in Files
  PROVE  /\ \/ kernel'[g] = kernel[g]
            \/ kernel[g] = NoProc /\ kernel'[g] = p
            \/ kernel[g] = p /\ kernel'[g] = NoProc
         /\ \/ record'[g] = record[g]
            \/ kernel[g] = p /\ record'[g] \in {NoProc, p}
<1> DEFINE Goal ==
      /\ \/ kernel'[g] = kernel[g]
         \/ kernel[g] = NoProc /\ kernel'[g] = p
         \/ kernel[g] = p /\ kernel'[g] = NoProc
      /\ \/ record'[g] = record[g]
         \/ kernel[g] = p /\ record'[g] \in {NoProc, p}
<1> USE DEF TypeOK
<1>k. op[p].file \in Files /\ OpInv(p)
  BY CallKnown
<1>1. ASSUME NEW o \in Objs, Acquire(p, o) PROVE Goal
  BY <1>1, <1>k DEF Acquire
<1>2. ASSUME NEW o \in Objs, Release(p, o) PROVE Goal
  BY <1>2, <1>k DEF Release
<1>3. ASSUME Nest(p) PROVE Goal
  BY <1>3, <1>k DEF Nest
<1>4. ASSUME TakeLock(p) PROVE Goal
  BY <1>4, <1>k DEF TakeLock
<1>5. ASSUME Wipe(p) PROVE Goal
  BY <1>5, <1>k DEF Wipe, At, OpInv
<1>6. ASSUME Write(p) PROVE Goal
  BY <1>6, <1>k DEF Write, At, OpInv
<1>7. ASSUME GiveUp(p) PROVE Goal
  BY <1>7, <1>k DEF GiveUp
<1>8. ASSUME Pop(p) PROVE Goal
  BY <1>8, <1>k DEF Pop
<1>9. ASSUME Erase(p) PROVE Goal
  BY <1>9, <1>k DEF Erase, At, OpInv
<1>10. ASSUME Unlock(p) PROVE Goal
  BY <1>10, <1>k DEF Unlock, At, OpInv
<1>11. ASSUME NEW f \in Files, ProbeFile(p, f) PROVE Goal
  BY <1>11, <1>k DEF ProbeFile
<1>12. ASSUME Crash(p) PROVE Goal
  BY <1>12, <1>k DEF Crash
<1> QED
  BY <1>1, <1>2, <1>3, <1>4, <1>5, <1>6, <1>7, <1>8, <1>9, <1>10, <1>11, <1>12 DEF Step

\* What a step of one process leaves true of another.
LEMMA OthersFiles ==
  ASSUME TypeOK, FilesInv, NEW p \in Everyone, Step(p), NEW q \in Everyone, q # p
  PROVE  OpInv(q)' /\ \A f \in Files : FileInv(q, f)'
<1>1. /\ op'[q] = op[q] /\ depth'[q] = depth[q]
      /\ mine'[q] = mine[q] /\ barriers'[q] = barriers[q]
  BY OthersKeep
<1>2. /\ op[q].file \in Files /\ OpInv(q) /\ q # NoProc
      /\ \A f \in Files : FileInv(q, f)
  BY CallKnown, HostLockAssumption
<1>3. \A f \in Files : /\ kernel[f] = q => kernel'[f] = q /\ record'[f] = record[f]
                       /\ record'[f] = q => record[f] = q
  BY LocksKeep, <1>2
<1>4. OpInv(q)'
  BY <1>1, <1>2, <1>3 DEF OpInv
<1>5. ASSUME NEW f \in Files PROVE FileInv(q, f)'
  BY <1>1, <1>2, <1>3 DEF FileInv, At
<1> QED
  BY <1>4, <1>5

\* What a step leaves true of the process's own call.
LEMMA OwnOp ==
  ASSUME TypeOK, FilesInv, NEW p \in Everyone, Step(p)
  PROVE  OpInv(p)'
<1> USE HostLockAssumption DEF TypeOK, Own, Legacy
<1>k. /\ op[p] \in Calls /\ op[p].file \in Files /\ op[p].obj \in Objs \cup {Probe, NoObj}
      /\ Path(p) \in Files /\ Own \in Files /\ Legacy \in Files /\ OpInv(p)
      /\ p \in Procs \cup OldProcs /\ p # NoProc /\ \A f \in Files : FileInv(p, f)
  BY CallKnown, HostLockAssumption DEF Everyone
<1>1. ASSUME NEW o \in Objs, Acquire(p, o) PROVE OpInv(p)'
  BY <1>1, <1>k DEF Acquire, Path, OpInv, At, Call, Idle, Probing
<1>2. ASSUME NEW o \in Objs, Release(p, o) PROVE OpInv(p)'
  <2>1. CASE mine[p][o] = 0
    BY <1>2, <2>1, <1>k DEF Release, AfterOwn, OpInv, At, Call, Idle, Probing
  <2>2. CASE mine[p][o] > 0
    <3>0. ~(mine[p][o] = 0)
      BY <2>2
    <3>1. Drop(p, Path(p)) /\ UNCHANGED <<kernel, record, barriers>>
      BY <1>2, <3>0, Zenon DEF Release
    <3>2. op'[p] = IF Last(p, Path(p)) THEN Call("erase", Path(p), o, FALSE)
                                       ELSE AfterOwn(p, o)
      BY <1>2, <3>0 DEF Release
    <3>3. CASE Last(p, Path(p))
      BY <3>1, <3>2, <3>3, <1>k DEF Last, Drop, Call, OpInv, FileInv, Path
    <3>4. CASE ~Last(p, Path(p))
      BY <3>1, <3>2, <3>4, <1>k DEF AfterOwn, Call, Idle, OpInv
    <3> QED
      BY <3>3, <3>4
  <2> QED
    BY <2>1, <2>2
<1>3. ASSUME Nest(p) PROVE OpInv(p)'
  BY <1>3, <1>k DEF Nest, Count, Proceed, Path, OpInv, At, Call, Idle, Probing
<1>4. ASSUME TakeLock(p) PROVE OpInv(p)'
  BY <1>4, <1>k DEF TakeLock, Goto, OpInv, At, Call, Idle, Probing
<1>5. ASSUME Wipe(p) PROVE OpInv(p)'
  BY <1>5, <1>k DEF Wipe, Goto, OpInv, At, Call, Idle, Probing
<1>6. ASSUME Write(p) PROVE OpInv(p)'
  <2>1. CASE Probing(p)
    <3>1. /\ depth' = [depth EXCEPT ![p][op[p].file] = 0]
          /\ op' = [op EXCEPT ![p].at = "erase"]
          /\ UNCHANGED <<kernel, barriers>> /\ kernel[op[p].file] = p
      BY <1>6, <2>1, <1>k DEF Write, Goto, OpInv, At
    <3>2. /\ depth'[p][op[p].file] = 0 /\ op[p].barrier = FALSE
          /\ op'[p] = [op[p] EXCEPT !.at = "erase"]
      BY <3>1, <2>1, <1>k DEF OpInv, Probing, Calls
    <3> QED
      BY <3>1, <3>2, <2>1, <1>k DEF OpInv, Probing, Calls
  <2>2. CASE ~Probing(p)
    <3>1. /\ Count(p, op[p].obj, op[p].file) /\ Proceed(p)
          /\ UNCHANGED <<depth, kernel>> /\ op[p].obj \in Objs
      BY <1>6, <2>2, <1>k DEF Write, At, OpInv, Probing
    <3>2. CASE op[p].file # Path(p)
      <4>1. op[p].file = Legacy /\ p \in Procs /\ p \notin OldProcs
        BY <3>1, <3>2, <1>k DEF Path, OpInv, Files
      <4>2. /\ op'[p] = Call("take", Path(p), op[p].obj, TRUE)
            /\ barriers'[p][op[p].obj] > 0
        BY <3>1, <3>2, <1>k DEF Count, Proceed
      <4> QED
        BY <3>1, <4>1, <4>2 DEF OpInv, Call, Path
    <3>3. CASE op[p].file = Path(p)
      <4>1. op'[p] = Idle /\ UNCHANGED barriers
        BY <3>1, <3>3, <1>k DEF Count, Proceed
      <4> QED
        BY <3>1, <4>1, <1>k DEF OpInv, Idle, Call
    <3> QED
      BY <3>2, <3>3
  <2> QED
    BY <2>1, <2>2
<1>7. ASSUME GiveUp(p) PROVE OpInv(p)'
  BY <1>7, <1>k DEF GiveUp, OpInv, At, Call, Idle, Probing
<1>8. ASSUME Pop(p) PROVE OpInv(p)'
  <2>1. /\ op[p].obj \in Objs /\ p \in Procs /\ p \notin OldProcs
        /\ Drop(p, Legacy) /\ UNCHANGED kernel
    BY <1>8, <1>k DEF Pop, OpInv, At
  <2>2. CASE Last(p, Legacy)
    <3>1. /\ op'[p] = Call("erase", Legacy, op[p].obj, FALSE)
          /\ depth'[p][Legacy] = 0 /\ kernel[Legacy] = p
      BY <1>8, <2>1, <2>2, <1>k DEF Pop, Last, Drop, FileInv
    <3> QED
      BY <2>1, <3>1, <1>k DEF OpInv, Call
  <2>3. CASE ~Last(p, Legacy)
    <3>1. op'[p] = Idle
      BY <1>8, <2>3 DEF Pop
    <3> QED
      BY <2>1, <3>1 DEF OpInv, Idle, Call
  <2> QED
    BY <2>2, <2>3
<1>9. ASSUME Erase(p) PROVE OpInv(p)'
  BY <1>9, <1>k DEF Erase, Goto, OpInv, At, Call, Idle, Probing
<1>10. ASSUME Unlock(p) PROVE OpInv(p)'
  BY <1>10, <1>k DEF Unlock, Path, AfterOwn, OpInv, At, Call, Idle, Probing
<1>11. ASSUME NEW f \in Files, ProbeFile(p, f) PROVE OpInv(p)'
  BY <1>11, <1>k DEF ProbeFile, OpInv, At, Call, Idle, Probing
<1>12. ASSUME Crash(p) PROVE OpInv(p)'
  BY <1>12, <1>k DEF Crash, OpInv, At, Call, Idle, Probing
<1> QED
  BY <1>1, <1>2, <1>3, <1>4, <1>5, <1>6, <1>7, <1>8, <1>9, <1>10, <1>11, <1>12 DEF Step

\* What a step leaves true of the files the process itself holds.
LEMMA OwnFiles ==
  ASSUME TypeOK, FilesInv, NEW p \in Everyone, Step(p), NEW g \in Files
  PROVE  FileInv(p, g)'
<1> USE HostLockAssumption DEF TypeOK, Own, Legacy
<1>k. /\ op[p] \in Calls /\ op[p].file \in Files /\ op[p].obj \in Objs \cup {Probe, NoObj}
      /\ Path(p) \in Files /\ Own \in Files /\ Legacy \in Files /\ OpInv(p)
      /\ p \in Procs \cup OldProcs /\ p # NoProc /\ \A f \in Files : FileInv(p, f)
  BY CallKnown, HostLockAssumption DEF Everyone
<1>1. ASSUME NEW o \in Objs, Acquire(p, o) PROVE FileInv(p, g)'
  BY <1>1, <1>k DEF Acquire, Path, OpInv, FileInv, At, Call, Idle, Probing
<1>2. ASSUME NEW o \in Objs, Release(p, o) PROVE FileInv(p, g)'
  <2>1. CASE mine[p][o] = 0
    BY <1>2, <2>1, <1>k DEF Release, AfterOwn, FileInv, At, Call, Idle
  <2>2. CASE mine[p][o] > 0
    <3>0. ~(mine[p][o] = 0)
      BY <2>2
    <3>1. Drop(p, Path(p)) /\ UNCHANGED <<kernel, record, barriers>> /\ At(p, "idle")
      BY <1>2, <3>0, Zenon DEF Release
    <3>2. op'[p].at # "dead" /\ op[p].at = "idle"
      BY <1>2, <3>1, <3>0 DEF Release, Call, AfterOwn, Idle, At
    <3>3. depth'[p][g] > 0 => depth[p][g] > 0
      BY <3>1, <1>k DEF Drop
    <3> QED
      BY <3>1, <3>2, <3>3, <1>k DEF FileInv, At
  <2> QED
    BY <2>1, <2>2
<1>3. ASSUME Nest(p) PROVE FileInv(p, g)'
  BY <1>3, <1>k DEF Nest, Count, Proceed, Path, OpInv, FileInv, At, Call, Idle, Probing
<1>4. ASSUME TakeLock(p) PROVE FileInv(p, g)'
  BY <1>4, <1>k DEF TakeLock, Goto, OpInv, FileInv, At, Call, Idle, Probing
<1>5. ASSUME Wipe(p) PROVE FileInv(p, g)'
  BY <1>5, <1>k DEF Wipe, Goto, OpInv, FileInv, At, Call, Idle, Probing
<1>6. ASSUME Write(p) PROVE FileInv(p, g)'
  BY <1>6, <1>k DEF Write, Goto, Count, Proceed, Path, Probing, OpInv, FileInv, At, Call, Idle
<1>7. ASSUME GiveUp(p) PROVE FileInv(p, g)'
  BY <1>7, <1>k DEF GiveUp, OpInv, FileInv, At, Call, Idle, Probing
<1>8. ASSUME Pop(p) PROVE FileInv(p, g)'
  BY <1>8, <1>k DEF Pop, Drop, Last, OpInv, FileInv, At, Call, Idle, Probing
<1>9. ASSUME Erase(p) PROVE FileInv(p, g)'
  BY <1>9, <1>k DEF Erase, Goto, OpInv, FileInv, At, Call, Idle, Probing
<1>10. ASSUME Unlock(p) PROVE FileInv(p, g)'
  BY <1>10, <1>k DEF Unlock, Path, AfterOwn, OpInv, FileInv, At, Call, Idle, Probing
<1>11. ASSUME NEW f \in Files, ProbeFile(p, f) PROVE FileInv(p, g)'
  BY <1>11, <1>k DEF ProbeFile, OpInv, FileInv, At, Call, Idle, Probing
<1>12. ASSUME Crash(p) PROVE FileInv(p, g)'
  BY <1>12, <1>k DEF Crash, OpInv, FileInv, At, Call, Idle, Probing
<1> QED
  BY <1>1, <1>2, <1>3, <1>4, <1>5, <1>6, <1>7, <1>8, <1>9, <1>10, <1>11, <1>12 DEF Step

\* How far the two counts of a process are apart after its step.
LEMMA OwnBarriers ==
  ASSUME TypeOK, FilesInv, Barriers, LegacyAtStart, NEW p \in Procs, p \in Everyone,
         Step(p)
  PROVE  BarrierInv(p)'
<1> USE HostLockAssumption DEF TypeOK, Own, Legacy
<1>k. /\ op[p] \in Calls /\ op[p].file \in Files /\ op[p].obj \in Objs \cup {Probe, NoObj}
      /\ Path(p) \in Files /\ Own \in Files /\ Legacy \in Files /\ OpInv(p)
      /\ p \in Procs \cup OldProcs /\ p # NoProc /\ \A f \in Files : FileInv(p, f)
      /\ legacyFile /\ BarrierInv(p) /\ p \notin OldProcs
  BY CallKnown, HostLockAssumption DEF Everyone, Barriers
<1>1. ASSUME NEW o \in Objs, Acquire(p, o) PROVE BarrierInv(p)'
  BY <1>1, <1>k DEF Acquire, Path, OpInv, FileInv, BarrierInv, At, Call, Idle, Probing
<1>2. ASSUME NEW o \in Objs, Release(p, o) PROVE BarrierInv(p)'
  BY <1>2, <1>k DEF Release, Drop, Path, AfterOwn, Last, OpInv, FileInv, BarrierInv, At, Call, Idle, Probing
<1>3. ASSUME Nest(p) PROVE BarrierInv(p)'
  <2> DEFINE f == op[p].file
             o == op[p].obj
  <2>1. /\ op[p].at = "take" /\ depth[p][f] > 0 /\ o \in Objs
        /\ depth' = [depth EXCEPT ![p][f] = @ + 1]
        /\ Count(p, o, f) /\ Proceed(p)
    BY <1>3, <1>k DEF Nest, At, OpInv
  <2>2. CASE f = Legacy
    <3>1. /\ op'[p] = Call("take", Own, o, TRUE) /\ ~op[p].barrier
          /\ barriers' = [barriers EXCEPT ![p][o] = @ + 1] /\ UNCHANGED mine
      BY <2>1, <2>2, <1>k DEF Count, Proceed, Path, OpInv
    <3>2. /\ depth[p][Legacy] = depth[p][Own]
          /\ \A x \in Objs : barriers[p][x] = mine[p][x]
      BY <2>1, <2>2, <3>1, <1>k DEF BarrierInv
    <3>3. depth'[p][Legacy] = depth'[p][Own] + 1
      BY <2>1, <2>2, <3>2, <1>k
    <3>4. \A x \in Objs : barriers'[p][x] = IF x = o THEN mine'[p][x] + 1 ELSE mine'[p][x]
      BY <2>1, <3>1, <3>2
    <3> HIDE DEF f, o
    <3> QED
      BY <3>1, <3>3, <3>4 DEF BarrierInv, Call
  <2>3. CASE f = Own
    <3>1. /\ op'[p] = Idle /\ op[p].barrier
          /\ mine' = [mine EXCEPT ![p][o] = @ + 1] /\ UNCHANGED barriers
      BY <2>1, <2>3, <1>k DEF Count, Proceed, Path, BarrierInv
    <3>2. /\ depth[p][Legacy] = depth[p][Own] + 1
          /\ \A x \in Objs : barriers[p][x] = IF x = o THEN mine[p][x] + 1 ELSE mine[p][x]
      BY <2>1, <2>3, <3>1, <1>k DEF BarrierInv
    <3>3. depth'[p][Legacy] = depth'[p][Own]
      BY <2>1, <2>3, <3>2, <1>k
    <3>4. \A x \in Objs : barriers'[p][x] = mine'[p][x]
      BY <2>1, <3>1, <3>2
    <3> HIDE DEF f, o
    <3> QED
      BY <3>1, <3>3, <3>4 DEF BarrierInv, Idle, Call
  <2> QED
    BY <2>2, <2>3, <1>k DEF Files
<1>4. ASSUME TakeLock(p) PROVE BarrierInv(p)'
  <2> DEFINE f == op[p].file
             o == op[p].obj
  <2>1. /\ op'[p] = Call("wipe", f, o, op[p].barrier) /\ op[p].at = "take"
        /\ depth' = [depth EXCEPT ![p][f] = 1] /\ depth[p][f] = 0
        /\ UNCHANGED <<mine, barriers>> /\ o \in Objs
    BY <1>4, <1>k DEF TakeLock, Goto, At, OpInv, Call, Calls
  <2>2. /\ f = Own => op[p].barrier /\ depth'[p][Legacy] = 1
        /\ f = Legacy => depth'[p][Own] = 0
    BY <2>1, <1>k DEF BarrierInv
  <2>3. op[p].barrier => f = Own
    BY <1>k DEF OpInv
  <2>4. \A x \in Objs : barriers[p][x] =
             IF op[p].barrier /\ x = o THEN mine[p][x] + 1 ELSE mine[p][x]
    BY <2>1, <1>k DEF BarrierInv
  <2>5. f \in {Own, Legacy}
    BY <1>k DEF Files
  <2> HIDE DEF f, o
  <2> QED
    BY <2>1, <2>2, <2>3, <2>4, <2>5 DEF BarrierInv, Call
<1>5. ASSUME Wipe(p) PROVE BarrierInv(p)'
  BY <1>5, <1>k DEF Wipe, Goto, OpInv, FileInv, BarrierInv, At, Call, Idle, Probing
<1>6. ASSUME Write(p) PROVE BarrierInv(p)'
  <2> DEFINE f == op[p].file
             o == op[p].obj
  <2>0. op[p].at = "write" /\ depth[p][f] = 1
    BY <1>6, <1>k DEF Write, At, OpInv
  <2>1. CASE Probing(p)
    <3>1. /\ op' = [op EXCEPT ![p].at = "erase"] /\ o = Probe /\ ~op[p].barrier
          /\ depth' = [depth EXCEPT ![p][f] = 0] /\ UNCHANGED <<mine, barriers>>
      BY <1>6, <2>1, <1>k DEF Write, Goto, Probing, OpInv
    <3>2. /\ op'[p].at = "erase" /\ op'[p].obj = Probe /\ ~op'[p].barrier
      BY <3>1, <1>k DEF Calls
    <3>3. /\ depth[p][Own] + depth[p][Legacy] = 1
          /\ \A x \in Objs : barriers[p][x] = mine[p][x]
      BY <2>0, <3>1, <1>k DEF BarrierInv
    <3>4. depth'[p][Own] = 0 /\ depth'[p][Legacy] = 0
      BY <2>0, <3>1, <3>3, <1>k DEF Files
    <3> HIDE DEF f, o
    <3> QED
      BY <3>1, <3>2, <3>3, <3>4 DEF BarrierInv
  <2>2. CASE ~Probing(p) /\ f = Legacy
    <3>1. /\ Count(p, o, f) /\ Proceed(p) /\ UNCHANGED depth /\ o \in Objs
      BY <1>6, <2>2, <1>k DEF Write, Probing, OpInv, At
    <3>2. /\ op'[p] = Call("take", Own, o, TRUE) /\ ~op[p].barrier
          /\ barriers' = [barriers EXCEPT ![p][o] = @ + 1] /\ UNCHANGED mine
      BY <3>1, <2>2, <1>k DEF Count, Proceed, Path, OpInv
    <3>3. /\ depth'[p][Own] = 0 /\ depth'[p][Legacy] = 1
          /\ \A x \in Objs : barriers[p][x] = mine[p][x]
      BY <2>0, <2>2, <3>1, <3>2, <1>k DEF BarrierInv
    <3>4. \A x \in Objs : barriers'[p][x] = IF x = o THEN mine'[p][x] + 1 ELSE mine'[p][x]
      BY <3>1, <3>2, <3>3
    <3> HIDE DEF f, o
    <3> QED
      BY <3>2, <3>3, <3>4 DEF BarrierInv, Call
  <2>3. CASE ~Probing(p) /\ f = Own
    <3>1. /\ Count(p, o, f) /\ Proceed(p) /\ UNCHANGED depth /\ o \in Objs
      BY <1>6, <2>3, <1>k DEF Write, Probing, OpInv, At
    <3>2. /\ op'[p] = Idle /\ op[p].barrier
          /\ mine' = [mine EXCEPT ![p][o] = @ + 1] /\ UNCHANGED barriers
      BY <2>0, <3>1, <2>3, <1>k DEF Count, Proceed, Path, BarrierInv
    <3>3. /\ depth'[p][Own] = 1 /\ depth'[p][Legacy] = 1
          /\ \A x \in Objs : barriers[p][x] = IF x = o THEN mine[p][x] + 1 ELSE mine[p][x]
      BY <2>0, <2>3, <3>1, <3>2, <1>k DEF BarrierInv
    <3>4. \A x \in Objs : barriers'[p][x] = mine'[p][x]
      BY <3>1, <3>2, <3>3
    <3> HIDE DEF f, o
    <3> QED
      BY <3>2, <3>3, <3>4 DEF BarrierInv, Idle, Call
  <2> QED
    BY <2>1, <2>2, <2>3, <1>k DEF Files
<1>7. ASSUME GiveUp(p) PROVE BarrierInv(p)'
  BY <1>7, <1>k DEF GiveUp, OpInv, FileInv, BarrierInv, At, Call, Idle, Probing
<1>8. ASSUME Pop(p) PROVE BarrierInv(p)'
  <2> DEFINE o == op[p].obj
  <2>1. /\ op[p].at = "pop" /\ o \in Objs /\ Drop(p, Legacy)
        /\ barriers' = [barriers EXCEPT ![p][o] = @ - 1] /\ UNCHANGED mine
        /\ op'[p] = IF Last(p, Legacy) THEN Call("erase", Legacy, o, FALSE) ELSE Idle
    BY <1>8, <1>k DEF Pop, At, OpInv
  <2>2. /\ \/ depth[p][Legacy] = depth[p][Own] + 1
           \/ depth[p][Legacy] = 0 /\ depth[p][Own] = 0
        /\ \A x \in Objs : barriers[p][x] = IF x = o THEN mine[p][x] + 1 ELSE mine[p][x]
    BY <2>1, <1>k DEF BarrierInv
  <2> HIDE DEF o
  <2>a. ASSUME NEW x \in Objs PROVE barriers'[p][x] = mine'[p][x]
    <3>1. mine[p][x] \in Nat /\ barriers'[p][x] = IF x = o THEN barriers[p][o] - 1 ELSE barriers[p][x]
      BY <2>1, Counts
    <3> QED
      BY <2>1, <2>2, <3>1
  <2>3. \A x \in Objs : barriers'[p][x] = mine'[p][x]
    BY <2>a
  <2>b. /\ depth[p][Own] \in Nat /\ depth[p][Legacy] \in Nat
        /\ depth'[p][Own] = depth[p][Own]
        /\ depth'[p][Legacy] = IF depth[p][Legacy] = 0 THEN 0 ELSE depth[p][Legacy] - 1
    BY <2>1, <1>k DEF Drop
  <2>c. \/ depth[p][Legacy] = depth[p][Own] + 1 /\ depth[p][Legacy] # 0
        \/ depth[p][Legacy] = 0 /\ depth[p][Own] = 0
    BY <2>2, <2>b
  <2>4. depth'[p][Legacy] = depth'[p][Own]
    <3>1. CASE depth[p][Legacy] = 0 /\ depth[p][Own] = 0
      BY <2>b, <3>1
    <3>2. CASE depth[p][Legacy] = depth[p][Own] + 1 /\ depth[p][Legacy] # 0
      BY <2>b, <3>2
    <3> QED
      BY <2>c, <3>1, <3>2
  <2>5. Last(p, Legacy) => depth'[p][Own] = 0
    <3>1. CASE depth[p][Legacy] = 1
      <4>1. depth[p][Own] = 0
        <5> DEFINE n == depth[p][Own]
        <5>1. n \in Nat /\ (1 = n + 1 \/ n = 0)
          BY <2>b, <2>c, <3>1
        <5> HIDE DEF n
        <5>2. n = 0
          BY <5>1
        <5> QED
          BY <5>2 DEF n
      <4> QED
        BY <2>b, <4>1
    <3> QED
      BY <3>1 DEF Last
  <2>6. CASE Last(p, Legacy)
    BY <2>1, <2>3, <2>4, <2>5, <2>6 DEF BarrierInv, Call
  <2>7. CASE ~Last(p, Legacy)
    BY <2>1, <2>3, <2>4, <2>7 DEF BarrierInv, Call, Idle
  <2> QED
    BY <2>6, <2>7
<1>9. ASSUME Erase(p) PROVE BarrierInv(p)'
  BY <1>9, <1>k DEF Erase, Goto, OpInv, FileInv, BarrierInv, At, Call, Idle, Probing
<1>10. ASSUME Unlock(p) PROVE BarrierInv(p)'
  BY <1>10, <1>k DEF Unlock, Path, AfterOwn, OpInv, FileInv, BarrierInv, At, Call, Idle, Probing
<1>11. ASSUME NEW f \in Files, ProbeFile(p, f) PROVE BarrierInv(p)'
  <2>1. /\ op'[p] = Call("wipe", f, Probe, FALSE) /\ op[p].at = "idle"
        /\ depth' = [depth EXCEPT ![p][f] = 1] /\ depth[p][f] = 0
        /\ UNCHANGED <<mine, barriers>>
    BY <1>11 DEF ProbeFile, At
  <2>2. depth[p][Own] = 0 /\ depth[p][Legacy] = 0
    BY <2>1, <1>k DEF BarrierInv, Files
  <2>3. depth'[p][Own] + depth'[p][Legacy] = 1
    BY <2>1, <2>2, <1>k DEF Files
  <2>4. \A o \in Objs : barriers[p][o] = mine[p][o]
    BY <2>1, <1>k DEF BarrierInv
  <2> QED
    BY <2>1, <2>3, <2>4 DEF BarrierInv, Call
<1>12. ASSUME Crash(p) PROVE BarrierInv(p)'
  BY <1>12, <1>k DEF Crash, OpInv, FileInv, BarrierInv, At, Call, Idle, Probing
<1> QED
  BY <1>1, <1>2, <1>3, <1>4, <1>5, <1>6, <1>7, <1>8, <1>9, <1>10, <1>11, <1>12 DEF Step

\* The inductive invariant.
IInv == TypeOK /\ FilesInv /\ Barriers

LEMMA StepInv ==
  ASSUME IInv, NEW p \in Everyone, Step(p)
  PROVE  IInv'
<1> USE DEF IInv
<1>1. TypeOK'
  BY StepType
<1>2. ASSUME NEW q \in Everyone
      PROVE  OpInv(q)' /\ \A f \in Files : FileInv(q, f)'
  <2>1. CASE q = p
    BY <2>1, OwnOp, OwnFiles
  <2>2. CASE q # p
    BY <2>2, OthersFiles
  <2> QED
    BY <2>1, <2>2
<1>3. FilesInv'
  BY <1>2 DEF FilesInv
<1>4. ASSUME LegacyAtStart, NEW q \in Procs PROVE BarrierInv(q)'
  <2>0. q \in Everyone /\ BarrierInv(q)
    BY <1>4 DEF Everyone, Barriers
  <2>1. CASE q = p
    BY <1>4, <2>0, <2>1, OwnBarriers
  <2>2. CASE q # p
    BY <2>0, <2>2, OthersKeep DEF BarrierInv
  <2> QED
    BY <2>1, <2>2
<1>5. legacyFile => legacyFile'
  BY DEF Step, Acquire, Release, Nest, TakeLock, Wipe, Write, GiveUp, Pop, Erase,
         Unlock, ProbeFile, Crash
<1>6. Barriers'
  BY <1>4, <1>5 DEF Barriers
<1> QED
  BY <1>1, <1>3, <1>6

-----------------------------------------------------------------------------
(* Theorems.                                                               *)

\* The invariant holds in every reachable state: a process has a lock file in
\* its table exactly between flock and unlock, whatever its objects do.
THEOREM Invariance == Spec => []IInv
<1>1. Init => IInv
  BY InitFiles DEF IInv
<1>2. IInv /\ [Next]_vars => IInv'
  <2> SUFFICES ASSUME IInv, [Next]_vars PROVE IInv'
    OBVIOUS
  <2>1. ASSUME NEW p \in Everyone, Step(p) PROVE IInv'
    BY <2>1, StepInv
  <2>2. CASE UNCHANGED vars
    BY <2>2 DEF vars, IInv, TypeOK, FilesInv, Barriers, OpInv, FileInv, BarrierInv, At
  <2> QED
    BY <2>1, <2>2 DEF Next, Step
<1> QED
  BY <1>1, <1>2, PTL DEF Spec

\* Types (locking.py): counters never go below zero, whatever order objects
\* are released in.
THEOREM TypeCorrect == Spec => []TypeOK
<1>1. IInv => TypeOK
  BY DEF IInv
<1> QED
  BY <1>1, Invariance, PTL

\* An owner record that names a live process is true: the reading _driven_now
\* (journal.py 692) makes of it is right for any number of processes, and
\* whether or not old builds run beside this one.
THEOREM RecordsAreTrue == Spec => []LiveRecordIsTrue
<1>1. IInv => LiveRecordIsTrue
  BY DEF IInv, LiveRecordIsTrue, FilesInv, FileInv, Alive
<1> QED
  BY <1>1, Invariance, PTL

\* A process inside the section is named by the record: no other process, no
\* earlier holder and no probe has erased or overwritten it.
THEOREM HoldersAreRecorded == Spec => []InsideIsRecorded
<1>1. IInv => InsideIsRecorded
  <2> SUFFICES ASSUME IInv, NEW p \in Everyone, Inside(p), At(p, "idle")
               PROVE  record[Path(p)] = p
    BY DEF InsideIsRecorded
  <2>1. FileInv(p, Path(p)) /\ op[p].at = "idle" /\ depth[p][Path(p)] > 0
    BY CallKnown DEF IInv, At, Inside
  <2> QED
    BY <2>1 DEF FileInv
<1> QED
  BY <1>1, Invariance, PTL

\* Mutual exclusion across an upgrade: if the old build had taken the lock
\* before the new one started, no process of either build is ever inside the
\* section together with another.
THEOREM MutualExclusion == LegacyAtStart => (Spec => []OneInside)
<1> SUFFICES ASSUME LegacyAtStart PROVE Spec => []OneInside
  OBVIOUS
<1>1. IInv => OneInside
  <2> SUFFICES ASSUME IInv PROVE OneInside
    OBVIOUS
  <2>1. ASSUME NEW p \in Everyone, Inside(p) PROVE depth[p][Legacy] > 0
    <3>1. CASE p \in OldProcs
      BY <2>1, <3>1 DEF Inside, Path
    <3>2. CASE p \in Procs
      <4>1. /\ BarrierInv(p) /\ OpInv(p) /\ op[p] \in Calls /\ Path(p) = Own
            /\ depth[p][Own] > 0 /\ op[p].obj # Probe
            /\ depth[p][Own] \in Nat /\ depth[p][Legacy] \in Nat
        BY <2>1, <3>2, CallKnown, Counts, HostLockAssumption
           DEF IInv, Barriers, Inside, Probing, Path
      <4>2. op[p].at \in Steps /\ op[p].file \in {Own, Legacy}
        BY <4>1 DEF Calls, Files
      <4> QED
        BY <4>1, <4>2 DEF BarrierInv, OpInv, Steps
    <3> QED
      BY <3>1, <3>2 DEF Everyone
  <2>2. ASSUME NEW p \in Everyone, Inside(p) PROVE kernel[Legacy] = p
    <3>1. FileInv(p, Legacy) /\ depth[p][Legacy] > 0
      BY <2>1, <2>2, CallKnown DEF IInv
    <3> QED
      BY <3>1 DEF FileInv
  <2> QED
    BY <2>2 DEF OneInside
<1> QED
  BY <1>1, Invariance, PTL

-----------------------------------------------------------------------------
(* The count in the table of a process is that of all its objects together: *)
(* one token for each acquisition that was not released.                    *)

Tokens(m) == {x \in Objs \X Nat : x[2] < m[x[1]]}

\* How often an acquisition of the process's own file is counted by its objects.
HeldInv(p) ==
  /\ IsFiniteSet(Tokens(mine[p]))
  /\ IF op[p].at \in {"wipe", "write"} /\ op[p].file = Path(p)
     THEN Tokens(mine[p]) = {}
     ELSE Cardinality(Tokens(mine[p])) = depth[p][Path(p)]

HeldAll == \A p \in Everyone : HeldInv(p)

LEMMA NoTokens ==
  ASSUME NEW m \in [Objs -> Nat]
  PROVE  Tokens(m) = {} <=> \A o \in Objs : m[o] = 0
<1>1. ASSUME NEW o \in Objs, m[o] # 0 PROVE <<o, 0>> \in Tokens(m)
  BY <1>1 DEF Tokens
<1>2. ASSUME \A o \in Objs : m[o] = 0 PROVE Tokens(m) = {}
  BY <1>2 DEF Tokens
<1> QED
  BY <1>1, <1>2

LEMMA TokenMore ==
  ASSUME NEW m \in [Objs -> Nat], NEW o \in Objs, IsFiniteSet(Tokens(m)),
         NEW up, up = [m EXCEPT ![o] = @ + 1]
  PROVE  /\ IsFiniteSet(Tokens(up))
         /\ Cardinality(Tokens(up)) = Cardinality(Tokens(m)) + 1
<1>1. \A q \in Objs : up[q] = IF q = o THEN m[o] + 1 ELSE m[q]
  OBVIOUS
<1>2. Tokens(up) = Tokens(m) \cup {<<o, m[o]>>} /\ <<o, m[o]>> \notin Tokens(m)
  BY <1>1 DEF Tokens
<1> DEFINE T == Tokens(m)
           x == <<o, m[o]>>
<1> HIDE DEF T, x
<1>3. IsFiniteSet(T \cup {x}) /\ (x \notin T => Cardinality(T \cup {x}) = Cardinality(T) + 1)
  BY FS_AddElement DEF T
<1> QED
  BY <1>2, <1>3 DEF T, x

LEMMA TokenLess ==
  ASSUME NEW m \in [Objs -> Nat], NEW o \in Objs, IsFiniteSet(Tokens(m)), m[o] > 0,
         NEW down, down = [m EXCEPT ![o] = @ - 1]
  PROVE  /\ IsFiniteSet(Tokens(down))
         /\ Cardinality(Tokens(down)) = Cardinality(Tokens(m)) - 1
<1>1. \A q \in Objs : down[q] = IF q = o THEN m[o] - 1 ELSE m[q]
  OBVIOUS
<1>2. /\ Tokens(down) = Tokens(m) \ {<<o, m[o] - 1>>}
      /\ <<o, m[o] - 1>> \in Tokens(m)
  BY <1>1 DEF Tokens
<1> DEFINE T == Tokens(m)
           x == <<o, m[o] - 1>>
<1> HIDE DEF T, x
<1>3. IsFiniteSet(T \ {x}) /\ (x \in T => Cardinality(T \ {x}) = Cardinality(T) - 1)
  BY FS_RemoveElement DEF T
<1> QED
  BY <1>2, <1>3 DEF T, x

\* What an acquisition adds to the objects of its process.
LEMMA CountsOne ==
  ASSUME TypeOK, NEW p \in Everyone, NEW o \in Objs, NEW f, Count(p, o, f)
  PROVE  mine'[p] = IF f = Path(p) THEN [mine[p] EXCEPT ![o] = @ + 1] ELSE mine[p]
BY DEF TypeOK, Count

LEMMA OwnHeld ==
  ASSUME IInv, NEW p \in Everyone, Step(p), HeldInv(p)
  PROVE  HeldInv(p)'
<1> USE DEF IInv
<1> DEFINE f == op[p].file
           o == op[p].obj
           T == Tokens(mine[p])
<1>k. /\ op[p] \in Calls /\ f \in Files /\ o \in Objs \cup {Probe, NoObj}
      /\ Path(p) \in Files /\ OpInv(p) /\ FileInv(p, Path(p))
      /\ Path(p) = Path(p)' /\ Own # Legacy
      /\ p \in Procs => Path(p) = Own
  BY CallKnown, HostLockAssumption DEF Path, Own, Legacy
<1>m. /\ mine[p] \in [Objs -> Nat] /\ IsFiniteSet(T)
      /\ depth \in [Everyone -> [Files -> Nat]] /\ op \in [Everyone -> Calls]
  BY DEF TypeOK, HeldInv
<1>z. Cardinality(T) = 0 <=> T = {}
  BY <1>m, FS_EmptySet
\* The tokens stay, and so does what is counted.
<1>s. ASSUME mine'[p] = mine[p], depth'[p][Path(p)] = depth[p][Path(p)],
             ~(op[p].at \in {"wipe", "write"} /\ f = Path(p)),
             ~(op'[p].at \in {"wipe", "write"} /\ op'[p].file = Path(p))
      PROVE  HeldInv(p)'
  BY <1>s, <1>k DEF HeldInv
<1>a. \A x \in Objs : AfterOwn(p, x).at \in {"pop", "idle"}
  BY DEF AfterOwn, Call, Idle
<1>1. ASSUME NEW x \in Objs, Acquire(p, x) PROVE HeldInv(p)'
  BY <1>1, <1>m, <1>s DEF Acquire, At, Call
<1>2. ASSUME NEW x \in Objs, Release(p, x) PROVE HeldInv(p)'
  <2>1. op[p].at = "idle" /\ op'[p].at \in {"erase", "pop", "idle"}
    BY <1>2, <1>a, <1>m DEF Release, At, Call
  <2>2. CASE mine[p][x] = 0 /\ UNCHANGED <<mine, depth>>
    BY <2>1, <2>2, <1>s
  <2>3. CASE mine[p][x] > 0 /\ mine' = [mine EXCEPT ![p][x] = @ - 1] /\ Drop(p, Path(p))
    <3>1. mine'[p] = [mine[p] EXCEPT ![x] = @ - 1]
      BY <2>3 DEF TypeOK
    <3>2. /\ IsFiniteSet(Tokens(mine[p])') /\ T # {}
          /\ Cardinality(Tokens(mine[p])') = Cardinality(T) - 1
      BY <2>3, <3>1, <1>m, TokenLess, NoTokens
    <3>3. Cardinality(T) = depth[p][Path(p)] /\ depth[p][Path(p)] # 0
      BY <2>1, <3>2, <1>z DEF HeldInv
    <3>4. depth'[p][Path(p)] = depth[p][Path(p)] - 1
      BY <2>3, <3>3, <1>k, <1>m DEF Drop
    <3> QED
      BY <2>1, <3>2, <3>3, <3>4, <1>k DEF HeldInv
  <2> QED
    BY <1>2, <2>2, <2>3 DEF Release
<1>3. ASSUME Nest(p) PROVE HeldInv(p)'
  <2>1. /\ op[p].at = "take" /\ o \in Objs /\ op'[p].at \in {"take", "idle"}
        /\ depth'[p][Path(p)] = IF f = Path(p) THEN depth[p][Path(p)] + 1
                                               ELSE depth[p][Path(p)]
    BY <1>3, <1>k, <1>m DEF Nest, At, OpInv, Proceed, Call, Idle
  <2>2. mine'[p] = IF f = Path(p) THEN [mine[p] EXCEPT ![o] = @ + 1] ELSE mine[p]
    BY <1>3, <2>1, CountsOne DEF Nest
  <2>3. CASE f = Path(p)
    <3>1. /\ IsFiniteSet(Tokens(mine[p])')
          /\ Cardinality(Tokens(mine[p])') = Cardinality(T) + 1
      BY <2>1, <2>2, <2>3, <1>m, TokenMore
    <3> QED
      BY <2>1, <2>3, <3>1, <1>k DEF HeldInv
  <2>4. CASE f # Path(p)
    BY <2>1, <2>2, <2>4, <1>s
  <2> QED
    BY <2>3, <2>4
<1>4. ASSUME TakeLock(p) PROVE HeldInv(p)'
  <2>1. /\ op[p].at = "take" /\ op'[p].at = "wipe" /\ op'[p].file = f
        /\ mine' = mine /\ depth[p][f] = 0
        /\ \A g \in Files : g # f => depth'[p][g] = depth[p][g]
    BY <1>4, <1>k, <1>m DEF TakeLock, At, Goto, Calls
  <2>2. CASE f = Path(p)
    BY <2>1, <2>2, <1>k, <1>z DEF HeldInv
  <2>3. CASE f # Path(p)
    BY <2>1, <2>3, <1>k, <1>s
  <2> QED
    BY <2>2, <2>3
<1>5. ASSUME Wipe(p) PROVE HeldInv(p)'
  <2>1. /\ op[p].at = "wipe" /\ op'[p].at = "write" /\ op'[p].file = f
        /\ mine' = mine /\ depth' = depth
    BY <1>5, <1>k, <1>m DEF Wipe, At, Goto, Calls
  <2> QED
    BY <2>1, <1>k DEF HeldInv
<1>6. ASSUME Write(p) PROVE HeldInv(p)'
  <2>1. op[p].at = "write" /\ depth[p][f] = 1
    BY <1>6, <1>k DEF Write, At, OpInv
  <2>2. CASE Probing(p) /\ depth' = [depth EXCEPT ![p][f] = 0] /\ Goto(p, "erase")
             /\ UNCHANGED mine
    <3>1. /\ op'[p].at = "erase" /\ depth'[p][f] = 0
          /\ \A g \in Files : g # f => depth'[p][g] = depth[p][g]
      BY <2>2, <1>k, <1>m DEF Goto, Calls
    <3>2. CASE f = Path(p)
      BY <2>1, <2>2, <3>1, <3>2, <1>k, <1>z DEF HeldInv
    <3>3. CASE f # Path(p)
      BY <2>1, <2>2, <3>1, <3>3, <1>k, <1>s
    <3> QED
      BY <3>2, <3>3
  <2>3. CASE ~Probing(p) /\ Count(p, o, f) /\ Proceed(p) /\ UNCHANGED depth
    <3>1. o \in Objs /\ op'[p].at \in {"take", "idle"}
      BY <2>1, <2>3, <1>k, <1>m DEF OpInv, Probing, Proceed, Call, Idle
    <3>2. mine'[p] = IF f = Path(p) THEN [mine[p] EXCEPT ![o] = @ + 1] ELSE mine[p]
      BY <2>3, <3>1, CountsOne
    <3>3. CASE f = Path(p)
      <4>1. Cardinality(T) = 0
        BY <2>1, <3>3, <1>z DEF HeldInv
      <4>2. IsFiniteSet(Tokens(mine[p])') /\ Cardinality(Tokens(mine[p])') = 1
        BY <3>1, <3>2, <3>3, <4>1, <1>m, TokenMore
      <4> QED
        BY <2>1, <2>3, <3>1, <3>3, <4>2, <1>k DEF HeldInv
    <3>4. CASE f # Path(p)
      BY <2>1, <2>3, <3>1, <3>2, <3>4, <1>s
    <3> QED
      BY <3>3, <3>4
  <2> QED
    BY <1>6, <2>2, <2>3 DEF Write
<1>7. ASSUME GiveUp(p) PROVE HeldInv(p)'
  <2>1. op[p].at = "take" /\ op'[p].at \in {"pop", "idle"}
    BY <1>7, <1>m DEF GiveUp, At, Call, Idle
  <2> QED
    BY <1>7, <2>1, <1>s DEF GiveUp
<1>8. ASSUME Pop(p) PROVE HeldInv(p)'
  <2>1. op[p].at = "pop" /\ Path(p) = Own /\ op'[p].at \in {"erase", "idle"}
    BY <1>8, <1>k, <1>m DEF Pop, At, OpInv, Call, Idle
  <2>2. depth'[p][Own] = depth[p][Own] /\ mine' = mine
    BY <1>8, <1>k, <1>m DEF Pop, Drop
  <2> QED
    BY <2>1, <2>2, <1>s
<1>9. ASSUME Erase(p) \/ Unlock(p) PROVE HeldInv(p)'
  <2>1. /\ op[p].at \in {"erase", "unlock"} /\ op'[p].at \in {"unlock", "pop", "idle"}
        /\ mine' = mine /\ depth' = depth
    BY <1>9, <1>k, <1>m DEF Erase, Unlock, At, Goto, Calls, AfterOwn, Call, Idle
  <2> QED
    BY <2>1, <1>s
<1>10. ASSUME NEW g \in Files, ProbeFile(p, g) PROVE HeldInv(p)'
  <2>1. /\ op[p].at = "idle" /\ op'[p].at = "wipe" /\ op'[p].file = g
        /\ mine' = mine /\ depth[p][g] = 0
        /\ \A h \in Files : h # g => depth'[p][h] = depth[p][h]
    BY <1>10, <1>m DEF ProbeFile, At, Call
  <2>2. CASE g = Path(p)
    BY <2>1, <2>2, <1>k, <1>z DEF HeldInv
  <2>3. CASE g # Path(p)
    BY <2>1, <2>3, <1>k, <1>s
  <2> QED
    BY <2>2, <2>3
<1>11. ASSUME Crash(p) PROVE HeldInv(p)'
  <2>1. /\ op'[p].at = "dead" /\ depth'[p][Path(p)] = 0
        /\ mine'[p] = [x \in Objs |-> 0]
    BY <1>11, <1>k, <1>m DEF Crash, Call, TypeOK
  <2>2. Tokens(mine[p])' = {}
    BY <2>1, NoTokens
  <2> QED
    BY <2>1, <2>2, <1>k, FS_EmptySet DEF HeldInv
<1> QED
  BY <1>1, <1>2, <1>3, <1>4, <1>5, <1>6, <1>7, <1>8, <1>9, <1>10, <1>11 DEF Step

\* No release() takes the kernel lock away under another acquisition of the same
\* process, whichever objects took and released in between.
THEOREM NeverDroppedUnder == Spec => []NotDroppedUnder
<1>1. Init => HeldAll
  <2> SUFFICES ASSUME Init, NEW p \in Everyone PROVE HeldInv(p)
    BY DEF HeldAll
  <2>1. /\ mine[p] = [x \in Objs |-> 0] /\ depth[p][Path(p)] = 0
        /\ op[p].at = "idle"
    BY DEF Init, Path, Files, Idle, Call
  <2>2. Tokens(mine[p]) = {}
    BY <2>1, NoTokens
  <2> QED
    BY <2>1, <2>2, FS_EmptySet DEF HeldInv
<1>2. IInv /\ HeldAll /\ [Next]_vars => HeldAll'
  <2> SUFFICES ASSUME IInv, HeldAll, [Next]_vars PROVE HeldAll'
    OBVIOUS
  <2>1. ASSUME NEW p \in Everyone, Step(p), NEW q \in Everyone PROVE HeldInv(q)'
    <3>1. CASE q = p
      BY <2>1, <3>1, OwnHeld DEF HeldAll
    <3>2. CASE q # p
      BY <2>1, <3>2, OthersKeep DEF HeldAll, HeldInv, IInv, Path
    <3> QED
      BY <3>1, <3>2
  <2>2. CASE UNCHANGED vars
    BY <2>2 DEF vars, HeldAll, HeldInv, Path
  <2> QED
    BY <2>1, <2>2 DEF HeldAll, Next, Step
<1>3. IInv /\ HeldAll => NotDroppedUnder
  <2> SUFFICES ASSUME IInv, HeldAll, NEW p \in Everyone, NEW x \in Objs, mine[p][x] > 0
               PROVE  kernel[Path(p)] = p
    BY DEF NotDroppedUnder
  <2>1. /\ HeldInv(p) /\ FileInv(p, Path(p)) /\ mine[p] \in [Objs -> Nat]
        /\ depth[p][Path(p)] \in Nat
    BY CallKnown, Counts DEF HeldAll, IInv, TypeOK
  <2>2. Tokens(mine[p]) # {}
    BY <2>1, NoTokens
  <2>3. Cardinality(Tokens(mine[p])) # 0
    BY <2>1, <2>2, FS_EmptySet DEF HeldInv
  <2>4. depth[p][Path(p)] > 0
    BY <2>1, <2>2, <2>3 DEF HeldInv
  <2> QED
    BY <2>1, <2>4 DEF FileInv
<1> QED
  BY <1>1, <1>2, <1>3, Invariance, PTL DEF Spec

=============================================================================
