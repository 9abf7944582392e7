----------------------------- MODULE KeyRotation -----------------------------
(***************************************************************************)
(* The envelope key that seals secrets on disk, and its rotation           *)
(* (src/src/pyecsdwan/vault.py), while sessions save candidate stores and  *)
(* commits append snapshots to the private files of their journals.        *)
(*                                                                         *)
(* A secret on disk is known by the key it is sealed under; one that would *)
(* not open under any key makes its reader refuse.  A file is replaced in  *)
(* one step.  A rotation looks the keys up again for each secret it seals; *)
(* the lookups of one save are taken as one.  The key comes from the       *)
(* keyring: with the key in the environment there is no rotation.          *)
(* Rotations take no lock of their own, so several may run at once.        *)
(***************************************************************************)
EXTENDS Naturals

CONSTANTS
  Stores,    \* candidate files, replaced under their candidate lock
  Journals,  \* private files of journals, each written by one commit
  Refs,      \* resources: a file has at most one secret for each
  Sessions,  \* processes that stage and commit
  Rotators,  \* processes that rotate the key
  NoOne,     \* holder of a free lock
  NoFile,    \* a process works on no file
  MaxKeys,   \* bound: keys ever made
  MaxAsks,   \* bound: stagings and snapshots
  MaxRuns    \* bound: rotations

Files == Stores \cup Journals

ASSUME KeyRotationAssumption ==
  /\ Stores \cap Journals = {} /\ NoFile \notin Files
  /\ NoOne \notin Sessions
  /\ MaxKeys \in Nat /\ MaxAsks \in Nat /\ MaxRuns \in Nat

VARIABLES
  current,   \* keyring entry envelope-key
  previous,  \* keyring entry envelope-key-previous
  made,      \* how many keys there have been: each is new
  disk,      \* the key each secret of each file is sealed under
  lock,      \* the candidate lock of a store, the commit of a journal
  proc,      \* the sessions
  rot,       \* the rotations
  wanted,    \* history: the secrets its writers left in each file
  exposed,   \* history: files a session wrote while a rotation ran
  stranded,  \* history: files passed over by a rotation that forgot their key
  crossed,   \* history: rotations that ran at the same time as another
  ousted,    \* history: keys replaced by a session that saw none
  lost,      \* history: keys taken off the ring by a crossed rotation
  half,      \* history: keys kept by a rotation that made no new one
  left       \* what remains of the bounds on asks and runs

vars == <<current, previous, made, disk, lock, proc, rot, wanted, exposed,
          stranded, crossed, ousted, lost, half, left>>

ring    == <<current, previous, made>>
history == <<exposed, stranded, crossed, ousted, lost, half, left>>

-----------------------------------------------------------------------------

NoKey == 0
Keys  == Nat \ {NoKey}

Contents    == [Refs -> Nat]     \* NoKey: the file has no such secret
Blank       == [r \in Refs |-> NoKey]
In(c)       == {r \in Refs : c[r] # NoKey}
Under(k, s) == [r \in Refs |-> IF r \in s THEN k ELSE NoKey]

\* The keys a blob is tried with, and whether all of a file opens.
Openers  == {current, previous} \ {NoKey}
Opens(c) == \A r \in In(c) : c[r] \in Openers

\* A session seals what it will write under a key it looked up before.
Procs == [pc : {"off", "seal", "create", "write"}, file : Files \cup {NoFile},
          put : SUBSET Refs, key : Nat]
Off == [pc |-> "off", file |-> NoFile, put |-> {}, key |-> NoKey]

\* todo: the files of this walk still to be read; missed: those passed over;
\* copy: the file that was read, of which the secrets in raw are still to be
\* opened and sealed again.
Rotations == [pc : {"off", "look", "keep", "renew", "stores", "journals"},
              old : Nat, todo : SUBSET Files, missed : SUBSET Files,
              file : Files \cup {NoFile}, copy : Contents, raw : SUBSET Refs]
NoRotation == [pc |-> "off", old |-> NoKey, todo |-> {}, missed |-> {},
               file |-> NoFile, copy |-> Blank, raw |-> {}]

Running == {p \in Rotators : rot[p].pc # "off"}
Spends(bound) == left[bound] > 0 /\ left' = [left EXCEPT ![bound] = @ - 1]

Writing == {proc[s].file : s \in Sessions} \ {NoFile}

Init ==
  /\ current = NoKey /\ previous = NoKey /\ made = 0
  /\ disk = [f \in Files |-> Blank]
  /\ lock = [f \in Files |-> NoOne]
  /\ proc = [s \in Sessions |-> Off]
  /\ rot = [p \in Rotators |-> NoRotation]
  /\ wanted = [f \in Files |-> {}]
  /\ exposed = {} /\ stranded = {} /\ crossed = {}
  /\ ousted = {} /\ lost = {} /\ half = {}
  /\ left = [asks |-> MaxAsks, runs |-> MaxRuns]

-----------------------------------------------------------------------------
(* Sessions.                                                               *)

Takes(s, f, put) ==
  /\ proc[s].pc = "off" /\ lock[f] = NoOne
  /\ Spends("asks")
  /\ lock' = [lock EXCEPT ![f] = s]
  /\ proc' = [proc EXCEPT ![s] =
       [pc |-> IF put = {} THEN "write" ELSE "seal", file |-> f, put |-> put,
        key |-> NoKey]]
  /\ exposed' = IF Running = {} THEN exposed ELSE exposed \cup {f}
  /\ UNCHANGED <<ring, disk, rot, wanted, stranded, crossed, ousted, lost, half>>

\* Under its lock a store is read, which opens it, changed, and sealed anew.
Stage(s, f) == /\ Opens(disk[f])
               /\ \E put \in SUBSET Refs : Takes(s, f, put)

\* A commit seals one snapshot.
Snapshot(s, f) == \E r \in Refs \ In(disk[f]) : Takes(s, f, {r})

FindKey(s) ==
  /\ proc[s].pc = "seal"
  /\ proc' = [proc EXCEPT
       ![s].pc  = IF current = NoKey THEN "create" ELSE "write",
       ![s].key = current]
  /\ UNCHANGED <<ring, disk, lock, rot, wanted, history>>

\* Whatever is there by now.
CreateKey(s) ==
  /\ proc[s].pc = "create" /\ made < MaxKeys
  /\ made' = made + 1 /\ current' = made'
  /\ ousted' = ousted \cup ({current} \ {NoKey})
  /\ proc' = [proc EXCEPT ![s].pc = "write", ![s].key = made']
  /\ UNCHANGED <<previous, disk, lock, rot, wanted, exposed, stranded, crossed,
                 lost, half, left>>

Leave(s) == /\ lock' = [f \in Files |-> IF lock[f] = s THEN NoOne ELSE lock[f]]
            /\ proc' = [proc EXCEPT ![s] = Off]

\* A store is replaced, a record is appended.
Write(s) ==
  LET p == proc[s]
      f == p.file
      new == IF f \in Stores THEN Under(p.key, p.put)
             ELSE [r \in Refs |-> IF r \in p.put THEN p.key ELSE disk[f][r]]
  IN  /\ p.pc = "write"
      /\ disk' = [disk EXCEPT ![f] = new]
      /\ wanted' = [wanted EXCEPT ![f] = IF f \in Stores THEN p.put
                                         ELSE @ \cup p.put]
      /\ Leave(s)
      /\ UNCHANGED <<ring, rot, history>>

\* It dies, or has no keyring or no disk.
GiveUp(s) ==
  /\ proc[s].pc # "off"
  /\ Leave(s)
  /\ UNCHANGED <<ring, disk, rot, wanted, history>>

-----------------------------------------------------------------------------
(* rotate_key.                                                             *)

\* The files a walk finds: at least those that have something in them.
Found(files) == {t \in SUBSET files : \A f \in files \ t : disk[f] = Blank}

Turns(p, rotation) == rot' = [rot EXCEPT ![p] = rotation]

\* Keys this step of a rotation takes off the ring, if another runs beside it.
Drops(p) == lost' = IF p \in crossed THEN lost \cup (Openers \ Openers') ELSE lost

Begins(p) ==
  /\ rot[p].pc = "off" /\ Spends("runs")
  /\ Turns(p, [rot[p] EXCEPT !.pc = "look", !.old = current])
  /\ exposed' = exposed \cup Writing
  /\ crossed' = IF Running = {} THEN crossed \ {p}
                ELSE crossed \cup Running \cup {p}
  /\ UNCHANGED <<ring, disk, lock, proc, wanted, stranded, ousted, lost, half>>

RotBegin_AnyKey(p) == Begins(p)   \* mutant: also when no key is stored

RotBegin(p) == current # NoKey /\ Begins(p)

Look_KeepsAgain(p) ==   \* mutant: a left-over entry is written over
  /\ rot[p].pc = "look"
  /\ Turns(p, [rot[p] EXCEPT !.pc = "keep"])
  /\ UNCHANGED <<ring, disk, lock, proc, wanted, history>>

\* An entry left in the previous slot means an interrupted rotation, or one
\* that is under way.
Look(p) ==
  /\ rot[p].pc = "look"
  /\ IF previous = NoKey
     THEN Turns(p, [rot[p] EXCEPT !.pc = "keep"])
     ELSE \E t \in Found(Stores) :
            Turns(p, [rot[p] EXCEPT !.pc = "stores", !.todo = t, !.old = NoKey])
  /\ UNCHANGED <<ring, disk, lock, proc, wanted, history>>

KeepOld(p) ==
  /\ rot[p].pc = "keep"
  /\ previous' = rot[p].old
  /\ Turns(p, [rot[p] EXCEPT !.pc = "renew", !.old = NoKey])
  /\ UNCHANGED <<current, made, disk, lock, proc, wanted, exposed, stranded,
                 crossed, ousted, half, left>>
  /\ Drops(p)

NewKey_IfNone(p) ==   \* mutant: load_keys(create=True) finds the old one
  /\ rot[p].pc = "renew"
  /\ \E t \in Found(Stores) :
       Turns(p, [rot[p] EXCEPT !.pc = "stores", !.todo = t])
  /\ UNCHANGED <<ring, disk, lock, proc, wanted, history>>

NewKey(p) ==
  /\ rot[p].pc = "renew" /\ made < MaxKeys
  /\ made' = made + 1 /\ current' = made'
  /\ \E t \in Found(Stores) :
       Turns(p, [rot[p] EXCEPT !.pc = "stores", !.todo = t])
  /\ UNCHANGED <<previous, disk, lock, proc, wanted, exposed, stranded, crossed,
                 ousted, half, left>>
  /\ Drops(p)

Read_OldOnly(p, f) ==   \* mutant: what is under the new key already is dropped
  /\ rot[p].file = NoFile /\ f \in rot[p].todo
  /\ LET old == {r \in In(disk[f]) : disk[f][r] = previous}
     IN  Turns(p, IF old = {} THEN [rot[p] EXCEPT !.todo = @ \ {f}]
                  ELSE [rot[p] EXCEPT !.file = f, !.copy = Under(previous, old),
                                      !.raw = old])
  /\ UNCHANGED <<ring, disk, lock, proc, wanted, history>>

\* A file is read; no lock is held.
Read(p, f) ==
  /\ rot[p].file = NoFile /\ f \in rot[p].todo
  /\ Turns(p, IF disk[f] = Blank THEN [rot[p] EXCEPT !.todo = @ \ {f}]
              ELSE [rot[p] EXCEPT !.file = f, !.copy = disk[f], !.raw = In(disk[f])])
  /\ UNCHANGED <<ring, disk, lock, proc, wanted, history>>

\* It cannot be read: the walk goes on to the next one.
PassOver(p, f) ==
  /\ rot[p].file = NoFile /\ f \in rot[p].todo /\ disk[f] # Blank
  /\ Turns(p, [rot[p] EXCEPT !.todo = @ \ {f}, !.missed = @ \cup {f}])
  /\ UNCHANGED <<ring, disk, lock, proc, wanted, history>>

\* One secret of it is opened and sealed under what is the current key by now.
Reseal(p, r) ==
  /\ r \in rot[p].raw /\ rot[p].copy[r] \in Openers
  /\ Turns(p, [rot[p] EXCEPT !.copy[r] = current, !.raw = @ \ {r}])
  /\ UNCHANGED <<ring, disk, lock, proc, wanted, history>>

\* A store is replaced under its lock, a private file at once.
Rewrite(p, f) ==
  /\ rot[p].file = f /\ rot[p].raw = {} /\ (f \in Stores => lock[f] = NoOne)
  /\ disk' = [disk EXCEPT ![f] = rot[p].copy]
  /\ Turns(p, [rot[p] EXCEPT !.todo = @ \ {f}, !.file = NoFile, !.copy = Blank])
  /\ UNCHANGED <<ring, lock, proc, wanted, history>>

WalkJournals(p) ==
  /\ rot[p].pc = "stores" /\ rot[p].todo = {}
  /\ \E t \in Found(Journals) :
       Turns(p, [rot[p] EXCEPT !.pc = "journals", !.todo = t])
  /\ UNCHANGED <<ring, disk, lock, proc, wanted, history>>

\* A failure to delete the entry is ignored, and so are the files passed over.
Forget(p) ==
  /\ rot[p].pc = "journals" /\ rot[p].todo = {}
  /\ previous' \in {NoKey, previous}
  /\ stranded' = IF previous' = NoKey THEN stranded \cup rot[p].missed ELSE stranded
  /\ Turns(p, NoRotation)
  /\ UNCHANGED <<current, made, disk, lock, proc, wanted, exposed, crossed,
                 ousted, half, left>>
  /\ Drops(p)

Stops(p) ==
  /\ Turns(p, NoRotation)
  /\ half' = IF rot[p].pc = "renew" THEN half \cup ({previous} \ {NoKey}) ELSE half
  /\ UNCHANGED <<ring, disk, lock, proc, wanted, exposed, stranded, crossed,
                 ousted, lost, left>>

\* It dies, the keyring refuses, or a store's lock is held for too long.
Interrupt(p) == p \in Running /\ Stops(p)

\* A secret does not open.
Refuse(p, r) == r \in rot[p].raw /\ rot[p].copy[r] \notin Openers /\ Stops(p)

Next ==
  \/ \E s \in Sessions :
       \/ \E f \in Stores : Stage(s, f)
       \/ \E f \in Journals : Snapshot(s, f)
       \/ FindKey(s) \/ CreateKey(s) \/ Write(s) \/ GiveUp(s)
  \/ \E p \in Rotators :
       \/ RotBegin(p) \/ Look(p) \/ KeepOld(p) \/ NewKey(p)
       \/ \E f \in Files : Read(p, f) \/ PassOver(p, f) \/ Rewrite(p, f)
       \/ \E r \in Refs : Reseal(p, r) \/ Refuse(p, r)
       \/ WalkJournals(p) \/ Forget(p) \/ Interrupt(p)

Spec == Init /\ [][Next]_vars

-----------------------------------------------------------------------------
(* Properties.                                                             *)

\* The state variables hold what they are meant to hold.
TypeOK ==
  /\ current \in Nat /\ previous \in Nat /\ made \in Nat
  /\ disk \in [Files -> Contents]
  /\ lock \in [Files -> Sessions \cup {NoOne}]
  /\ proc \in [Sessions -> Procs]
  /\ rot \in [Rotators -> Rotations]
  /\ \A p \in Rotators : rot[p].pc \in {"look", "keep"} => rot[p].old \in Keys
  /\ wanted \in [Files -> SUBSET Refs]
  /\ exposed \subseteq Files /\ stranded \subseteq Files
  /\ crossed \subseteq Rotators
  /\ ousted \subseteq Keys /\ lost \subseteq Keys /\ half \subseteq Keys
  /\ left \in [{"asks", "runs"} -> Nat]

\* At every point of a rotation, of one that was interrupted, and of its
\* re-run, every secret on disk opens (rotate_key).  The code does not keep
\* all of that promise: what escapes is a file that a session wrote while a
\* rotation ran, one that a rotation could not read before it deleted the key,
\* a key one session put over another's first key, and a key that one of two
\* rotations running at once took off the ring.
EveryBlobOpens ==
  \A f \in Files \ (exposed \cup stranded) : \A r \in In(disk[f]) :
    disk[f][r] \in Openers \cup ousted \cup lost

\* No rotation takes a secret out of a file, or puts one back that is gone,
\* unless a session wrote the file while a rotation ran.  It takes no
\* exception for what a rotation could not read, nor for two at once.
NothingIsLost == \A f \in Files \ exposed : In(disk[f]) = wanted[f]

\* A rotation that ends has retired the key it found ("Retire the keyring
\* envelope key ... under a new one"), unless it finished one that had been
\* interrupted between keeping the old key and storing the new one, or one
\* that was still at work there.
OldKeyRetired ==
  [][previous' = NoKey => \/ previous \in {NoKey} \cup half
                          \/ previous # current
                          \/ \E p \in Rotators : rot[p].pc = "renew"]_vars

=============================================================================
