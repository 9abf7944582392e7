--------------------------- MODULE CandidateStore ---------------------------
(***************************************************************************)
(* The candidate stores of the Orchestrators that share one display host   *)
(* (src/src/pyecsdwan/candidate.py), and the sessions that stage in them,  *)
(* discard, adopt what a build before #63 left under the display host, and *)
(* commit (commit_candidate in txn.py).  A shell keeps its view of the     *)
(* store from one command to the next; a scriptable command is a session   *)
(* that ends after one.                                                    *)
(*                                                                         *)
(* A file is replaced in one step.  The locks are mutexes that a death     *)
(* releases, which HostLock shows of them.  What a commit does to the      *)
(* Orchestrator is CommitProtocol's: here it succeeds or fails.  A store   *)
(* that cannot be read passes for an empty one.  Files that are corrupt or *)
(* of other formats make their reader refuse, and are left out.            *)
(***************************************************************************)
EXTENDS StagedItems, Naturals

CONSTANTS
  Sessions,   \* shells and scriptable commands
  Origins,    \* canonical Orchestrator origins that share one display host
  OriginOf,   \* the Orchestrator of each session
  Nothing,    \* no command is under way
  NoOne,      \* holder of a free lock
  Missing,    \* there is no store file
  MaxAsks,    \* bound: commands and commits
  MaxCrashes, \* bound: sessions that die in the middle of a command
  MaxFaults,  \* bound: saves that fail
  MaxUnread   \* bound: reads of a store that fail

ASSUME CandidateStoreAssumption ==
  /\ OriginOf \in [Sessions -> Origins]
  /\ NoOne \notin Sessions
  /\ Nothing \notin Commands /\ Missing \notin Stagings
  /\ MaxAsks \in Nat /\ MaxCrashes \in Nat /\ MaxFaults \in Nat /\ MaxUnread \in Nat

VARIABLES
  file,    \* <origin slug>.json of each origin
  legacy,  \* whether <display host>.json, the old build's file, is there
  lock,    \* the candidate lock of each origin
  claim,   \* the candidate-legacy lock of the display host
  proc,    \* the sessions
  saved,   \* history: the items each store file ever held
  applied, \* history: the items the commits for each origin applied
  left     \* what remains of each bound

vars == <<file, legacy, lock, claim, proc, saved, applied, left>>

-----------------------------------------------------------------------------
(* pc: off; idle, between two commands; commit, between planning and the   *)
(* end of the transaction; claim and lock, waiting for a lock; loaded, the *)
(* view was re-read under the lock; read and unlinked, adopting.           *)
(* blind, a history: the store was there and could not be read.            *)

Pcs == {"off", "idle", "commit", "claim", "lock", "loaded", "read", "unlinked"}

Procs == [pc : Pcs, cmd : Commands \cup {Nothing}, view : Stagings,
          unadopted : BOOLEAN, blind : BOOLEAN]

Off == [pc |-> "off", cmd |-> Nothing, view |-> Empty, unadopted |-> FALSE,
        blind |-> FALSE]

At(s, pc)       == proc[s].pc = pc
Becomes(s, p)   == proc' = [proc EXCEPT ![s] = p]
Goes(s, pc)     == proc' = [proc EXCEPT ![s].pc = pc]
Spends(bound)   == left[bound] > 0 /\ left' = [left EXCEPT ![bound] = @ - 1]
Content(o)      == IF file[o] = Missing THEN Empty ELSE file[o]
Pairs(staging)  == {<<r, staging[r]>> : r \in Refs} \ {<<r, NoItem>> : r \in Refs}

\* A session reads its view, and whether there is staging it will not claim.
\* When the read fails it returns with the view it began with, which is empty.
Load(s, pc, cmd) ==
  LET o == OriginOf[s]
      p == [pc |-> pc, cmd |-> cmd, view |-> Content(o),
            unadopted |-> file[o] = Missing /\ legacy, blind |-> FALSE]
  IN  \/ Becomes(s, p) /\ UNCHANGED left
      \/ /\ file[o] # Missing /\ Spends("unread")
         /\ Becomes(s, [p EXCEPT !.view = Empty, !.blind = TRUE])

Init ==
  /\ file = [o \in Origins |-> Missing]
  /\ legacy \in BOOLEAN
  /\ lock = [o \in Origins |-> NoOne]
  /\ claim = NoOne
  /\ proc = [s \in Sessions |-> Off]
  /\ saved = [o \in Origins |-> {}]
  /\ applied = [o \in Origins |-> {}]
  /\ left = [asks |-> MaxAsks, crashes |-> MaxCrashes, faults |-> MaxFaults,
             unread |-> MaxUnread]

-----------------------------------------------------------------------------
(* A session begins, ends, and asks for a command.                         *)

Start(s) ==
  /\ At(s, "off")
  /\ Load(s, "idle", Nothing)
  /\ UNCHANGED <<file, legacy, lock, claim, saved, applied>>

Quit(s) ==
  /\ At(s, "idle")
  /\ Becomes(s, Off)
  /\ UNCHANGED <<file, legacy, lock, claim, saved, applied, left>>

Ask(s) ==
  /\ At(s, "idle") /\ Spends("asks")
  /\ \E c \in Edits \cup {Discard} :
       proc' = [proc EXCEPT ![s].pc = "lock", ![s].cmd = c]
  /\ UNCHANGED <<file, legacy, lock, claim, saved, applied>>

\* Decided on what the session saw when it last read the store.
AskAdopt(s) ==
  /\ At(s, "idle") /\ proc[s].unadopted /\ Spends("asks")
  /\ proc' = [proc EXCEPT ![s].pc = "claim", ![s].cmd = Adopt]
  /\ UNCHANGED <<file, legacy, lock, claim, saved, applied>>

-----------------------------------------------------------------------------
(* The cycle of a mutation: lock, re-read, change, save.                   *)

TakeClaim_OwnOrigin(s) ==   \* mutant: the lock is one per origin, as the other is
  /\ At(s, "claim")
  /\ Goes(s, "lock")
  /\ UNCHANGED <<file, legacy, lock, claim, saved, applied, left>>

TakeClaim(s) ==
  /\ At(s, "claim") /\ claim = NoOne
  /\ claim' = s
  /\ Goes(s, "lock")
  /\ UNCHANGED <<file, legacy, lock, saved, applied, left>>

TakeLock_KeepsView(s) ==   \* mutant: only the write is locked
  /\ At(s, "lock") /\ lock[OriginOf[s]] = NoOne
  /\ lock' = [lock EXCEPT ![OriginOf[s]] = s]
  /\ Goes(s, "loaded")
  /\ UNCHANGED <<file, legacy, claim, saved, applied, left>>

TakeLock(s) ==
  /\ At(s, "lock") /\ lock[OriginOf[s]] = NoOne
  /\ lock' = [lock EXCEPT ![OriginOf[s]] = s]
  /\ Load(s, "loaded", proc[s].cmd)
  /\ UNCHANGED <<file, legacy, claim, saved, applied>>

Release(s) ==
  /\ lock' = [o \in Origins |-> IF lock[o] = s THEN NoOne ELSE lock[o]]
  /\ claim' = IF claim = s THEN NoOne ELSE claim

\* Somebody else held the lock for as long as this session would wait.
Busy(s) ==
  /\ \/ At(s, "claim") /\ claim # NoOne
     \/ At(s, "lock") /\ lock[OriginOf[s]] # NoOne
  /\ Release(s)
  /\ proc' = [proc EXCEPT ![s].pc = "idle", ![s].cmd = Nothing]
  /\ UNCHANGED <<file, legacy, saved, applied, left>>

\* Adopting: nobody of another origin came first.
ReadLegacy(s) ==
  /\ At(s, "loaded") /\ proc[s].cmd = Adopt /\ legacy
  /\ proc' = [proc EXCEPT ![s].pc = "read",
                          ![s].view = Apply(Adopt, @, OldStaging)]
  /\ UNCHANGED <<file, legacy, lock, claim, saved, applied, left>>

Unlink(s) ==
  /\ At(s, "read")
  /\ legacy' = FALSE
  /\ proc' = [proc EXCEPT ![s].pc = "unlinked", ![s].unadopted = FALSE]
  /\ UNCHANGED <<file, lock, claim, saved, applied, left>>

\* The view is changed and ready to be saved; an adoption that found nothing
\* saves what it read.
Ready(s) == \/ At(s, "unlinked")
            \/ At(s, "loaded") /\ ~(proc[s].cmd = Adopt /\ legacy)

Changed(s) == IF At(s, "unlinked") THEN proc[s].view
              ELSE Apply(proc[s].cmd, proc[s].view, Empty)

Return(s) ==
  /\ Ready(s)
  /\ Release(s)
  /\ proc' = [proc EXCEPT ![s].pc = "idle", ![s].cmd = Nothing,
                          ![s].view = Changed(s)]

Save(s) ==
  LET o == OriginOf[s]
  IN  /\ Return(s)
      /\ file' = [file EXCEPT ![o] = Changed(s)]
      /\ saved' = [saved EXCEPT ![o] = @ \cup Pairs(Changed(s))]
      /\ UNCHANGED <<legacy, applied, left>>

\* No envelope key for a secret, or no disk: the file stays, the view does not.
SaveFails(s) ==
  /\ Return(s) /\ Spends("faults")
  /\ UNCHANGED <<file, legacy, saved, applied>>

-----------------------------------------------------------------------------
(* A commit applies the session's view, read by whichever command it ran   *)
(* last, and then acknowledges exactly that.                               *)

Commit(s) ==
  /\ At(s, "idle") /\ proc[s].view # Empty /\ Spends("asks")
  /\ proc' = [proc EXCEPT ![s].pc = "commit", ![s].cmd = Ack(proc[s].view)]
  /\ UNCHANGED <<file, legacy, lock, claim, saved, applied>>

CommitSucceeds(s) ==
  LET o == OriginOf[s]
  IN  /\ At(s, "commit")
      /\ Goes(s, "lock")
      /\ applied' = [applied EXCEPT ![o] = @ \cup Pairs(proc[s].cmd.plan)]
      /\ UNCHANGED <<file, legacy, lock, claim, saved, left>>

\* Refused, or restored: nothing is acknowledged.
CommitFails(s) ==
  /\ At(s, "commit")
  /\ proc' = [proc EXCEPT ![s].pc = "idle", ![s].cmd = Nothing]
  /\ UNCHANGED <<file, legacy, lock, claim, saved, applied, left>>

Crash(s) ==
  /\ proc[s].pc \notin {"off", "idle"} /\ Spends("crashes")
  /\ Release(s)
  /\ Becomes(s, Off)
  /\ UNCHANGED <<file, legacy, saved, applied>>

Next == \E s \in Sessions :
  \/ Start(s) \/ Quit(s) \/ Ask(s) \/ AskAdopt(s)
  \/ TakeClaim(s) \/ TakeLock(s) \/ Busy(s)
  \/ ReadLegacy(s) \/ Unlink(s) \/ Save(s) \/ SaveFails(s)
  \/ Commit(s) \/ CommitSucceeds(s) \/ CommitFails(s) \/ Crash(s)

Spec == Init /\ [][Next]_vars

-----------------------------------------------------------------------------
(* Properties.                                                             *)

\* The state variables hold what they are meant to hold.
TypeOK ==
  /\ file \in [Origins -> Stagings \cup {Missing}]
  /\ legacy \in BOOLEAN
  /\ lock \in [Origins -> Sessions \cup {NoOne}]
  /\ claim \in Sessions \cup {NoOne}
  /\ proc \in [Sessions -> Procs]
  /\ saved \in [Origins -> SUBSET (Refs \X Items)]
  /\ applied \in [Origins -> SUBSET (Refs \X Items)]
  /\ left \in [{"asks", "crashes", "faults", "unread"} -> Nat]

\* An adoption has taken the old build's file and not yet saved it.
InHand == \E s \in Sessions : At(s, "unlinked")

Area == INSTANCE StagingArea WITH
  staged <- [o \in Origins |-> Content(o)],
  pool   <- IF legacy \/ InHand THEN OldStaging ELSE Empty,
  asked  <- [s \in Sessions |-> IF proc[s].pc \in {"off", "idle", "commit"}
                                THEN Nothing ELSE proc[s].cmd],
  blind  <- {s \in Sessions : proc[s].blind /\ lock[OriginOf[s]] = s}

\* Every command takes effect at one moment, on all that is staged at that
\* moment, or not at all: no session's change is lost under another's, whatever
\* their views and however they interleave, fail and die (_mutate).  The one
\* that could not read the store under its lock takes effect on nothing.
KeepsStagingArea == Area!Spec

\* The sessions that changed the item of r for origin o on purpose.
AskedFor(o, r) == \E s \in Sessions :
  /\ lock[o] = s /\ OriginOf[s] = o
  /\ \/ proc[s].cmd = Discard
     \/ proc[s].cmd \in Edits /\ proc[s].cmd.ref = r
     \/ proc[s].cmd = Adopt /\ r \in OldRefs

\* An item leaves the store, or changes, only because a command asked for that
\* or because a commit has applied it as it stands: what is staged or changed
\* while a commit runs survives its acknowledgement (clear_committed).  The
\* exception is what a session that could not read the store saves over it: a
\* file that is there reads as empty (`except OSError: return` in _load), which
\* the comment under that line says of a corrupt one it must not.
NothingVanishes ==
  [][\A o \in Origins, r \in Refs :
       LET i == Content(o)[r]
       IN  i \notin {NoItem, Content(o)'[r]}
             => \/ <<r, i>> \in applied[o] \/ AskedFor(o, r)
                \/ \E s \in Sessions : lock[o] = s /\ proc[s].blind]_vars

HasOld(pairs) == \E p \in pairs : Old \in p[2].set

\* What the old build staged never gets into the stores of two Orchestrators,
\* even if the first has committed it by then (adopt_legacy).
LegacyGoesToOne ==
  \A o, q \in Origins : HasOld(saved[o]) /\ HasOld(saved[q]) => o = q

=============================================================================
