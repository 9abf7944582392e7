---------------------------- MODULE StagingArea ----------------------------
(***************************************************************************)
(* What the candidate store promises its sessions: each command takes      *)
(* effect at one moment between being asked and being answered, on all     *)
(* that is staged at that moment, or fails and changes nothing             *)
(* (docstring of src/src/pyecsdwan/candidate.py).  A session that goes     *)
(* blind takes what is staged for nothing, and leaves only what it adds.   *)
(* Staging left by a build before #63 belongs to nobody until one          *)
(* Orchestrator's session adopts it; a session that dies while adopting    *)
(* may take it along.                                                      *)
(***************************************************************************)
EXTENDS StagedItems

CONSTANTS
  Sessions,  \* shells and scriptable commands
  Origins,   \* canonical Orchestrator origins that share one display host
  OriginOf,  \* the Orchestrator of each session
  Nothing    \* no command is asked

VARIABLES
  staged,  \* what is staged for each Orchestrator
  pool,    \* the staging of the old build nobody has adopted
  asked,   \* the command each session waits for
  blind    \* the sessions that do not see what is staged

vars == <<staged, pool, asked, blind>>

Init ==
  /\ staged = [o \in Origins |-> Empty]
  /\ pool \in {Empty, OldStaging}
  /\ asked = [s \in Sessions |-> Nothing]
  /\ blind = {}

Answered(s) ==
  /\ asked[s] # Nothing
  /\ asked' = [asked EXCEPT ![s] = Nothing] /\ blind' = blind \ {s}

Ask(s) ==
  /\ asked[s] = Nothing
  /\ asked'[s] \in Commands
  /\ asked' = [asked EXCEPT ![s] = asked'[s]]
  /\ UNCHANGED <<staged, pool, blind>>

GoBlind(s) ==
  /\ asked[s] # Nothing
  /\ blind' = blind \cup {s}
  /\ UNCHANGED <<staged, pool, asked>>

Perform(s) ==
  /\ Answered(s)
  /\ staged' = [staged EXCEPT ![OriginOf[s]] =
                   Apply(asked[s], IF s \in blind THEN Empty ELSE @, pool)]
  /\ pool' = IF asked[s] = Adopt THEN Empty ELSE pool

Fail(s) == Answered(s) /\ UNCHANGED <<staged, pool>>

Lose(s) == Answered(s) /\ asked[s] = Adopt /\ pool' = Empty /\ UNCHANGED staged

Next == \E s \in Sessions :
  Ask(s) \/ GoBlind(s) \/ Perform(s) \/ Fail(s) \/ Lose(s)

Spec == Init /\ [][Next]_vars

=============================================================================
