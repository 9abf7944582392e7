----------------------------- MODULE JobPoller -----------------------------
(***************************************************************************)
(* How an apply, and the revert that may follow it, learn whether the      *)
(* Orchestrator really did what it was asked (src/src/pyecsdwan/jobs.py,   *)
(* the callers in resources/, the attempts of client.py and retry.py).     *)
(*                                                                         *)
(* Two kinds of write.  An association of template groups is answered 204  *)
(* as a rule, and what became of its push is only in the action log, among *)
(* the pushes of other operators.  A configuration is written through the  *)
(* appliance proxy and has to be saved, by a job with a key or, off-spec,  *)
(* without one; then the inventory's flag is asked.                        *)
(*                                                                         *)
(* The action log, the appliance and the other operators are external.     *)
(* Clocks count ticks; a record's text is one of the shapes the poller     *)
(* tells apart.                                                            *)
(***************************************************************************)
EXTENDS Integers, FiniteSets

CONSTANTS
  Others,      \* pushes, or configuration writes, of other operators
  Tasks,       \* records of an action in the log
  Records,     \* which of them each action has
  Nobody,      \* no action: nothing was settled on
  Slack,       \* _WINDOW_SLACK_MS
  Timeout,     \* job_timeout
  MaxRetries,  \* max_retries
  Skews,       \* ticks the Orchestrator's clock may be ahead of ours
  MaxClock,    \* bound: ticks of our clock
  MaxFaults    \* bound: calls that fail

Ours    == {"apply", "revert"}
Actions == Ours \cup Others
Kinds   == {"association", "config"}

ASSUME JobPollerAssumption ==
  /\ Ours \cap Others = {} /\ Nobody \notin Actions
  /\ Records \in [Actions -> SUBSET Tasks]
  /\ Slack \in Nat /\ Timeout \in Nat /\ MaxRetries \in Nat
  /\ Skews \subseteq Int /\ MaxClock \in Nat /\ MaxFaults \in Nat

VARIABLES
  clock,    \* our clock
  kind,     \* the kind of resource that is written
  skew,     \* ticks the Orchestrator's clock is ahead of ours
  sent,     \* actions the Orchestrator has started
  start,    \* startTime of each of them
  rec,      \* their records in the log: "none" until the log shows it
  running,  \* configuration writes on the appliance
  saved,    \* those that survive a reboot
  call,     \* where the driver is
  result,   \* outcome of each of our writes
  settled,  \* the action that outcome was read from
  old,      \* history: actions in the log before each of our writes
  early,    \* history: those of them the Orchestrator stamped after our clock
  blind,    \* history: why a part of our own was not in sight when we settled
  landed,   \* how often each of our writes took effect
  faults    \* calls that failed

remote == <<sent, start, rec, running, saved>>
given  == <<kind, skew>>
past   == <<old, early>>
vars   == <<clock, given, remote, call, result, settled, past, blind, landed, faults>>

-----------------------------------------------------------------------------
(* at: idle; before, the log is read; write, the configuration is posted;  *)
(* post, the association or the save is posted; poll, the log or the key   *)
(* is polled; check, the inventory's flag is.                              *)

Steps == {"idle", "before", "write", "post", "poll", "check"}

Calls == [at : Steps, doing : Ours, tries : Nat, since : Nat,
          deadline : Nat, ignore : SUBSET Actions, keyed : BOOLEAN]

Results == {"none", "ok", "failed", "unknown", "unnamed", "timeout", "raised"}

\* The shapes of a record: finished well and naming the appliance (done), well
\* but naming none (bare), badly (failed), in a shape nobody knows (odd).
Good     == {"done", "bare"}
Finished == Good \cup {"failed", "odd"}
Shapes   == Finished \cup {"none", "flight"}

Init ==
  /\ clock = 0 /\ kind \in Kinds /\ skew \in Skews /\ faults = 0
  /\ sent = {} /\ start = [a \in Actions |-> 0]
  /\ rec = [a \in Actions |-> [t \in Tasks |-> "none"]]
  /\ running = {} /\ saved = {}
  /\ call = [at |-> "idle", doing |-> "apply", tries |-> 0, since |-> 0,
             deadline |-> 0, ignore |-> {}, keyed |-> FALSE]
  /\ result = [w \in Ours |-> "none"]
  /\ settled = [w \in Ours |-> Nobody]
  /\ old = [w \in Ours |-> {}] /\ early = [w \in Ours |-> {}]
  /\ blind = [w \in Ours |-> {}]
  /\ landed = [w \in Ours |-> 0]

-----------------------------------------------------------------------------
(* What is read from the log. *)

Listed(a) == {t \in Tasks : rec[a][t] # "none"}

\* _action_log_window: the window opens a little before the write and closes
\* now, by our clock, on start times of the Orchestrator's.
InWindow(a) == start[a] >= call.since - Slack /\ start[a] <= clock

ActionLogWindow == {a \in sent : Listed(a) # {} /\ InWindow(a)}

\* mutant: what was in the log before the write is counted too.
CandidatesOfAnyAge ==
  {a \in ActionLogWindow : start[a] >= call.since - Slack}

\* wait_for_recent_action: the groups left once the ones that were there are not
\* counted.
Candidates == {a \in ActionLogWindow \ call.ignore :
                 start[a] >= call.since - Slack}

\* wait_for_action: the key names the action.
Keyed == {a \in {call.doing} : Listed(a) # {}}

\* _record_finished of every record the log shows.
AllFinished(a) == \A t \in Listed(a) : rec[a][t] \in Finished

\* mutant: success is the absence of failure.
TerminalOutcomeByAbsence(a) ==
  IF \E t \in Listed(a) : rec[a][t] = "failed" THEN "failed" ELSE "ok"

\* mutant: the outcome is the shape of a record.
TerminalOutcomeByShape(a) ==
  IF \E t \in Listed(a) : rec[a][t] = "odd" THEN "odd" ELSE "ok"

\* _terminal_outcome, once they are.
TerminalOutcome(a) ==
  IF \E t \in Listed(a) : rec[a][t] = "failed" THEN "failed"
  ELSE IF \E t \in Listed(a) : rec[a][t] = "odd" THEN "unknown" ELSE "ok"

\* TemplateAssociation._confirmed: success has to name the appliance.  A save
\* is taken as it is.
Confirmed(a) ==
  IF /\ TerminalOutcome(a) = "ok" /\ kind = "association"
     /\ \A t \in Listed(a) : rec[a][t] # "done"
  THEN "unnamed" ELSE TerminalOutcome(a)

-----------------------------------------------------------------------------
(* Calls of the client. *)

\* mutant: a call without an answer is sent again, whatever it does.
AttemptsOfAnyCall(method) == MaxRetries + 1

\* retry.effective_policy and client.request: only a read is sent again.
Attempts(method) == IF method = "GET" THEN MaxRetries + 1 ELSE 1

Doing == call.doing

Goto(at) == call' = [call EXCEPT !.at = at, !.tries = 0]

End(r) ==
  /\ result' = [result EXCEPT ![Doing] = r]
  /\ call' = [call EXCEPT !.at = "idle", !.tries = 0]

\* The call failed, before or after it reached the Orchestrator: it is sent
\* again if it may be, or raises.
Fail(method) ==
  /\ faults < MaxFaults /\ faults' = faults + 1
  /\ IF call.tries + 1 < Attempts(method)
     THEN /\ call' = [call EXCEPT !.tries = @ + 1]
          /\ UNCHANGED result
     ELSE End("raised")

\* What our write does to the Orchestrator when it arrives.
Land ==
  /\ landed' = [landed EXCEPT ![Doing] = @ + 1]
  /\ sent' = sent \cup {Doing}
  /\ start' = [start EXCEPT ![Doing] = clock + skew]
  /\ UNCHANGED <<rec, running, saved>>

Write ==
  /\ running' = running \cup {Doing}
  /\ UNCHANGED <<sent, start, rec, saved, landed>>

-----------------------------------------------------------------------------
(* The driver. *)

\* apply, and the revert after whatever became of it.
Begin(w) ==
  /\ call.at = "idle" /\ result[w] = "none"
  /\ w = "revert" => result["apply"] # "none"
  /\ call' = [call EXCEPT !.at = IF kind = "config" THEN "write" ELSE "before",
                          !.doing = w, !.tries = 0, !.since = clock,
                          !.ignore = {}, !.keyed = FALSE]
  /\ UNCHANGED <<clock, given, remote, result, settled, past, blind, landed, faults>>

\* action_log_guids.
ReadBefore ==
  /\ call.at = "before"
  /\ call' = [call EXCEPT !.at = "post", !.tries = 0, !.ignore = ActionLogWindow]
  /\ old' = [old EXCEPT ![Doing] = {a \in sent : Listed(a) # {}}]
  /\ early' = [early EXCEPT ![Doing] = {a \in old'[Doing] : start[a] > clock}]
  /\ UNCHANGED <<clock, given, remote, result, settled, blind, landed, faults>>

Seen == IF call.keyed THEN Keyed ELSE Candidates

\* The deadline is looked at before each poll, not between its attempts.
Polling == call.at = "poll" /\ (clock < call.deadline \/ call.tries > 0)

\* A read that fails: of the log, of a key, of the inventory.
ReadFails ==
  /\ call.at \in {"before", "check"} \/ Polling
  /\ Fail("GET")
  /\ UNCHANGED <<clock, given, remote, settled, past, blind, landed>>

\* POST to the appliance proxy: it goes through, or its answer, or the call
\* itself, is lost.
WriteConfig ==
  /\ call.at = "write"
  /\ \/ Write /\ Goto("post") /\ UNCHANGED <<result, faults>>
     \/ Write /\ Fail("POST")
     \/ Fail("POST") /\ UNCHANGED <<remote, landed>>
  /\ UNCHANGED <<clock, given, settled, past, blind>>

\* POST of the association, or of the save.  An answer may carry a key; without
\* one a push is looked for in the log and a save is checked in the inventory.
Answered ==
  \E keyed \in BOOLEAN :
    /\ Land
    /\ call' = [call EXCEPT
         !.at = IF kind = "config" /\ ~keyed THEN "check" ELSE "poll",
         !.tries = 0, !.keyed = keyed, !.deadline = clock + Timeout]
    /\ UNCHANGED <<result, faults>>

Post ==
  /\ call.at = "post"
  /\ \/ Answered
     \/ Land /\ Fail("POST")
     \/ Fail("POST") /\ UNCHANGED <<remote, landed>>
  /\ UNCHANGED <<clock, given, settled, past, blind>>

\* What keeps our own action out of sight: the log has not yet all of it, or
\* its stamp is outside the window.
Blindness ==
  (IF Listed(Doing) # Records[Doing] THEN {"lag"} ELSE {})
    \cup (IF call.keyed \/ InWindow(Doing) THEN {} ELSE {"clock"})

\* One action is left: its outcome is ours, once it has one.
Settle ==
  /\ Polling
  /\ \E a \in Seen :
       /\ Seen = {a} /\ AllFinished(a)
       /\ settled' = [settled EXCEPT ![Doing] = a]
       /\ blind' = [blind EXCEPT ![Doing] = Blindness]
       /\ End(Confirmed(a))
  /\ UNCHANGED <<clock, given, remote, past, landed, faults>>

\* More than one is left: which is ours cannot be told.
Refuse ==
  /\ Polling
  /\ \E a, b \in Seen : a # b
  /\ End("unknown")
  /\ UNCHANGED <<clock, given, remote, settled, past, blind, landed, faults>>

\* Nothing yet, or not finished: the next poll is another call.
PollAgain ==
  /\ Polling /\ call.tries > 0
  /\ \/ Seen = {}
     \/ \E a \in Seen : Seen = {a} /\ ~AllFinished(a)
  /\ Goto("poll")
  /\ UNCHANGED <<clock, given, remote, result, settled, past, blind, landed, faults>>

PollTimesOut ==
  /\ call.at = "poll" /\ ~Polling
  /\ End("timeout")
  /\ UNCHANGED <<clock, given, remote, settled, past, blind, landed, faults>>

\* _verify_persisted: UNKNOWN when the flag cannot be told, and the deadline is
\* looked at after the flag.
CheckSaved ==
  /\ call.at = "check"
  /\ \/ End("unknown")
     \/ running \subseteq saved /\ End("ok")
     \/ ~(running \subseteq saved) /\ clock >= call.deadline /\ End("failed")
     \/ /\ ~(running \subseteq saved) /\ clock < call.deadline
        /\ call.tries > 0 /\ Goto("check") /\ UNCHANGED result
  /\ UNCHANGED <<clock, given, remote, settled, past, blind, landed, faults>>

-----------------------------------------------------------------------------
(* The Orchestrator, its log, and the others. *)

Tick ==
  /\ clock < MaxClock /\ clock' = clock + 1
  /\ UNCHANGED <<given, remote, call, result, settled, past, blind, landed, faults>>

OtherActs(o) ==
  /\ o \notin sent \cup running
  /\ IF kind = "association"
     THEN /\ sent' = sent \cup {o}
          /\ start' = [start EXCEPT ![o] = clock + skew]
          /\ UNCHANGED running
     ELSE running' = running \cup {o} /\ UNCHANGED <<sent, start>>
  /\ UNCHANGED <<clock, given, rec, saved, call, result, settled, past, blind,
                 landed, faults>>

\* The log shows a record, some time after the action started.
Lists(a, t) ==
  /\ a \in sent /\ t \in Records[a] /\ rec[a][t] = "none"
  /\ rec' = [rec EXCEPT ![a][t] = "flight"]
  /\ UNCHANGED <<clock, given, sent, start, running, saved, call, result, settled,
                 past, blind, landed, faults>>

\* A record finishes.  The last one of a save that went well has persisted the
\* configuration.
Finishes(a, t, shape) ==
  /\ rec[a][t] = "flight"
  /\ rec' = [rec EXCEPT ![a][t] = shape]
  /\ saved' = IF kind = "config" /\ \A u \in Records[a] : rec'[a][u] \in Good
              THEN running ELSE saved
  /\ UNCHANGED <<clock, given, sent, start, running, call, result, settled, past,
                 blind, landed, faults>>

Next ==
  \/ \E w \in Ours : Begin(w)
  \/ ReadBefore \/ ReadFails \/ WriteConfig \/ Post
  \/ Settle \/ Refuse \/ PollAgain \/ PollTimesOut \/ CheckSaved
  \/ Tick
  \/ \E o \in Others : OtherActs(o)
  \/ \E a \in Actions, t \in Tasks : Lists(a, t)
  \/ \E a \in Actions, t \in Tasks, s \in Finished : Finishes(a, t, s)

Spec == Init /\ [][Next]_vars

-----------------------------------------------------------------------------
(* Properties. *)

\* Type invariant.
TypeOK ==
  /\ clock \in Nat /\ kind \in Kinds /\ skew \in Skews /\ faults \in Nat
  /\ sent \subseteq Actions /\ start \in [Actions -> Int]
  /\ rec \in [Actions -> [Tasks -> Shapes]]
  /\ running \subseteq Actions /\ saved \subseteq running
  /\ call \in Calls
  /\ result \in [Ours -> Results]
  /\ settled \in [Ours -> Actions \cup {Nobody}]
  /\ old \in [Ours -> SUBSET Actions] /\ early \in [Ours -> SUBSET Actions]
  /\ blind \in [Ours -> SUBSET {"lag", "clock"}]
  /\ landed \in [Ours -> Nat]

\* A write that is reported done is done: every record of its own action finished
\* well, and a configuration has been saved.  There are two ways out.  The code
\* states the one (jobs.py, wait_for_recent_action): the log had not yet shown
\* all of our own action, so that a lone stranger, or a part of ours, was taken
\* for the whole.  The other needs clocks that disagree, the Orchestrator's ahead
\* of ours or more than the slack behind: our own action is in the log and its
\* stamp is outside the window, so that a stranger's, or for a revert the apply's,
\* is alone in it.
ConfirmedIsTrue ==
  \A w \in Ours : result[w] = "ok" =>
    \/ "lag" \in blind[w]
    \/ "clock" \in blind[w] /\ skew \notin -Slack .. 0
    \/ kind = "association" /\ \A t \in Records[w] : rec[w][t] \in Good
    \/ kind = "config" /\ w \in saved

\* What the log showed before a write is not taken for that write: a revert does
\* not settle on the apply it undoes, nor on anybody's earlier push
\* (action_log_guids).  That does not hold "whichever way the two clocks
\* disagree" (jobs.py:373-376): the window read before the write closes by our
\* clock, and what the Orchestrator, its clock ahead, had stamped after that is
\* not among the guids to ignore.
NeverThePast ==
  \A w \in Ours : settled[w] \in old[w] => settled[w] \in early[w] /\ skew > 0

\* No push and no save takes effect twice, whatever answer is lost (client.py).
LandsOnce == \A w \in Ours : landed[w] <= 1
=============================================================================
