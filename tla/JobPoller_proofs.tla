-------------------------- MODULE JobPoller_proofs --------------------------
(***************************************************************************)
(* Proofs about JobPoller for any other operators, records, faults, slack, *)
(* timeout and number of attempts, and however far apart the clocks are:   *)
(*                                                                         *)
(*   TypeCorrect      Spec => []TypeOK                                     *)
(*   WritesLandOnce   Spec => []LandsOnce                                  *)
(*   PastIsIgnored    Spec => []NeverThePast                               *)
(*   OkIsTrue         Spec => []ConfirmedIsTrue                            *)
(*                                                                         *)
(* The inductive invariant IInv says what the driver may rely on at each   *)
(* point (DriverInv), what the log shows (LogInv), what is known of a      *)
(* configuration (ConfigInv), when actions have started (StartInv), what   *)
(* of the past the correlation leaves out (IgnoreInv) and what of it was   *)
(* stamped after our clock (EarlyInv).                                     *)
(***************************************************************************)
EXTENDS JobPoller, TLAPS

NotAhead    == skew <= 0
ClocksAgree == skew \in -Slack .. 0

\* Only what has started is in the log, under its own records.
LogInv == \A a \in Actions, t \in Tasks :
            rec[a][t] # "none" => a \in sent /\ t \in Records[a]

\* A write not yet posted is unknown to the Orchestrator and nothing is settled.
Waiting(w) == result[w] = "none" /\ ~(Doing = w /\ call.at \in {"poll", "check"})

DriverInv ==
  /\ call.at # "idle" => result[Doing] = "none"
  /\ call.at \in {"poll", "check"} => Doing \in sent
  /\ call.since <= clock
  /\ \A w \in Ours : /\ Waiting(w) => w \notin sent /\ landed[w] = 0
                     /\ result[w] = "none" => settled[w] = Nobody
                     /\ old[w] \subseteq sent
  /\ call.at \in {"write", "post", "poll"} => Doing \notin old[Doing] \cup call.ignore

AllGood(w) == Records[w] # {} /\ \A t \in Records[w] : rec[w][t] \in Good

ConfigInv ==
  /\ kind = "association" => call.at \notin {"write", "check"}
  /\ kind = "config" =>
       /\ call.at # "before"
       /\ call.at = "poll" => call.keyed
       /\ call.at \in {"post", "poll", "check"} => Doing \in running
       /\ sent \subseteq running
       /\ \A w \in Ours : old[w] = {}
       /\ \A a \in sent : AllGood(a) => a \in saved

StartInv ==
  /\ NotAhead => \A a \in sent : start[a] <= clock
  /\ ClocksAgree /\ call.at = "poll" => start[Doing] >= call.since - Slack

\* What was in the log before is left out by name or for its age.
IgnoreInv ==
  call.at \in {"post", "poll"} =>
    \A p \in old[Doing] : \/ p \in call.ignore
                          \/ start[p] < call.since - Slack
                          \/ p \in early[Doing]

\* A stamp after our clock takes an Orchestrator that is ahead.
EarlyInv == \A w \in Ours : early[w] # {} => skew > 0

IInv == /\ TypeOK
        /\ LogInv /\ DriverInv /\ ConfigInv /\ StartInv /\ IgnoreInv /\ EarlyInv
        /\ LandsOnce /\ NeverThePast /\ ConfirmedIsTrue

-----------------------------------------------------------------------------
(* The invariant is inductive.                                             *)

USE JobPollerAssumption

LEMMA SkewIs == ASSUME TypeOK PROVE skew \in Int /\ Slack \in Nat
BY DEF TypeOK

LEMMA OursAre == Ours \subseteq Actions /\ Nobody \notin Actions
BY DEF Actions

\* The driver's record, changed.
LEMMA CallType ==
  ASSUME NEW c \in Calls, NEW at \in Steps, NEW n \in Nat
  PROVE  /\ [c EXCEPT !.tries = n] \in Calls
         /\ [c EXCEPT !.at = at, !.tries = n] \in Calls
BY DEF Calls

LEMMA CallTypeRead ==
  ASSUME NEW c \in Calls, NEW at \in Steps, NEW n \in Nat, NEW i \in SUBSET Actions
  PROVE  [c EXCEPT !.at = at, !.tries = n, !.ignore = i] \in Calls
BY DEF Calls

LEMMA CallTypePosted ==
  ASSUME NEW c \in Calls, NEW at \in Steps, NEW n \in Nat, NEW d \in Nat,
         NEW k \in BOOLEAN
  PROVE  [c EXCEPT !.at = at, !.tries = n, !.keyed = k, !.deadline = d] \in Calls
BY DEF Calls

LEMMA CallTypeBegun ==
  ASSUME NEW c \in Calls, NEW at \in Steps, NEW n \in Nat, NEW d \in Nat,
         NEW w \in Ours, NEW i \in SUBSET Actions, NEW k \in BOOLEAN
  PROVE  [c EXCEPT !.at = at, !.doing = w, !.tries = n, !.since = d,
                   !.ignore = i, !.keyed = k] \in Calls
BY DEF Calls

\* Nothing has been written at first.
THEOREM InitIInv == Init => IInv
<1> SUFFICES ASSUME Init PROVE IInv
  OBVIOUS
<1>1. TypeOK
  BY DEF Init, TypeOK, Calls, Steps, Shapes, Finished, Good, Ours, Results
<1>2. LogInv /\ DriverInv /\ ConfigInv
  BY DEF Init, LogInv, DriverInv, ConfigInv, Ours
<1>3. StartInv /\ IgnoreInv /\ EarlyInv
  BY DEF Init, StartInv, IgnoreInv, EarlyInv
<1>4. LandsOnce /\ NeverThePast /\ ConfirmedIsTrue
  BY DEF Init, LandsOnce, NeverThePast, ConfirmedIsTrue
<1> QED
  BY <1>1, <1>2, <1>3, <1>4 DEF IInv

\* A call that is sent again changes nothing else.
LEMMA AgainStep ==
  ASSUME IInv, NEW n \in Nat, call' = [call EXCEPT !.tries = n], faults' \in Nat,
         UNCHANGED <<clock, given, remote, result, settled, past, blind, landed>>
  PROVE  IInv'
<1> USE DEF IInv, remote, given, past
<1>0. call \in Calls
  BY DEF TypeOK
<1>1. /\ call'.at = call.at /\ call'.doing = call.doing /\ call'.since = call.since
      /\ call'.ignore = call.ignore /\ call'.keyed = call.keyed
  BY <1>0 DEF Calls
<1>2. TypeOK'
  <2>1. call' \in Calls
    BY <1>0 DEF Calls
  <2> QED
    BY <2>1 DEF TypeOK
<1>3. LogInv' /\ LandsOnce'
  BY DEF LogInv, LandsOnce
<1>4. DriverInv'
  BY <1>1 DEF DriverInv, Waiting, Doing
<1>5. ConfigInv'
  BY <1>1 DEF ConfigInv, AllGood, Doing
<1>6. StartInv' /\ IgnoreInv' /\ EarlyInv'
  BY <1>1 DEF StartInv, IgnoreInv, EarlyInv, Doing, NotAhead, ClocksAgree
<1>7. NeverThePast' /\ ConfirmedIsTrue'
  BY DEF NeverThePast, ConfirmedIsTrue
<1> QED
  BY <1>2, <1>3, <1>4, <1>5, <1>6, <1>7

\* A write that ends with anything but a success it cannot vouch for.
LEMMA EndStep ==
  ASSUME IInv, NEW r \in Results \ {"none"}, call.at # "idle", End(r),
         faults' \in Nat, r = "ok" => kind = "config" /\ Doing \in saved,
         running \subseteq running', running' \subseteq Actions,
         UNCHANGED <<clock, given, sent, start, rec, saved, settled, past, blind,
                     landed>>
  PROVE  IInv'
<1> USE DEF IInv, End, given, past
<1>0. call \in Calls /\ Doing \in Ours /\ result \in [Ours -> Results]
  BY DEF TypeOK, Calls, Doing
<1>1. call'.at = "idle" /\ call'.doing = Doing /\ call'.since = call.since
  BY <1>0 DEF Calls, Doing
<1>2. /\ result'[Doing] = r
      /\ \A w \in Ours : w # Doing => result'[w] = result[w]
  BY <1>0
<1>3. TypeOK'
  <2>1. call' \in Calls
    BY <1>0, CallType DEF Steps
  <2> QED
    BY <2>1 DEF TypeOK
<1>4. LogInv' /\ LandsOnce'
  BY DEF LogInv, LandsOnce
<1>5. DriverInv'
  BY <1>0, <1>1, <1>2 DEF DriverInv, Waiting, Doing
<1>6. ConfigInv'
  BY <1>1 DEF ConfigInv, AllGood
<1>7. StartInv' /\ IgnoreInv' /\ EarlyInv'
  BY <1>1 DEF StartInv, IgnoreInv, EarlyInv, NotAhead, ClocksAgree
<1>8. NeverThePast'
  BY DEF NeverThePast
<1>9. ConfirmedIsTrue'
  BY <1>2 DEF ConfirmedIsTrue
<1> QED
  BY <1>3, <1>4, <1>5, <1>6, <1>7, <1>8, <1>9

\* A write begins.
LEMMA BeginStep ==
  ASSUME IInv, NEW w \in Ours, Begin(w)
  PROVE  IInv'
<1> USE DEF IInv, remote, given, past, Begin
<1>0. call \in Calls /\ clock \in Nat
  BY DEF TypeOK
<1>1. /\ call'.at \in {"write", "before"} /\ call'.at \in Steps
      /\ kind = "config" <=> call'.at = "write"
      /\ call'.doing = w /\ call'.since = clock
  BY <1>0 DEF Calls, Steps
<1>2. TypeOK'
  <2>1. call' \in Calls
    BY <1>0, CallTypeBegun DEF Steps
  <2> QED
    BY <2>1 DEF TypeOK
<1>3. LogInv' /\ LandsOnce'
  BY DEF LogInv, LandsOnce
<1>4. DriverInv'
  BY <1>0, <1>1 DEF DriverInv, Waiting, Doing, ConfigInv, TypeOK, Kinds
<1>5. ConfigInv'
  BY <1>1 DEF ConfigInv, AllGood, TypeOK, Kinds
<1>6. StartInv' /\ IgnoreInv' /\ EarlyInv'
  BY <1>1 DEF StartInv, IgnoreInv, EarlyInv, NotAhead, ClocksAgree
<1>7. NeverThePast' /\ ConfirmedIsTrue'
  BY DEF NeverThePast, ConfirmedIsTrue
<1> QED
  BY <1>2, <1>3, <1>4, <1>5, <1>6, <1>7

\* The log is read before the write: what it shows is left out from now on.
LEMMA ReadBeforeStep ==
  ASSUME IInv, ReadBefore
  PROVE  IInv'
<1> USE DEF IInv, remote, given, past, ReadBefore
<1> DEFINE shown == {a \in sent : Listed(a) # {}}
<1>0. /\ call \in Calls /\ Doing \in Ours /\ old \in [Ours -> SUBSET Actions]
      /\ early \in [Ours -> SUBSET Actions]
      /\ ActionLogWindow \in SUBSET Actions /\ shown \in SUBSET sent
      /\ sent \subseteq Actions
  BY DEF TypeOK, Calls, Doing, ActionLogWindow
<1>1. /\ call'.at = "post" /\ call'.doing = Doing /\ call'.since = call.since
      /\ call'.ignore = ActionLogWindow
  BY <1>0 DEF Calls, Doing
<1>2. /\ old'[Doing] = shown /\ early'[Doing] = {a \in shown : start[a] > clock}
      /\ \A w \in Ours : w # Doing => old'[w] = old[w] /\ early'[w] = early[w]
  BY <1>0
<1>3. Waiting(Doing) /\ kind # "config"
  BY <1>0 DEF DriverInv, Waiting, ConfigInv
<1>4. TypeOK'
  <2>1. call' \in Calls
    BY <1>0, CallTypeRead DEF Steps
  <2>2. old' \in [Ours -> SUBSET Actions] /\ early' \in [Ours -> SUBSET Actions]
    BY <1>0
  <2> QED
    BY <2>1, <2>2 DEF TypeOK
<1>5. LogInv' /\ LandsOnce'
  BY DEF LogInv, LandsOnce
<1>6. DriverInv'
  <2>1. \A w \in Ours : old'[w] \subseteq sent
    BY <1>0, <1>2 DEF DriverInv
  <2>2. Doing \notin sent
    BY <1>0, <1>3 DEF DriverInv
  <2>3. Doing \notin ActionLogWindow /\ Doing \notin shown
    BY <2>2 DEF ActionLogWindow
  <2> QED
    BY <1>0, <1>1, <1>2, <2>1, <2>3 DEF DriverInv, Waiting, Doing
<1>7. ConfigInv'
  BY <1>1, <1>3 DEF ConfigInv
<1>8. StartInv'
  BY <1>1 DEF StartInv, NotAhead, ClocksAgree
<1>9. IgnoreInv'
  <2> SUFFICES ASSUME NEW p \in shown
               PROVE  \/ p \in ActionLogWindow \/ start[p] < call.since - Slack
                      \/ start[p] > clock
    BY <1>0, <1>1, <1>2 DEF IgnoreInv, Doing
  <2>2. start[p] \in Int /\ call.since \in Nat /\ clock \in Nat
    BY <1>0 DEF TypeOK, Calls
  <2> QED
    BY <2>2 DEF ActionLogWindow, InWindow
<1>10. EarlyInv'
  <2>1. skew \in Int /\ clock \in Nat /\ start \in [Actions -> Int]
    BY SkewIs DEF TypeOK
  <2>2. \A p \in shown : start[p] > clock => skew > 0
    BY <1>0, <2>1 DEF StartInv, NotAhead
  <2> QED
    BY <1>0, <1>2, <2>2 DEF EarlyInv
<1>11. NeverThePast'
  <2>1. settled[Doing] = Nobody
    BY <1>0 DEF DriverInv
  <2> QED
    BY <1>0, <1>2, <2>1, OursAre DEF NeverThePast
<1>12. ConfirmedIsTrue'
  BY DEF ConfirmedIsTrue
<1> QED
  BY <1>4, <1>5, <1>6, <1>7, <1>8, <1>9, <1>10, <1>11, <1>12

\* A read that fails is sent again, or raises.
LEMMA ReadFailsStep ==
  ASSUME IInv, ReadFails
  PROVE  IInv'
<1> USE DEF ReadFails, Fail
<1>0. /\ call.at # "idle" /\ call.tries + 1 \in Nat /\ faults' \in Nat
      /\ running \subseteq Actions
  BY DEF IInv, TypeOK, Calls, Polling
<1>1. CASE call.tries + 1 < Attempts("GET")
  BY <1>0, <1>1, AgainStep
<1>2. CASE ~(call.tries + 1 < Attempts("GET"))
  BY <1>0, <1>2, EndStep DEF Results, remote
<1> QED
  BY <1>1, <1>2

\* A poll that leads nowhere.
LEMMA RefuseStep ==
  ASSUME IInv, Refuse \/ PollTimesOut
  PROVE  IInv'
<1>1. call.at # "idle" /\ faults' \in Nat /\ running \subseteq Actions
  BY DEF IInv, TypeOK, Refuse, PollTimesOut, Polling
<1> QED
  BY <1>1, EndStep DEF Refuse, PollTimesOut, Results, remote

\* The next call of a poll.
LEMMA GotoSame ==
  ASSUME IInv, call.at \in {"poll", "check"}, Goto(call.at), UNCHANGED faults,
         UNCHANGED <<clock, given, remote, result, settled, past, blind, landed>>
  PROVE  IInv'
<1>1. call \in Calls /\ faults' \in Nat
  BY DEF IInv, TypeOK
<1>2. call' = [call EXCEPT !.tries = 0]
  BY <1>1 DEF Goto, Calls
<1> QED
  BY <1>1, <1>2, AgainStep

LEMMA PollAgainStep ==
  ASSUME IInv, PollAgain
  PROVE  IInv'
BY GotoSame DEF PollAgain, Polling

\* The inventory's flag.
LEMMA CheckSavedStep ==
  ASSUME IInv, CheckSaved
  PROVE  IInv'
<1> USE DEF CheckSaved
<1>1. /\ kind = "config" /\ Doing \in running /\ faults' \in Nat
      /\ running \subseteq Actions
  BY DEF IInv, TypeOK, Kinds, ConfigInv
<1>2. CASE End("unknown") \/ End("failed")
  BY <1>1, <1>2, EndStep DEF Results, remote
<1>3. CASE running \subseteq saved /\ End("ok")
  BY <1>1, <1>3, EndStep DEF Results, remote
<1>4. CASE Goto("check") /\ UNCHANGED result
  BY <1>4, GotoSame
<1> QED
  BY <1>2, <1>3, <1>4

\* A call that may not be sent again raises.
LEMMA PostRaises ==
  ASSUME IInv, call.at \in {"write", "post"}, Fail("POST")
  PROVE  End("raised") /\ faults' \in Nat
<1>1. call.tries \in Nat /\ faults \in Nat
  BY DEF IInv, TypeOK, Calls
<1>2. ~(call.tries + 1 < Attempts("POST"))
  BY <1>1 DEF Attempts
<1> QED
  BY <1>1, <1>2 DEF Fail

\* The configuration is written, or the call fails on the way or on the way back.
LEMMA WriteConfigStep ==
  ASSUME IInv, WriteConfig
  PROVE  IInv'
<1> USE DEF WriteConfig
<1>0. /\ call \in Calls /\ Doing \in Ours /\ Doing \in Actions /\ faults \in Nat
      /\ running \subseteq Actions
  BY OursAre DEF IInv, TypeOK, Calls, Doing
<1>1. CASE Write /\ Goto("post") /\ UNCHANGED <<result, faults>>
  <2> USE <1>1 DEF IInv, Write, Goto, given, past
  <2>1. /\ call'.at = "post" /\ call'.doing = Doing /\ call'.since = call.since
        /\ call'.ignore = call.ignore
    BY <1>0 DEF Calls, Doing
  <2>2. Waiting(Doing) /\ kind = "config" /\ old[Doing] = {}
    BY <1>0 DEF DriverInv, Waiting, ConfigInv, TypeOK, Kinds
  <2>3. TypeOK'
    <3>1. call' \in Calls
      BY <1>0, CallType DEF Steps
    <3> QED
      BY <3>1, <1>0 DEF TypeOK
  <2>4. LogInv' /\ LandsOnce'
    BY DEF LogInv, LandsOnce
  <2>5. DriverInv'
    <3>1. Doing \notin call.ignore
      BY DEF DriverInv
    <3> QED
      BY <1>0, <2>1, <2>2, <3>1 DEF DriverInv, Waiting, Doing
  <2>6. ConfigInv'
    BY <1>0, <2>1, <2>2 DEF ConfigInv, AllGood, Doing
  <2>7. StartInv' /\ IgnoreInv' /\ EarlyInv'
    BY <2>1, <2>2 DEF StartInv, IgnoreInv, EarlyInv, Doing, NotAhead, ClocksAgree
  <2>8. NeverThePast' /\ ConfirmedIsTrue'
    BY DEF NeverThePast, ConfirmedIsTrue
  <2> QED
    BY <2>3, <2>4, <2>5, <2>6, <2>7, <2>8
<1>2. CASE Write /\ Fail("POST")
  BY <1>0, <1>2, PostRaises, EndStep DEF Write, Results
<1>3. CASE Fail("POST") /\ UNCHANGED <<remote, landed>>
  BY <1>0, <1>3, PostRaises, EndStep DEF remote, Results
<1> QED
  BY <1>1, <1>2, <1>3

\* The association or the save reaches the Orchestrator.
LEMMA LandStep ==
  ASSUME IInv, call.at = "post", Land, faults' \in Nat,
         UNCHANGED <<clock, given, settled, past, blind>>,
         call' \in Calls, call'.doing = Doing, call'.since = call.since,
         call'.ignore = call.ignore,
         \/ /\ call'.at \in {"poll", "check"} /\ result' = result
            /\ kind = "association" => call'.at = "poll"
            /\ kind = "config" /\ call'.at = "poll" => call'.keyed
         \/ /\ call'.at = "idle"
            /\ result' = [result EXCEPT ![Doing] = "raised"]
  PROVE  IInv'
<1> USE DEF IInv, Land, given, past
<1>0. /\ Doing \in Ours /\ Doing \in Actions /\ clock \in Nat
      /\ start \in [Actions -> Int] /\ landed \in [Ours -> Nat]
      /\ result \in [Ours -> Results] /\ sent \subseteq Actions /\ skew \in Int
  BY OursAre, SkewIs DEF TypeOK, Calls, Doing
<1>1. Doing \notin sent /\ landed[Doing] = 0 /\ result[Doing] = "none"
  BY <1>0 DEF DriverInv, Waiting
<1>2. /\ landed'[Doing] = 1 /\ \A w \in Ours : w # Doing => landed'[w] = landed[w]
      /\ start'[Doing] = clock + skew /\ \A a \in sent : start'[a] = start[a]
  BY <1>0, <1>1
<1>3. TypeOK'
  <2>1. result' \in [Ours -> Results]
    BY <1>0 DEF Results
  <2>2. /\ start' \in [Actions -> Int] /\ landed' \in [Ours -> Nat]
        /\ sent' \subseteq Actions
    BY <1>0
  <2> QED
    BY <2>1, <2>2 DEF TypeOK
<1>4. LogInv'
  BY DEF LogInv
<1>5. LandsOnce'
  BY <1>2 DEF LandsOnce
<1>6. DriverInv'
  <2>1. call'.at # "idle" => result'[Doing] = "none"
    BY <1>1
  <2>2. \A w \in Ours : result'[w] = "none" => result[w] = "none"
    BY <1>0
  <2>3. \A w \in Ours : Waiting(w)' => w # Doing /\ Waiting(w)
    BY <1>0, <2>2 DEF Waiting, Doing
  <2> QED
    BY <1>0, <1>2, <2>1, <2>2, <2>3 DEF DriverInv, Doing
<1>7. ConfigInv'
  <2>1. ~AllGood(Doing)
    BY <1>0, <1>1 DEF LogInv, AllGood, Good
  <2> QED
    BY <2>1 DEF ConfigInv, AllGood, Doing, TypeOK, Kinds
<1>8. StartInv'
  <2>1. NotAhead => \A a \in sent' : start'[a] <= clock
    BY <1>0, <1>2 DEF StartInv, NotAhead
  <2>2. ClocksAgree => clock + skew >= call.since - Slack
    BY <1>0, SkewIs DEF ClocksAgree, DriverInv, TypeOK, Calls
  <2> QED
    BY <1>2, <2>1, <2>2 DEF StartInv, Doing, NotAhead, ClocksAgree
<1>9. IgnoreInv' /\ EarlyInv'
  BY <1>0, <1>2 DEF IgnoreInv, EarlyInv, DriverInv, Doing
<1>10. NeverThePast'
  BY DEF NeverThePast
<1>11. ConfirmedIsTrue'
  BY <1>0 DEF ConfirmedIsTrue
<1> QED
  BY <1>3, <1>4, <1>5, <1>6, <1>7, <1>8, <1>9, <1>10, <1>11

LEMMA PostStep ==
  ASSUME IInv, Post
  PROVE  IInv'
<1> USE DEF Post
<1>0. /\ call \in Calls /\ clock + Timeout \in Nat /\ faults \in Nat
      /\ running \subseteq Actions /\ kind \in Kinds
  BY DEF IInv, TypeOK
<1>1. CASE Answered
  <2>1. PICK keyed \in BOOLEAN :
          /\ Land /\ UNCHANGED <<result, faults>>
          /\ call' = [call EXCEPT
               !.at = IF kind = "config" /\ ~keyed THEN "check" ELSE "poll",
               !.tries = 0, !.keyed = keyed, !.deadline = clock + Timeout]
    BY <1>1 DEF Answered
  <2>2. call' \in Calls
    BY <1>0, <2>1, CallTypePosted DEF Steps
  <2>3. /\ call'.at = IF kind = "config" /\ ~keyed THEN "check" ELSE "poll"
        /\ call'.keyed = keyed /\ call'.doing = Doing
        /\ call'.since = call.since /\ call'.ignore = call.ignore
    BY <1>0, <2>1 DEF Calls, Doing
  <2> QED
    BY <1>0, <2>1, <2>2, <2>3, LandStep
<1>2. CASE Land /\ Fail("POST")
  <2>1. End("raised") /\ faults' \in Nat
    BY <1>2, PostRaises
  <2>2. call' \in Calls
    BY <1>0, <2>1, CallType DEF End, Steps
  <2>3. /\ call'.at = "idle" /\ call'.doing = Doing
        /\ call'.since = call.since /\ call'.ignore = call.ignore
    BY <1>0, <2>1 DEF End, Calls, Doing
  <2> QED
    BY <1>2, <2>1, <2>2, <2>3, LandStep DEF End
<1>3. CASE Fail("POST") /\ UNCHANGED <<remote, landed>>
  BY <1>0, <1>3, PostRaises, EndStep DEF remote, Results
<1> QED
  BY <1>1, <1>2, <1>3

\* One action is left, and it has an outcome.
LEMMA SettleStep ==
  ASSUME IInv, Settle
  PROVE  IInv'
<1> USE DEF IInv, Settle, remote, End, given, past
<1>1. PICK a \in Seen :
        /\ Seen = {a} /\ AllFinished(a)
        /\ settled' = [settled EXCEPT ![Doing] = a]
        /\ blind' = [blind EXCEPT ![Doing] = Blindness]
        /\ End(Confirmed(a))
  OBVIOUS
<1>0. /\ call \in Calls /\ Doing \in Ours /\ Doing \in Actions /\ sent \subseteq Actions
      /\ Seen \subseteq Actions /\ call.at = "poll" /\ clock \in Nat
      /\ settled \in [Ours -> Actions \cup {Nobody}]
      /\ blind \in [Ours -> SUBSET {"lag", "clock"}]
      /\ result \in [Ours -> Results] /\ start \in [Actions -> Int]
  BY OursAre DEF TypeOK, Calls, Doing, Polling, Seen, Keyed, Candidates,
                 ActionLogWindow
<1>2. Confirmed(a) \in Results \ {"none"}
  BY DEF Confirmed, TerminalOutcome, Results
<1>3. call'.at = "idle" /\ call'.doing = Doing /\ call'.since = call.since
  BY <1>0, <1>1 DEF Calls, Doing
<1>4. TypeOK'
  <2>1. call' \in Calls
    BY <1>0, <1>1, CallType DEF Steps
  <2>2. result' \in [Ours -> Results] /\ settled' \in [Ours -> Actions \cup {Nobody}]
    BY <1>0, <1>1, <1>2
  <2>3. blind' \in [Ours -> SUBSET {"lag", "clock"}]
    BY <1>0, <1>1 DEF Blindness
  <2> QED
    BY <2>1, <2>2, <2>3 DEF TypeOK
<1>5. LogInv' /\ LandsOnce'
  BY DEF LogInv, LandsOnce
<1>6. DriverInv'
  <2>1. \A w \in Ours : result'[w] = "none" => w # Doing /\ result[w] = "none"
    BY <1>0, <1>1, <1>2
  <2>2. \A w \in Ours : w # Doing => settled'[w] = settled[w]
    BY <1>0, <1>1
  <2>3. \A w \in Ours : Waiting(w)' => Waiting(w)
    BY <2>1 DEF Waiting
  <2> QED
    BY <1>3, <2>1, <2>2, <2>3 DEF DriverInv
<1>7. ConfigInv'
  BY <1>3 DEF ConfigInv, AllGood
<1>8. StartInv' /\ IgnoreInv' /\ EarlyInv'
  BY <1>3 DEF StartInv, IgnoreInv, EarlyInv, NotAhead, ClocksAgree
<1>9. NeverThePast'
  <2> SUFFICES ASSUME NEW w \in Ours, settled'[w] \in old[w]
               PROVE  settled'[w] \in early[w] /\ skew > 0
    BY DEF NeverThePast
  <2>1. CASE w # Doing
    BY <1>0, <1>1, <2>1 DEF NeverThePast
  <2>2. CASE w = Doing /\ call.keyed
    BY <1>0, <1>1, <2>2 DEF Seen, Keyed, DriverInv, Doing
  <2>3. CASE w = Doing /\ ~call.keyed
    <3>1. a \in Candidates /\ settled'[w] = a
      BY <1>0, <1>1, <2>3 DEF Seen
    <3>2. start[a] \in Int /\ call.since - Slack \in Int
      BY <1>0 DEF Calls
    <3> QED
      BY <1>0, <2>3, <3>1, <3>2 DEF Candidates, IgnoreInv, EarlyInv
  <2> QED
    BY <2>1, <2>2, <2>3
<1>10. ConfirmedIsTrue'
  <2> SUFFICES ASSUME NEW w \in Ours, result'[w] = "ok", "lag" \notin blind'[w],
                      ~("clock" \in blind'[w] /\ ~ClocksAgree)
               PROVE  \/ /\ kind = "association"
                         /\ \A t \in Records[w] : rec[w][t] \in Good
                      \/ kind = "config" /\ w \in saved
    BY DEF ConfirmedIsTrue, ClocksAgree
  <2>1. CASE w # Doing
    <3>1. result'[w] = result[w] /\ blind'[w] = blind[w]
      BY <1>0, <1>1, <2>1
    <3> QED
      BY <3>1 DEF ConfirmedIsTrue, ClocksAgree
  <2>2. CASE w = Doing
    <3>1. Listed(w) = Records[w] /\ w \in sent
      BY <1>0, <1>1, <2>2 DEF DriverInv, Blindness
    <3>4. call.keyed \/ InWindow(w)
      <4>1. ClocksAgree => start[w] >= call.since - Slack /\ start[w] <= clock
        BY <1>0, <2>2, <3>1, SkewIs DEF StartInv, ClocksAgree, NotAhead
      <4> QED
        BY <1>0, <1>1, <2>2, <4>1 DEF InWindow, Blindness
    <3>2. CASE Records[w] = {}
      <4>1. CASE kind = "association"
        BY <3>2, <4>1
      <4>2. CASE kind = "config"
        BY <1>0, <1>1, <2>2, <3>1, <3>2, <4>2 DEF ConfigInv, Seen, Keyed, Doing
      <4> QED
        BY <4>1, <4>2 DEF TypeOK, Kinds
    <3>3. CASE Records[w] # {}
      <4>1. w \in Seen
        <5>1. CASE call.keyed
          BY <1>0, <2>2, <3>1, <3>3, <5>1 DEF Seen, Keyed, Doing
        <5>2. CASE ~call.keyed
          <6>1. w \notin call.ignore
            BY <1>0, <2>2 DEF DriverInv
          <6>2. start[w] >= call.since - Slack /\ start[w] <= clock
            BY <3>4, <5>2 DEF InWindow
          <6> QED
            BY <3>1, <3>3, <5>2, <6>1, <6>2
               DEF Seen, Candidates, ActionLogWindow, InWindow
        <5> QED
          BY <5>1, <5>2
      <4>2. a = w /\ TerminalOutcome(w) = "ok"
        BY <1>0, <1>1, <2>2, <4>1 DEF Confirmed
      <4>3. \A t \in Records[w] : rec[w][t] \in Good
        BY <1>1, <3>1, <4>2 DEF AllFinished, TerminalOutcome, Finished
      <4> QED
        BY <3>1, <3>3, <4>3 DEF ConfigInv, AllGood, TypeOK, Kinds
    <3> QED
      BY <3>2, <3>3
  <2> QED
    BY <2>1, <2>2
<1> QED
  BY <1>4, <1>5, <1>6, <1>7, <1>8, <1>9, <1>10

\* Time passes.
LEMMA TickStep ==
  ASSUME IInv, Tick
  PROVE  IInv'
<1> USE DEF IInv, Tick, remote, given, past
<1>0. clock \in Nat /\ clock' = clock + 1 /\ call.since \in Nat
      /\ start \in [Actions -> Int] /\ sent \subseteq Actions
  BY DEF TypeOK, Calls
<1>1. TypeOK'
  BY <1>0 DEF TypeOK
<1>2. LogInv' /\ LandsOnce' /\ ConfigInv' /\ IgnoreInv' /\ EarlyInv'
  BY DEF LogInv, LandsOnce, ConfigInv, AllGood, IgnoreInv, EarlyInv, Doing
<1>3. DriverInv'
  BY <1>0 DEF DriverInv, Waiting, Doing
<1>4. StartInv'
  <2>1. NotAhead => \A a \in sent : start[a] <= clock + 1
    BY <1>0 DEF StartInv
  <2> QED
    BY <1>0, <2>1 DEF StartInv, Doing, NotAhead, ClocksAgree
<1>5. NeverThePast' /\ ConfirmedIsTrue'
  BY DEF NeverThePast, ConfirmedIsTrue
<1> QED
  BY <1>1, <1>2, <1>3, <1>4, <1>5

\* Another operator pushes, or writes a configuration.
LEMMA OtherActsStep ==
  ASSUME IInv, NEW o \in Others, OtherActs(o)
  PROVE  IInv'
<1> USE DEF IInv, OtherActs, given, past
<1>0. /\ o \in Actions /\ o \notin Ours /\ o \notin sent /\ clock \in Nat
      /\ skew \in Int
      /\ start \in [Actions -> Int] /\ sent \subseteq Actions
      /\ call \in Calls /\ Doing \in Ours
  BY SkewIs DEF TypeOK, Actions, Calls, Doing
<1>1. /\ sent \subseteq sent' /\ sent' \subseteq sent \cup {o}
      /\ running \subseteq running'
      /\ kind = "config" => sent' = sent
      /\ \A a \in sent : start'[a] = start[a]
      /\ o \in sent' => start'[o] = clock + skew
  BY <1>0
<1>2. TypeOK'
  BY <1>0 DEF TypeOK
<1>3. LogInv' /\ LandsOnce'
  BY DEF LogInv, LandsOnce
<1>4. DriverInv'
  BY <1>0, <1>1 DEF DriverInv, Waiting, Doing
<1>5. ConfigInv'
  BY <1>1 DEF ConfigInv, AllGood, Doing
<1>6. StartInv'
  <2>1. NotAhead => \A a \in sent' : start'[a] <= clock
    BY <1>0, <1>1 DEF StartInv, NotAhead
  <2> QED
    BY <1>1, <2>1 DEF StartInv, DriverInv, Doing, NotAhead, ClocksAgree
<1>7. IgnoreInv' /\ EarlyInv'
  BY <1>0, <1>1 DEF IgnoreInv, EarlyInv, DriverInv, Doing
<1>8. NeverThePast' /\ ConfirmedIsTrue'
  BY DEF NeverThePast, ConfirmedIsTrue
<1> QED
  BY <1>2, <1>3, <1>4, <1>5, <1>6, <1>7, <1>8

\* The log shows a record, or one finishes: nothing that had finished changes.
LEMMA RecordStep ==
  ASSUME IInv, NEW a \in Actions, NEW t \in Tasks, NEW x \in Shapes,
         a \in sent, t \in Records[a], rec[a][t] \notin Good,
         rec' = [rec EXCEPT ![a][t] = x],
         saved \subseteq saved', saved' \subseteq running,
         kind = "config" /\ AllGood(a)' => saved' = running,
         UNCHANGED <<clock, given, sent, start, running, call, result, settled, past,
                     blind, landed, faults>>
  PROVE  IInv'
<1> USE DEF IInv, given, past
<1>0. /\ rec \in [Actions -> [Tasks -> Shapes]]
      /\ \A b \in Actions, u \in Tasks :
           rec'[b][u] = IF b = a /\ u = t THEN x ELSE rec[b][u]
      /\ sent \subseteq Actions /\ \A b \in Actions : Records[b] \subseteq Tasks
  BY DEF TypeOK
<1>1. TypeOK'
  <2>1. rec' \in [Actions -> [Tasks -> Shapes]]
    BY <1>0
  <2> QED
    BY <2>1 DEF TypeOK
<1>2. LogInv'
  BY <1>0 DEF LogInv
<1>3. LandsOnce' /\ DriverInv' /\ StartInv' /\ IgnoreInv' /\ EarlyInv'
  BY DEF LandsOnce, DriverInv, Waiting, Doing, StartInv, IgnoreInv, EarlyInv,
         NotAhead, ClocksAgree
<1>4. ConfigInv'
  <2>1. \A b \in sent : b # a /\ AllGood(b)' => AllGood(b)
    BY <1>0 DEF AllGood
  <2> QED
    BY <2>1 DEF ConfigInv, Doing
<1>5. NeverThePast'
  BY DEF NeverThePast
<1>6. ConfirmedIsTrue'
  BY <1>0, OursAre DEF ConfirmedIsTrue
<1> QED
  BY <1>1, <1>2, <1>3, <1>4, <1>5, <1>6

LEMMA ListsStep ==
  ASSUME IInv, NEW a \in Actions, NEW t \in Tasks, Lists(a, t)
  PROVE  IInv'
<1>1. ~AllGood(a)'
  BY DEF IInv, TypeOK, Lists, AllGood, Good
<1>2. "flight" \in Shapes /\ rec[a][t] \notin Good /\ saved \subseteq running
  BY DEF IInv, TypeOK, Lists, Shapes, Good
<1> QED
  BY <1>1, <1>2, RecordStep DEF Lists

LEMMA FinishesStep ==
  ASSUME IInv, NEW a \in Actions, NEW t \in Tasks, NEW s \in Finished,
         Finishes(a, t, s)
  PROVE  IInv'
<1>1. a \in sent /\ t \in Records[a] /\ rec[a][t] \notin Good /\ s \in Shapes
  BY DEF IInv, LogInv, Finishes, Good, Shapes
<1>2. /\ saved \subseteq saved' /\ saved' \subseteq running
      /\ kind = "config" /\ AllGood(a)' => saved' = running
  BY DEF IInv, TypeOK, Finishes, AllGood
<1> QED
  BY <1>1, <1>2, RecordStep DEF Finishes

THEOREM NextIInv == IInv /\ [Next]_vars => IInv'
<1> SUFFICES ASSUME IInv, [Next]_vars PROVE IInv'
  OBVIOUS
<1>1. CASE \E w \in Ours : Begin(w)
  BY <1>1, BeginStep
<1>2. CASE ReadBefore \/ ReadFails \/ WriteConfig \/ Post
  BY <1>2, ReadBeforeStep, ReadFailsStep, WriteConfigStep, PostStep
<1>3. CASE Settle \/ Refuse \/ PollAgain \/ PollTimesOut \/ CheckSaved
  BY <1>3, SettleStep, RefuseStep, PollAgainStep, CheckSavedStep
<1>4. CASE Tick \/ \E o \in Others : OtherActs(o)
  BY <1>4, TickStep, OtherActsStep
<1>5. CASE \E a \in Actions, t \in Tasks : Lists(a, t)
  BY <1>5, ListsStep
<1>6. CASE \E a \in Actions, t \in Tasks, s \in Finished : Finishes(a, t, s)
  BY <1>6, FinishesStep
<1>7. CASE UNCHANGED vars
  <2> USE <1>7 DEF vars, remote, given, past
  <2>1. TypeOK' /\ LogInv' /\ DriverInv' /\ ConfigInv'
    BY DEF IInv, TypeOK, LogInv, DriverInv, Waiting, Doing, ConfigInv, AllGood
  <2>2. StartInv' /\ IgnoreInv' /\ EarlyInv' /\ LandsOnce'
    BY DEF IInv, StartInv, IgnoreInv, EarlyInv, Doing, LandsOnce, NotAhead, ClocksAgree
  <2>3. NeverThePast' /\ ConfirmedIsTrue'
    BY DEF IInv, NeverThePast, ConfirmedIsTrue
  <2> QED
    BY <2>1, <2>2, <2>3 DEF IInv
<1> QED
  BY <1>1, <1>2, <1>3, <1>4, <1>5, <1>6, <1>7 DEF Next

THEOREM IInvHolds == Spec => []IInv
BY InitIInv, NextIInv, PTL DEF Spec

-----------------------------------------------------------------------------
(* Theorems.                                                               *)

\* The variables keep their types, and saved configurations are among those that
\* run.
THEOREM TypeCorrect == Spec => []TypeOK
<1>1. IInv => TypeOK
  BY DEF IInv
<1> QED
  BY <1>1, IInvHolds, PTL

\* Whatever calls and answers are lost, and however often a read may be sent
\* again, no push and no save takes effect twice.
THEOREM WritesLandOnce == Spec => []LandsOnce
<1>1. IInv => LandsOnce
  BY DEF IInv
<1> QED
  BY <1>1, IInvHolds, PTL

\* However the two clocks disagree, a write never settles on an action the log
\* showed before it, but for one that an Orchestrator whose clock is ahead had
\* stamped after ours.
THEOREM PastIsIgnored == Spec => []NeverThePast
<1>1. IInv => NeverThePast
  BY DEF IInv
<1> QED
  BY <1>1, IInvHolds, PTL

\* However the two clocks disagree, a write that is reported done is done, unless
\* the log had not yet shown all of it when it was settled, or showed it stamped
\* outside the window by a clock that is ahead or more than the slack behind.
THEOREM OkIsTrue == Spec => []ConfirmedIsTrue
<1>1. IInv => ConfirmedIsTrue
  BY DEF IInv
<1> QED
  BY <1>1, IInvHolds, PTL
=============================================================================
