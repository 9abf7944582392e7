--------------------------- MODULE GuardedCommit ---------------------------
(***************************************************************************)
(* The guards between what an operator was shown and what a commit writes  *)
(* (src/src/pyecsdwan/txn.py: build_plan, _guard, and the reads and checks *)
(* of _commit_locked before its first write), while templates, their       *)
(* associations and the appliances are changed by others.                  *)
(*                                                                         *)
(* One table per appliance, and one commit: nothing passes to the next but *)
(* the fabric, the staging and the resolver's cache, which may start in    *)
(* any state.  What becomes of a commit after its writes is in             *)
(* CommitProtocol; here a write that does not verify is put back.          *)
(***************************************************************************)
EXTENDS TemplateOwnership

CONSTANTS
  Items,       \* appliances with a staged item
  NoCache,     \* the resolver holds no template bodies
  TableSet,    \* tables an appliance may have at the start
  IntentSet,   \* what may be staged
  BodySet,     \* what a template may assert
  AssocSet,    \* groups an appliance may be associated with, in order
  KindSet,     \* what the code may know of the kind
  MaxMoves     \* bound: what others do

Caches == [Groups -> SUBSET Fields] \cup {NoCache}

\* Nothing staged: an intent that mentions nothing.
Nothing == [mode |-> "merge", set |-> [f \in Fields |-> Keep]]

\* A kind that declares what its template governs declares all of it.
ASSUME GuardedCommitAssumption ==
  /\ TableSet \subseteq Tables /\ IntentSet \subseteq Intents
  /\ BodySet \subseteq SUBSET Fields /\ AssocSet \subseteq Seq(Groups)
  /\ KindSet \subseteq Kinds /\ MaxMoves \in Nat
  /\ \A m \in KindSet :
       m.declared # {} => \A b \in BodySet : b \subseteq m.declared
  /\ NoCache \notin [Groups -> SUBSET Fields]

VARIABLES
  live,      \* the table of each appliance
  assoc,     \* the groups each is associated with
  selected,  \* the groups that select the section of the kind
  body,      \* what it asserts in each
  cache,     \* the bodies in the resolver's cache
  kind,      \* what the code knows of the kind
  staged,    \* the intent staged for each appliance
  flags,     \* --rebase and --override-template
  pc,        \* where the commit is
  plan,      \* what the operator was shown
  fresh,     \* what was read again under the lock
  hole,      \* what each second verdict rests on besides the fabric
  moved,     \* what others changed since it was read
  moves      \* how much they changed in all

templates == <<assoc, selected, body>>
vars == <<live, templates, cache, kind, staged, flags, pc, plan, fresh, hole,
          moved, moves>>

-----------------------------------------------------------------------------
(* An item of the plan, first as shown and then as read again.             *)

Stages == {"none", "shown", "checked", "written", "verified"}

PlanItems == [at : Stages, old : Tables, new : Tables, verdict : Verdicts]

PlanItem(at, old, new, verdict) ==
  [at |-> at, old |-> old, new |-> new, verdict |-> verdict]

NoItem == PlanItem("none", Absent, Absent, "unowned")

Entries(item) == Diff(item.old, item.new)

\* The items that change something, and those of them still to write.
ChangedItems == {i \in Items : Entries(plan[i]) # {}}
Work == {i \in ChangedItems : Entries(fresh[i]) # {}}

Steps == {"idle", "plan", "check", "write", "revert", "over"}

Init ==
  /\ live \in [Items -> TableSet]
  /\ assoc \in [Items -> AssocSet]
  /\ selected \in SUBSET Groups
  /\ kind \in KindSet
  /\ body \in [Groups -> BodySet]
  /\ cache \in {NoCache} \cup [Groups -> BodySet]
  /\ staged \in [Items -> IntentSet]
  /\ flags = [rebase |-> FALSE, override |-> FALSE]
  /\ pc = "idle"
  /\ plan = [i \in Items |-> NoItem]
  /\ fresh = [i \in Items |-> NoItem]
  /\ hole = [i \in Items |-> {}]
  /\ moved = [i \in Items |-> {}]
  /\ moves = 0

-----------------------------------------------------------------------------
(* Checks of ownership.  One read of a check may fail: of the association, *)
(* of the bodies, or of one group's selection.  Bodies come from the cache *)
(* while it has them, however old.                                         *)

Failures == {"none", "assoc", "body"} \cup Groups

View(i, failure) ==
  [assoc |-> assoc[i], assocRead |-> failure # "assoc",
   selected |-> selected, selectRead |-> Groups \ {failure},
   body |-> IF cache = NoCache THEN body ELSE cache,
   bodyRead |-> cache # NoCache \/ failure # "body"]

\* managed_by asked about entries of i: its verdict, and what is cached after.
CacheAfter(view, entries) ==
  IF NeedsBodies(kind, view, entries) /\ view.bodyRead THEN view.body ELSE cache

\* What a verdict rests on besides the fabric being what was read.  A verdict
\* that is narrowed takes the entries of the plan for those to be written
\* (rebased), the first group that selects the section for the only one
\* (second), the cache for the fabric (cached), and an entry without a
\* priority for one that is not governed (coarse).  One that is not takes a
\* name for right that nothing could be compared with (vocabulary).
Holes(i, view, new) ==
  LET entries  == Entries(plan[i])
      byPrio   == kind.declared = {}
      pathless == IF byPrio THEN ~(Paths(entries) \subseteq Prios)
                            ELSE Whole \in Paths(entries)
  IN IF OwningGroup(kind, view) = "owned"
     THEN {h \in {"rebased", "second", "cached", "coarse"} :
             \/ h = "rebased" /\ Diff(live[i], new) # entries
             \/ h = "second" /\ byPrio
                /\ \E g, k \in Range(assoc[i]) \cap selected : g # k
             \/ h = "cached" /\ byPrio /\ view.body # body
             \/ h = "coarse" /\ pathless}
     ELSE {h \in {"vocabulary"} : ~kind.known /\ ~view.bodyRead}

-----------------------------------------------------------------------------
(* The commit. *)

\* commit_candidate takes what is staged.
Begin ==
  /\ pc = "idle" /\ \E i \in Items : staged[i] # Nothing
  /\ flags' \in [rebase : BOOLEAN, override : BOOLEAN]
  /\ pc' = "plan"
  /\ UNCHANGED <<live, templates, cache, kind, staged, plan, fresh, hole,
                 moved, moves>>

\* build_plan of one item.
BuildPlan(i) ==
  LET new     == Materialize(kind, staged[i], live[i])
      entries == Diff(live[i], new)
  IN /\ pc = "plan" /\ plan[i].at = "none"
     /\ \/ /\ entries = {}
           /\ plan' = [plan EXCEPT ![i] = PlanItem("shown", live[i], new, "unowned")]
           /\ UNCHANGED cache
        \/ \E failure \in Failures :
             LET view == View(i, failure)
             IN /\ entries # {}
                /\ plan' = [plan EXCEPT ![i] =
                     PlanItem("shown", live[i], new, Resolve(kind, view, entries))]
                /\ cache' = CacheAfter(view, entries)
     /\ UNCHANGED <<live, templates, kind, staged, flags, pc, fresh, hole,
                    moved, moves>>

Over ==
  /\ pc' = "over"
  /\ flags' = [rebase |-> FALSE, override |-> FALSE]
  /\ plan' = [i \in Items |-> NoItem]
  /\ fresh' = [i \in Items |-> NoItem]
  /\ hole' = [i \in Items |-> {}]
  /\ moved' = [i \in Items |-> {}]

Acknowledge == staged' = [i \in Items |-> Nothing]

\* _guard: nothing to do, something blocked, or on to the lock.
Guard ==
  /\ pc = "plan" /\ \A i \in Items : plan[i].at = "shown"
  /\ IF /\ ChangedItems # {}
        /\ flags.override \/ \A i \in ChangedItems : ~BlocksWrite(plan[i].verdict)
     THEN pc' = "check" /\ UNCHANGED <<flags, plan, fresh, hole, moved>>
     ELSE Over
  /\ UNCHANGED <<live, templates, cache, kind, staged, moves>>

\* mutant: a rebase compares the old desired state with the fresh one.
FreshNewAsPlanned(i) == plan[i].new

\* A rebase merges the intent again, over what is there now.
FreshNew(i) ==
  IF flags.rebase THEN Materialize(kind, staged[i], live[i]) ELSE plan[i].new

\* Under the lock: snapshot, fresh diff, and the second check, which is about the
\* diff of the plan.
Recheck(i) ==
  LET new == FreshNew(i)
  IN /\ pc = "check" /\ i \in ChangedItems /\ fresh[i].at = "none"
     /\ \/ /\ flags.override \/ Diff(live[i], new) = {}
           /\ fresh' = [fresh EXCEPT ![i] =
                PlanItem("checked", live[i], new, plan[i].verdict)]
           /\ UNCHANGED <<cache, hole>>
        \/ \E failure \in Failures :
             LET view == View(i, failure)
             IN /\ ~flags.override /\ Diff(live[i], new) # {}
                /\ fresh' = [fresh EXCEPT ![i] =
                     PlanItem("checked", live[i], new,
                              Resolve(kind, view, Entries(plan[i])))]
                /\ cache' = CacheAfter(view, Entries(plan[i]))
                /\ hole' = [hole EXCEPT ![i] = Holes(i, view, new)]
     /\ moved' = [moved EXCEPT ![i] = {}]
     /\ UNCHANGED <<live, templates, kind, staged, flags, pc, plan, moves>>

Blocked ==
  ~flags.override /\ \E i \in Work : BlocksWrite(fresh[i].verdict)

Stale ==
  ~flags.rebase /\ \E i \in ChangedItems : Entries(fresh[i]) # Entries(plan[i])

\* Ownership and drift abort before the first write; with nothing left to do the
\* commit is over, and so is what was staged.
Decide ==
  /\ pc = "check" /\ \A i \in ChangedItems : fresh[i].at = "checked"
  /\ IF Blocked \/ Stale THEN Over /\ UNCHANGED staged
     ELSE IF Work = {} THEN Over /\ Acknowledge
     ELSE pc' = "write" /\ UNCHANGED <<staged, flags, plan, fresh, hole, moved>>
  /\ UNCHANGED <<live, templates, cache, kind, moves>>

Stage(i, at) == fresh' = [fresh EXCEPT ![i].at = at]

\* apply replaces the table with what was wanted of it.  It may fail without or
\* with effect; the items already applied are then put back too.
Write(i) ==
  /\ pc = "write" /\ i \in Work /\ fresh[i].at = "checked"
  /\ \A j \in Work : fresh[j].at # "written"
  /\ \/ live' = [live EXCEPT ![i] = fresh[i].new] /\ UNCHANGED pc
     \/ live' = [live EXCEPT ![i] = fresh[i].new] /\ pc' = "revert"
     \/ UNCHANGED live /\ pc' = "revert"
  /\ Stage(i, "written")
  /\ UNCHANGED <<templates, cache, kind, staged, flags, plan, hole, moved, moves>>

\* verify, which may find something else there, or fail.
Verify(i) ==
  /\ pc = "write" /\ fresh[i].at = "written"
  /\ \/ Diff(live[i], fresh[i].new) = {} /\ Stage(i, "verified") /\ UNCHANGED pc
     \/ pc' = "revert" /\ UNCHANGED fresh
  /\ UNCHANGED <<live, templates, cache, kind, staged, flags, plan, hole, moved, moves>>

Done ==
  /\ pc = "write" /\ \A i \in Work : fresh[i].at = "verified"
  /\ Over /\ Acknowledge
  /\ UNCHANGED <<live, templates, cache, kind, moves>>

\* _revert_items, when it goes well: each snapshot is written back.
Revert(i) ==
  /\ pc = "revert" /\ fresh[i].at \in {"written", "verified"}
  /\ live' = [live EXCEPT ![i] = fresh[i].old]
  /\ Stage(i, "none")
  /\ UNCHANGED <<templates, cache, kind, staged, flags, pc, plan, hole, moved, moves>>

Reverted ==
  /\ pc = "revert" /\ \A i \in Work : fresh[i].at \notin {"written", "verified"}
  /\ Over
  /\ UNCHANGED <<live, templates, cache, kind, staged, moves>>

-----------------------------------------------------------------------------
(* What others do, and time, until the commit is over. *)

Move(items, what) ==
  /\ pc # "over" /\ moves < MaxMoves /\ moves' = moves + 1
  /\ moved' = [i \in Items |-> IF i \in items /\ fresh[i].at # "none"
                               THEN moved[i] \cup {what} ELSE moved[i]]
  /\ UNCHANGED <<cache, kind, staged, flags, pc, plan, fresh, hole>>

\* Another operator, or a template push, changes a field of a table, or it goes.
Drift(i) ==
  /\ Move({i}, "live")
  /\ \/ \E f \in Fields, v \in Vals \cup {NoVal} :
          live' = [live EXCEPT ![i] =
                     Normalize(kind, [g \in Fields |-> IF g = f THEN v ELSE At(@, g)])]
     \/ live' = [live EXCEPT ![i] = Absent]
  /\ UNCHANGED templates

Associate(i) ==
  /\ Move({i}, "template")
  /\ \E groups \in AssocSet : assoc' = [assoc EXCEPT ![i] = groups]
  /\ UNCHANGED <<live, selected, body>>

Select(g) ==
  /\ Move(Items, "template")
  /\ selected' \in {selected \cup {g}, selected \ {g}}
  /\ UNCHANGED <<live, assoc, body>>

Edit(g) ==
  /\ Move(Items, "template")
  /\ \E b \in BodySet : body' = [body EXCEPT ![g] = b]
  /\ UNCHANGED <<live, assoc, selected>>

\* The resolver's ttl runs out.
Expire ==
  /\ pc # "over" /\ cache # NoCache /\ cache' = NoCache
  /\ UNCHANGED <<live, templates, kind, staged, flags, pc, plan, fresh, hole,
                 moved, moves>>

Next ==
  \/ Begin \/ Guard \/ Decide \/ Done \/ Reverted
  \/ \E i \in Items : BuildPlan(i) \/ Recheck(i) \/ Write(i) \/ Verify(i) \/ Revert(i)
  \/ \E i \in Items : Drift(i) \/ Associate(i)
  \/ \E g \in Groups : Select(g) \/ Edit(g)
  \/ Expire

Spec == Init /\ [][Next]_vars

-----------------------------------------------------------------------------
(* Properties. *)

\* Type invariant.
TypeOK ==
  /\ live \in [Items -> Tables]
  /\ assoc \in [Items -> Seq(Groups)] /\ selected \subseteq Groups
  /\ body \in [Groups -> SUBSET Fields] /\ cache \in Caches
  /\ kind \in KindSet
  /\ staged \in [Items -> IntentSet \cup {Nothing}]
  /\ flags \in [rebase : BOOLEAN, override : BOOLEAN]
  /\ pc \in Steps
  /\ plan \in [Items -> PlanItems] /\ fresh \in [Items -> PlanItems]
  /\ hole \in [Items -> SUBSET {"rebased", "second", "cached", "coarse", "vocabulary"}]
  /\ moved \in [Items -> SUBSET {"live", "template"}]
  /\ moves \in Nat

Applies(i) == pc = "write" /\ fresh[i].at = "checked" /\ fresh'[i].at = "written"

\* Without --override-template, no commit writes a field that an associated
\* template asserts, and would take back at the next push: whatever reads fail
\* and however templates and associations change up to the second check.  What
\* is left out is named in Holes, or changed after the check (txn.py,
\* ownership.py).
WriteIsLocal ==
  [][\A i \in Items :
       Applies(i) /\ ~flags.override /\ hole[i] = {} /\ moved[i] = {} =>
         Changed(live[i], live'[i]) \cap Governed(assoc[i], selected, body) = {}]_vars

\* A commit changes nothing its operator did not ask for: without --rebase only
\* what the plan showed, to what it showed, and with it only what the staged
\* intent mentions, or what goes when no map is left; what another operator
\* changed since the plan is refused or kept (txn.py, the drift abort and
\* --rebase).
WriteIsAsked ==
  [][\A i \in Items :
       Applies(i) /\ "live" \notin moved[i] =>
         \A f \in Changed(live[i], live'[i]) :
           \/ flags.rebase /\ f \in Mentions(kind, staged[i])
           \/ flags.rebase /\ f \in kind.inherits /\ live'[i] = Absent
           \/ /\ f \in Changed(plan[i].old, plan[i].new)
              /\ At(live'[i], f) = At(plan[i].new, f)
              /\ ~flags.rebase]_vars
=============================================================================
