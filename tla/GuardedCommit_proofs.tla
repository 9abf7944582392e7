------------------------ MODULE GuardedCommit_proofs ------------------------
(***************************************************************************)
(* Proofs about GuardedCommit for any appliances, fields, values, intents, *)
(* templates, associations and kinds, and any number of changes by others: *)
(*                                                                         *)
(*   TypeCorrect      Spec => []TypeOK                                     *)
(*   LocalWrites      Spec => WriteIsLocal                                 *)
(*   AskedWrites      Spec => WriteIsAsked                                 *)
(*                                                                         *)
(* They rest on what the pure parts guarantee: two pairs of tables with    *)
(* the same difference change the same fields (ChangedByEntries), a merge  *)
(* changes what the intent mentions (MaterializeIsAsked), and a verdict    *)
(* that does not block is right about the fabric it was read from, unless  *)
(* it has one of the holes (VerdictIsSound).  The invariant IInv carries   *)
(* them from the second check to the write.                                *)
(***************************************************************************)
EXTENDS GuardedCommit, TLAPS

USE OwnershipAssumption, GuardedCommitAssumption

-----------------------------------------------------------------------------
(* Tables.                                                                 *)

Values == Vals \cup {NoVal}

LEMMA AtType ==
  ASSUME NEW t \in Tables, NEW f \in Fields
  PROVE  At(t, f) \in Values
BY DEF At, Tables, Rows, Values

LEMMA AbsentIsNoRow == \A t \in [Fields -> Values] : t # Absent
BY DEF Values

LEMMA NormalizeType ==
  ASSUME NEW m \in Kinds, NEW row \in [Fields -> Values]
  PROVE  /\ Normalize(m, row) \in Tables
         /\ Normalize(m, row) = Absent <=> \A f \in Fields \ m.inherits : row[f] = NoVal
<1>1. CASE \A f \in Fields \ m.inherits : row[f] = NoVal
  BY <1>1 DEF Normalize, Tables
<1>2. CASE ~ \A f \in Fields \ m.inherits : row[f] = NoVal
  <2>1. row # Empty
    BY <1>2 DEF Empty
  <2> QED
    BY <1>2, <2>1, AbsentIsNoRow DEF Normalize, Tables, Rows, Values
<1> QED
  BY <1>1, <1>2

\* The fields a set of entries changes.
Touched(entries) ==
  {f \in Fields : \E e \in entries :
     e.path = f \/ (e.path = Whole /\ At(e.old, f) # At(e.new, f))}

\* What changes can be told from the entries of a difference.
LEMMA ChangedByEntries ==
  ASSUME NEW old \in Tables, NEW new \in Tables
  PROVE  Changed(old, new) = Touched(Diff(old, new))
<1>1. CASE old = new
  BY <1>1 DEF Changed, Touched, Diff
<1>2. CASE old # new /\ Absent \in {old, new}
  <2>1. Diff(old, new) = {Entry(Whole, old, new)}
    BY <1>2 DEF Diff
  <2>2. /\ Entry(Whole, old, new).path = Whole
        /\ Entry(Whole, old, new).old = old
        /\ Entry(Whole, old, new).new = new
    BY DEF Entry
  <2> QED
    BY <2>1, <2>2 DEF Changed, Touched
<1>3. CASE old # new /\ Absent \notin {old, new}
  <2> DEFINE differ == {g \in Fields : old[g] # new[g]}
  <2>1. Diff(old, new) = {Entry(f, old[f], new[f]) : f \in differ}
    BY <1>3 DEF Diff
  <2>2. \A f \in differ : Entry(f, old[f], new[f]).path = f
    BY DEF Entry
  <2>3. Changed(old, new) = differ
    BY <1>3 DEF Changed, At
  <2> HIDE DEF differ
  <2>4. Touched(Diff(old, new)) = differ
    <3>1. \A e \in Diff(old, new) : e.path \in differ /\ e.path # Whole
      BY <2>1, <2>2 DEF differ
    <3>2. \A f \in differ : \E e \in Diff(old, new) : e.path = f
      BY <2>1, <2>2
    <3>3. differ \subseteq Fields
      BY DEF differ
    <3> QED
      BY <3>1, <3>2, <3>3 DEF Touched
  <2> QED
    BY <2>3, <2>4
<1> QED
  BY <1>1, <1>2, <1>3

\* An intent changes what it mentions, and what its kind inherits goes with the
\* table.
LEMMA MaterializeIsAsked ==
  ASSUME NEW m \in Kinds, NEW intent \in Intents, NEW table \in Tables
  PROVE  /\ Materialize(m, intent, table) \in Tables
         /\ \A f \in Changed(table, Materialize(m, intent, table)) :
              \/ f \in Mentions(m, intent)
              \/ f \in m.inherits /\ Materialize(m, intent, table) = Absent
<1> DEFINE row == Merged(intent, table)
           new == Inherit(m, row, table)
<1>0. intent.set \in [Fields -> Values \cup {Keep}] /\ \A f \in Fields : At(table, f) \in Values
  BY AtType DEF Intents, Values
<1>1. /\ row \in [Fields -> Values]
      /\ \A f \in Fields : row[f] = IF intent.set[f] # Keep THEN intent.set[f]
                                    ELSE IF intent.mode = "merge" THEN At(table, f)
                                    ELSE NoVal
  BY <1>0 DEF Merged, Values
<1>2. /\ new \in [Fields -> Values]
      /\ \A f \in Fields : new[f] = IF f \in m.inherits /\ row[f] = NoVal
                                    THEN At(table, f) ELSE row[f]
  BY <1>0, <1>1 DEF Inherit
<1> HIDE DEF row, new
<1>3. \A f \in Fields \ Mentions(m, intent) :
        /\ intent.mode # "delete" /\ intent.set[f] = Keep
        /\ intent.mode = "merge" \/ f \in m.inherits
  BY DEF Mentions, Kept
<1>4. CASE intent.mode = "delete" \/ Normalize(m, row) = Absent
  <2>1. Materialize(m, intent, table) = Absent
    BY <1>4 DEF Materialize, row
  <2>2. ASSUME NEW f \in Fields \ Mentions(m, intent), f \notin m.inherits
        PROVE  At(table, f) = NoVal
    <3>1. Normalize(m, row) = Absent
      BY <1>3, <1>4
    <3>2. row[f] = NoVal
      BY <1>1, <2>2, <3>1, NormalizeType
    <3> QED
      BY <1>1, <1>3, <2>2, <3>2
  <2> QED
    BY <2>1, <2>2 DEF Changed, At, Tables
<1>5. CASE intent.mode # "delete" /\ Normalize(m, row) # Absent
  <2>1. Materialize(m, intent, table) = new
    BY <1>5 DEF Materialize, row, new
  <2>2. PICK g \in Fields \ m.inherits : row[g] # NoVal
    BY <1>1, <1>5, NormalizeType
  <2>3. new[g] # NoVal
    BY <1>2, <2>2
  <2>4. new \in Tables /\ new # Absent
    BY <1>2, <2>2, <2>3, AbsentIsNoRow DEF Tables, Rows, Empty, Values
  <2>5. \A f \in Fields \ Mentions(m, intent) : new[f] = At(table, f)
    BY <1>1, <1>2, <1>3
  <2> QED
    BY <2>1, <2>4, <2>5 DEF Changed, At
<1> QED
  BY <1>4, <1>5

-----------------------------------------------------------------------------
(* Verdicts.                                                               *)

BodyInv == body \in [Groups -> BodySet]

LEMMA RangeOfAssoc ==
  ASSUME NEW s \in Seq(Groups)
  PROVE  /\ Range(s) \subseteq Groups
         /\ s = <<>> => Range(s) = {}
         /\ \A g \in Range(s) : \E j \in DOMAIN s : s[j] = g
BY DEF Range

LEMMA ViewOf ==
  ASSUME TypeOK, NEW i \in Items, NEW failure \in Failures
  PROVE  /\ View(i, failure).assoc = assoc[i]
         /\ View(i, failure).selected = selected
         /\ View(i, failure).body \in [Groups -> SUBSET Fields]
         /\ View(i, failure).bodyRead \in BOOLEAN
BY DEF View, TypeOK, Caches

LEMMA CacheAfterType ==
  ASSUME TypeOK, NEW i \in Items, NEW failure \in Failures, NEW entries
  PROVE  CacheAfter(View(i, failure), entries) \in Caches
<1>1. View(i, failure).body \in [Groups -> SUBSET Fields]
  BY ViewOf
<1> QED
  BY <1>1 DEF CacheAfter, TypeOK, Caches

LEMMA VerdictType ==
  ASSUME NEW m, NEW view, NEW entries
  PROVE  Resolve(m, view, entries) \in Verdicts
BY DEF Resolve, OwningGroup, Verdicts

\* A verdict that is narrowed: what is touched is not what is governed.
LEMMA NarrowedIsSound ==
  ASSUME TypeOK, BodyInv, NEW i \in Items, NEW failure \in Failures, NEW new,
         OwningGroup(kind, View(i, failure)) = "owned",
         NotGoverned(kind, View(i, failure), Entries(plan[i])),
         Holes(i, View(i, failure), new) = {}
  PROVE  /\ Diff(live[i], new) = Entries(plan[i])
         /\ Touched(Entries(plan[i])) \cap Governed(assoc[i], selected, body) = {}
<1> DEFINE view == View(i, failure)
           entries == Entries(plan[i])
           byPrio == kind.declared = {}
           pathless == IF byPrio THEN ~(Paths(entries) \subseteq Prios)
                                 ELSE Whole \in Paths(entries)
<1>1. /\ Diff(live[i], new) = entries
      /\ byPrio => \A g, k \in Range(assoc[i]) \cap selected : g = k
      /\ byPrio => view.body = body
      /\ ~pathless
  <2>1. \A h \in {"rebased", "second", "cached", "coarse"} :
          ~ \/ h = "rebased" /\ Diff(live[i], new) # entries
            \/ h = "second" /\ byPrio
               /\ \E g, k \in Range(assoc[i]) \cap selected : g # k
            \/ h = "cached" /\ byPrio /\ view.body # body
            \/ h = "coarse" /\ pathless
    BY DEF Holes
  <2> QED
    BY <2>1
<1>2. /\ view.assoc = assoc[i] /\ view.selected = selected
      /\ view.body \in [Groups -> SUBSET Fields] /\ view.bodyRead \in BOOLEAN
  BY ViewOf
<1>3. assoc[i] \in Seq(Groups) /\ body \in [Groups -> SUBSET Fields] /\ kind \in KindSet
  BY DEF TypeOK
<1> HIDE DEF view, entries
<1>4. /\ Whole \notin Paths(entries)
      /\ Touched(entries) \subseteq Paths(entries) \cap Fields
  <2>1. Whole \notin Paths(entries)
    BY <1>1 DEF Fields
  <2> QED
    BY <2>1 DEF Touched, Paths
<1>5. CASE ~byPrio
  <2>1. Paths(entries) \cap kind.declared = {}
    BY <1>5 DEF NotGoverned, view, entries
  <2>2. \A g \in Groups : body[g] \subseteq kind.declared
    BY <1>3, <1>5 DEF BodyInv
  <2>3. Governed(assoc[i], selected, body) \subseteq kind.declared
    BY <1>3, <2>2, RangeOfAssoc DEF Governed
  <2> QED
    BY <1>1, <1>4, <2>1, <2>3 DEF entries
<1>6. CASE byPrio
  <2>1. /\ GovernedPrios(kind, view) # {}
        /\ Paths(entries) \cap GovernedPrios(kind, view) = {}
    BY <1>6 DEF NotGoverned, view, entries
  <2>2. PICK g \in Groups : FirstMatch(kind, view, g) /\ view.bodyRead
    BY <1>2, <2>1 DEF GovernedPrios
  <2>3. g \in Range(assoc[i]) \cap selected
    BY <1>2, <1>3, <2>2 DEF FirstMatch, Matches, Range
  <2>4. Governed(assoc[i], selected, body) \subseteq body[g]
    BY <1>1, <1>6, <2>3 DEF Governed
  <2>5. Prios \cap body[g] \subseteq GovernedPrios(kind, view)
    BY <1>1, <1>6, <2>2 DEF GovernedPrios
  <2>6. Paths(entries) \subseteq Prios
    BY <1>1, <1>6
  <2> QED
    BY <1>1, <1>4, <2>1, <2>4, <2>5, <2>6 DEF entries
<1> QED
  BY <1>5, <1>6

\* A verdict of no owner is right: no associated group asserts anything.
LEMMA UnownedIsSound ==
  ASSUME TypeOK, NEW i \in Items, NEW failure \in Failures, NEW new,
         OwningGroup(kind, View(i, failure)) = "unowned",
         Holes(i, View(i, failure), new) = {}
  PROVE  Governed(assoc[i], selected, body) = {}
<1> DEFINE view == View(i, failure)
<1>1. /\ view.assoc = assoc[i] /\ view.selected = selected /\ view.bodyRead \in BOOLEAN
  BY ViewOf
<1>2. assoc[i] \in Seq(Groups)
  BY DEF TypeOK
<1>3. kind.known \/ view.bodyRead
  BY DEF Holes
<1> HIDE DEF view
<1>4. CASE view.assoc = <<>>
  <2>1. assoc[i] = <<>>
    BY <1>1, <1>4
  <2>2. Range(assoc[i]) = {}
    BY <2>1 DEF Range
  <2> QED
    BY <2>2 DEF Governed
<1>5. CASE view.assoc # <<>>
  <2>1. /\ \A g \in Range(view.assoc) : ~Matches(kind, view, g)
        /\ Range(view.assoc) \subseteq view.selectRead
        /\ ~(view.bodyRead /\ ~kind.known)
    BY <1>5 DEF OwningGroup, view
  <2>2. Range(view.assoc) \cap view.selected = {}
    BY <1>3, <2>1 DEF Matches
  <2> QED
    BY <1>1, <2>2 DEF Governed
<1> QED
  BY <1>4, <1>5

\* Whatever reads fail: a change that is let through touches nothing governed.
LEMMA VerdictIsSound ==
  ASSUME TypeOK, BodyInv, NEW i \in Items, NEW failure \in Failures, NEW new \in Tables,
         Resolve(kind, View(i, failure), Entries(plan[i])) = "unowned",
         Holes(i, View(i, failure), new) = {}
  PROVE  Changed(live[i], new) \cap Governed(assoc[i], selected, body) = {}
<1>1. CASE OwningGroup(kind, View(i, failure)) = "owned"
  <2>1. NotGoverned(kind, View(i, failure), Entries(plan[i]))
    BY <1>1 DEF Resolve
  <2>2. live[i] \in Tables
    BY DEF TypeOK
  <2> QED
    BY <1>1, <2>1, <2>2, NarrowedIsSound, ChangedByEntries
<1>2. CASE OwningGroup(kind, View(i, failure)) # "owned"
  <2>1. OwningGroup(kind, View(i, failure)) = "unowned"
    BY <1>2 DEF Resolve
  <2> QED
    BY <2>1, UnownedIsSound
<1> QED
  BY <1>1, <1>2

-----------------------------------------------------------------------------
(* From the second check to the write.                                     *)

\* Nothing is checked before the lock, or after the end.
Quiet == pc \in {"idle", "plan", "over"} => \A i \in Items : fresh[i].at = "none"

\* What is to be written, and where it comes from.
WantedInv(i) ==
  fresh[i].at # "none" =>
    fresh[i].new = IF flags.rebase THEN Materialize(kind, staged[i], fresh[i].old)
                                   ELSE plan[i].new

\* What was checked is still so, unless it moved.
CheckedInv(i) ==
  fresh[i].at = "checked" =>
    /\ "live" \notin moved[i] => live[i] = fresh[i].old
    /\ /\ ~flags.override /\ fresh[i].verdict = "unowned" /\ hole[i] = {}
       /\ moved[i] = {} /\ Entries(fresh[i]) # {}
       => Changed(fresh[i].old, fresh[i].new) \cap
            Governed(assoc[i], selected, body) = {}

\* Nothing is written past a block or a drift.
PassedInv == pc = "write" => ~Blocked /\ ~Stale

IInv == /\ TypeOK /\ BodyInv /\ Quiet /\ PassedInv
        /\ \A i \in Items : WantedInv(i) /\ CheckedInv(i)

LEMMA ItemType ==
  /\ NoItem \in PlanItems /\ NoItem.at = "none"
  /\ \A at \in Stages, old, new \in Tables, v \in Verdicts :
       /\ PlanItem(at, old, new, v) \in PlanItems
       /\ PlanItem(at, old, new, v).at = at
       /\ PlanItem(at, old, new, v).old = old
       /\ PlanItem(at, old, new, v).new = new
       /\ PlanItem(at, old, new, v).verdict = v
BY DEF NoItem, PlanItem, PlanItems, Stages, Tables, Verdicts

LEMMA NothingType == Nothing \in Intents
BY DEF Nothing, Intents

LEMMA StagedType ==
  ASSUME TypeOK, NEW i \in Items
  PROVE  staged[i] \in Intents /\ kind \in Kinds
BY NothingType DEF TypeOK

\* At first there is no item.
THEOREM InitIInv == Init => IInv
<1> SUFFICES ASSUME Init PROVE IInv
  OBVIOUS
<1>1. TypeOK /\ BodyInv
  <2>1. live \in [Items -> Tables] /\ assoc \in [Items -> Seq(Groups)]
    BY DEF Init
  <2>2. body \in [Groups -> BodySet] /\ cache \in Caches
    BY DEF Init, Caches
  <2>3. plan \in [Items -> PlanItems] /\ fresh \in [Items -> PlanItems]
    BY ItemType DEF Init
  <2> QED
    BY <2>1, <2>2, <2>3 DEF Init, TypeOK, BodyInv, Steps
<1>2. Quiet /\ PassedInv
  BY ItemType DEF Init, Quiet, PassedInv
<1>3. \A i \in Items : WantedInv(i) /\ CheckedInv(i)
  BY ItemType DEF Init, WantedInv, CheckedInv
<1> QED
  BY <1>1, <1>2, <1>3 DEF IInv

\* Once it is over, nothing is left of the plan.
LEMMA OverStep ==
  ASSUME IInv, Over, live' \in [Items -> Tables],
         staged' = staged \/ Acknowledge, UNCHANGED <<templates, cache, kind, moves>>
  PROVE  IInv'
<1> USE DEF IInv, templates
<1>1. TypeOK'
  <2>1. staged' \in [Items -> IntentSet \cup {Nothing}]
    BY DEF TypeOK, Acknowledge
  <2>2. plan' \in [Items -> PlanItems] /\ fresh' \in [Items -> PlanItems]
    BY ItemType DEF Over
  <2> QED
    BY <2>1, <2>2 DEF TypeOK, Over, Steps
<1>2. BodyInv' /\ PassedInv'
  BY DEF BodyInv, PassedInv, Over
<1>3. Quiet' /\ \A i \in Items : (WantedInv(i) /\ CheckedInv(i))'
  BY ItemType DEF Quiet, WantedInv, CheckedInv, Over
<1> QED
  BY <1>1, <1>2, <1>3

\* A commit begins.
LEMMA BeginStep ==
  ASSUME IInv, Begin
  PROVE  IInv'
<1> USE DEF IInv, Begin, templates
<1>1. TypeOK'
  BY DEF TypeOK, Steps
<1>2. BodyInv' /\ Quiet' /\ PassedInv'
  BY DEF BodyInv, Quiet, PassedInv
<1>3. \A i \in Items : (WantedInv(i) /\ CheckedInv(i))'
  BY DEF Quiet, WantedInv, CheckedInv
<1> QED
  BY <1>1, <1>2, <1>3

\* An item is planned.
LEMMA BuildPlanStep ==
  ASSUME IInv, NEW i \in Items, BuildPlan(i)
  PROVE  IInv'
<1> USE DEF IInv, BuildPlan, templates
<1> DEFINE new == Materialize(kind, staged[i], live[i])
           item(v) == PlanItem("shown", live[i], new, v)
<1>1. live[i] \in Tables /\ new \in Tables
  BY StagedType, MaterializeIsAsked DEF TypeOK
<1>2. (\E v \in Verdicts : plan' = [plan EXCEPT ![i] = item(v)]) /\ cache' \in Caches
  <2>1. CASE plan' = [plan EXCEPT ![i] = item("unowned")] /\ UNCHANGED cache
    BY <2>1 DEF Verdicts, TypeOK
  <2>2. CASE \E failure \in Failures :
               /\ plan' = [plan EXCEPT ![i] =
                    item(Resolve(kind, View(i, failure), Diff(live[i], new)))]
               /\ cache' = CacheAfter(View(i, failure), Diff(live[i], new))
    <3>1. PICK failure \in Failures :
            /\ plan' = [plan EXCEPT ![i] =
                 item(Resolve(kind, View(i, failure), Diff(live[i], new)))]
            /\ cache' = CacheAfter(View(i, failure), Diff(live[i], new))
      BY <2>2
    <3>2. cache' \in Caches
      BY <3>1, CacheAfterType
    <3> QED
      BY <3>1, <3>2, VerdictType
  <2> QED
    BY <2>1, <2>2
<1>3. plan' \in [Items -> PlanItems]
  BY <1>1, <1>2, ItemType DEF TypeOK, Stages
<1>4. TypeOK'
  BY <1>2, <1>3 DEF TypeOK
<1>5. BodyInv' /\ Quiet' /\ PassedInv'
  BY DEF BodyInv, Quiet, PassedInv
<1>6. \A j \in Items : (WantedInv(j) /\ CheckedInv(j))'
  BY DEF Quiet, WantedInv, CheckedInv
<1> QED
  BY <1>4, <1>5, <1>6

\* The first check lets it on, or ends it.
LEMMA GuardStep ==
  ASSUME IInv, Guard
  PROVE  IInv'
<1> USE DEF Guard, templates
<1>1. CASE Over
  BY <1>1, OverStep DEF IInv, TypeOK
<1>2. CASE pc' = "check" /\ UNCHANGED <<flags, plan, fresh, hole, moved>>
  <2> USE <1>2 DEF IInv
  <2>1. TypeOK' /\ BodyInv' /\ Quiet' /\ PassedInv'
    BY DEF TypeOK, Steps, BodyInv, Quiet, PassedInv
  <2>2. \A j \in Items : (WantedInv(j) /\ CheckedInv(j))'
    BY DEF Quiet, WantedInv, CheckedInv
  <2> QED
    BY <2>1, <2>2
<1> QED
  BY <1>1, <1>2

\* What goes on under the lock is kept as it was read.
LEMMA RecheckStep ==
  ASSUME IInv, NEW i \in Items, Recheck(i)
  PROVE  IInv'
<1> USE DEF IInv, templates
<1> DEFINE new == FreshNew(i)
<1>1. live[i] \in Tables /\ plan[i] \in PlanItems /\ new \in Tables
  BY StagedType, MaterializeIsAsked DEF TypeOK, FreshNew, PlanItems
<1> DEFINE holes == {"rebased", "second", "cached", "coarse", "vocabulary"}
           unchanged == UNCHANGED <<live, templates, kind, staged, flags, pc, plan, moves>>
<1>2. /\ pc = "check" /\ moved' = [moved EXCEPT ![i] = {}] /\ unchanged
  BY DEF Recheck
<1>3. PICK v \in Verdicts :
        /\ fresh' = [fresh EXCEPT ![i] = PlanItem("checked", live[i], new, v)]
        /\ cache' \in Caches /\ hole' \in [Items -> SUBSET holes]
        /\ \A j \in Items : j # i => hole'[j] = hole[j]
        /\ ~flags.override /\ v = "unowned" /\ hole'[i] = {} /\ Diff(live[i], new) # {}
           => Changed(live[i], new) \cap Governed(assoc[i], selected, body) = {}
  <2>1. CASE /\ flags.override \/ Diff(live[i], new) = {}
             /\ fresh' = [fresh EXCEPT ![i] =
                  PlanItem("checked", live[i], new, plan[i].verdict)]
             /\ UNCHANGED <<cache, hole>>
    <3>1. plan[i].verdict \in Verdicts
      BY <1>1 DEF PlanItems
    <3> QED
      BY <2>1, <3>1 DEF TypeOK
  <2>2. CASE \E failure \in Failures :
               LET view == View(i, failure)
               IN /\ ~flags.override /\ Diff(live[i], new) # {}
                  /\ fresh' = [fresh EXCEPT ![i] =
                       PlanItem("checked", live[i], new,
                                Resolve(kind, view, Entries(plan[i])))]
                  /\ cache' = CacheAfter(view, Entries(plan[i]))
                  /\ hole' = [hole EXCEPT ![i] = Holes(i, view, new)]
    <3>1. PICK failure \in Failures :
            /\ fresh' = [fresh EXCEPT ![i] =
                 PlanItem("checked", live[i], new,
                          Resolve(kind, View(i, failure), Entries(plan[i])))]
            /\ cache' = CacheAfter(View(i, failure), Entries(plan[i]))
            /\ hole' = [hole EXCEPT ![i] = Holes(i, View(i, failure), new)]
      BY <2>2
    <3>2. cache' \in Caches
      BY <3>1, CacheAfterType
    <3>3. Holes(i, View(i, failure), new) \in SUBSET holes
      BY DEF Holes
    <3>4. hole' \in [Items -> SUBSET holes] /\ hole'[i] = Holes(i, View(i, failure), new)
      BY <3>1, <3>3 DEF TypeOK
    <3>5. \A j \in Items : j # i => hole'[j] = hole[j]
      BY <3>1 DEF TypeOK
    <3>6. Resolve(kind, View(i, failure), Entries(plan[i])) = "unowned" /\ hole'[i] = {}
          => Changed(live[i], new) \cap Governed(assoc[i], selected, body) = {}
      BY <1>1, <3>4, VerdictIsSound
    <3> QED
      BY <3>1, <3>2, <3>4, <3>5, <3>6, VerdictType
  <2> QED
    BY <2>1, <2>2 DEF Recheck
<1> HIDE DEF new
<1>4. /\ fresh' \in [Items -> PlanItems]
      /\ fresh'[i] = PlanItem("checked", live[i], new, v)
      /\ \A j \in Items : j # i => fresh'[j] = fresh[j] /\ moved'[j] = moved[j]
  BY <1>1, <1>2, <1>3, ItemType DEF TypeOK, Stages
<1>5. /\ fresh'[i].at = "checked" /\ fresh'[i].old = live[i] /\ fresh'[i].new = new
      /\ fresh'[i].verdict = v
  BY <1>1, <1>4, ItemType DEF Stages
<1>6. TypeOK'
  BY <1>2, <1>3, <1>4 DEF TypeOK
<1>7. BodyInv' /\ Quiet' /\ PassedInv'
  BY <1>2 DEF BodyInv, Quiet, PassedInv
<1>8. \A j \in Items : WantedInv(j)'
  BY <1>2, <1>4, <1>5 DEF WantedInv, new, FreshNew
<1>9. CheckedInv(i)'
  BY <1>2, <1>3, <1>5 DEF CheckedInv, Entries
<1>10. \A j \in Items : j # i => CheckedInv(j)'
  BY <1>2, <1>3, <1>4 DEF CheckedInv
<1> QED
  BY <1>6, <1>7, <1>8, <1>9, <1>10

\* Nothing blocks and nothing drifted, or it is over.
LEMMA DecideStep ==
  ASSUME IInv, Decide
  PROVE  IInv'
<1> USE DEF Decide, templates
<1>1. CASE Over /\ (UNCHANGED staged \/ Acknowledge)
  BY <1>1, OverStep DEF IInv, TypeOK
<1>2. CASE /\ ~(Blocked \/ Stale) /\ pc' = "write"
           /\ UNCHANGED <<staged, flags, plan, fresh, hole, moved>>
  <2> USE <1>2 DEF IInv
  <2>1. TypeOK' /\ BodyInv' /\ Quiet'
    BY DEF TypeOK, Steps, BodyInv, Quiet
  <2>2. PassedInv'
    BY DEF PassedInv, Blocked, Stale, Work, ChangedItems
  <2>3. \A j \in Items : (WantedInv(j) /\ CheckedInv(j))'
    BY DEF WantedInv, CheckedInv
  <2> QED
    BY <2>1, <2>2, <2>3
<1> QED
  BY <1>1, <1>2

\* An item goes on to its next stage; what was read of it stays.
LEMMA Staged ==
  ASSUME TypeOK, NEW i \in Items, NEW at \in Stages, Stage(i, at)
  PROVE  /\ fresh' \in [Items -> PlanItems]
         /\ \A j \in Items : /\ fresh'[j].at = IF j = i THEN at ELSE fresh[j].at
                             /\ fresh'[j].old = fresh[j].old
                             /\ fresh'[j].new = fresh[j].new
                             /\ fresh'[j].verdict = fresh[j].verdict
<1> DEFINE item == [fresh[i] EXCEPT !.at = at]
<1>1. fresh[i] \in PlanItems /\ fresh' = [fresh EXCEPT ![i] = item]
  BY DEF TypeOK, Stage
<1>2. /\ item \in PlanItems /\ item.at = at /\ item.old = fresh[i].old
      /\ item.new = fresh[i].new /\ item.verdict = fresh[i].verdict
  BY <1>1 DEF PlanItems
<1> HIDE DEF item
<1>3. \A j \in Items : fresh'[j] = IF j = i THEN item ELSE fresh[j]
  BY <1>1 DEF TypeOK
<1> QED
  BY <1>1, <1>2, <1>3 DEF TypeOK

LEMMA StageStep ==
  ASSUME IInv, NEW i \in Items, NEW at \in {"none", "written", "verified"},
         Stage(i, at), fresh[i].at # "none",
         pc \in {"write", "revert"}, pc' \in {pc, "revert"},
         live' \in [Items -> Tables], \A j \in Items : j # i => live'[j] = live[j],
         UNCHANGED <<templates, cache, kind, staged, flags, plan, hole, moved, moves>>
  PROVE  IInv'
<1> USE DEF IInv, templates
<1>1. /\ fresh' \in [Items -> PlanItems]
      /\ \A j \in Items : /\ fresh'[j].at = IF j = i THEN at ELSE fresh[j].at
                          /\ fresh'[j].old = fresh[j].old
                          /\ fresh'[j].new = fresh[j].new
                          /\ fresh'[j].verdict = fresh[j].verdict
  BY Staged DEF Stages
<1>2. TypeOK'
  BY <1>1 DEF TypeOK, Steps
<1>3. BodyInv' /\ Quiet'
  BY DEF BodyInv, Quiet
<1>4. PassedInv'
  <2>1. Blocked' => Blocked
    BY <1>1 DEF Blocked, Work, ChangedItems, Entries
  <2>2. Stale' => Stale
    BY <1>1 DEF Stale, ChangedItems, Entries
  <2> QED
    BY <2>1, <2>2 DEF PassedInv
<1>5. ASSUME NEW j \in Items PROVE WantedInv(j)'
  <2>1. WantedInv(j) /\ (fresh'[j].at # "none" => fresh[j].at # "none")
    BY <1>1
  <2>2. fresh'[j].old = fresh[j].old /\ fresh'[j].new = fresh[j].new
    BY <1>1
  <2> QED
    BY <2>1, <2>2 DEF WantedInv
<1>6. ASSUME NEW j \in Items PROVE CheckedInv(j)'
  <2>1. CASE fresh'[j].at # "checked"
    BY <2>1 DEF CheckedInv
  <2>2. CASE fresh'[j].at = "checked"
    <3>1. fresh[j].at = "checked" /\ live'[j] = live[j] /\ CheckedInv(j)
      BY <1>1, <2>2
    <3>2. /\ fresh'[j].old = fresh[j].old /\ fresh'[j].new = fresh[j].new
          /\ fresh'[j].verdict = fresh[j].verdict
      BY <1>1
    <3> QED
      BY <3>1, <3>2 DEF CheckedInv, Entries
  <2> QED
    BY <2>1, <2>2
<1> QED
  BY <1>2, <1>3, <1>4, <1>5, <1>6

\* A table takes what was wanted of it, or what it was.
LEMMA Placed ==
  ASSUME TypeOK, NEW i \in Items, NEW table \in Tables,
         UNCHANGED live \/ live' = [live EXCEPT ![i] = table]
  PROVE  live' \in [Items -> Tables] /\ \A j \in Items : j # i => live'[j] = live[j]
<1>1. live \in [Items -> Tables]
  BY DEF TypeOK
<1>2. CASE UNCHANGED live
  BY <1>1, <1>2
<1>3. CASE live' = [live EXCEPT ![i] = table]
  BY <1>1, <1>3
<1> QED
  BY <1>2, <1>3

LEMMA WriteStep ==
  ASSUME IInv, NEW i \in Items, Write(i)
  PROVE  IInv'
<1>1. fresh[i].new \in Tables
  BY DEF IInv, TypeOK, PlanItems
<1>2. live' \in [Items -> Tables] /\ \A j \in Items : j # i => live'[j] = live[j]
  BY <1>1, Placed DEF IInv, Write
<1> QED
  BY <1>2, StageStep DEF Write

LEMMA VerifyStep ==
  ASSUME IInv, NEW i \in Items, Verify(i)
  PROVE  IInv'
<1> USE DEF Verify
<1>1. CASE Stage(i, "verified") /\ UNCHANGED pc
  BY <1>1, StageStep DEF IInv, TypeOK
<1>2. CASE pc' = "revert" /\ UNCHANGED fresh
  <2> USE <1>2 DEF IInv, templates
  <2>1. TypeOK' /\ BodyInv' /\ Quiet' /\ PassedInv'
    BY DEF TypeOK, Steps, BodyInv, Quiet, PassedInv
  <2>2. \A j \in Items : (WantedInv(j) /\ CheckedInv(j))'
    BY DEF WantedInv, CheckedInv
  <2> QED
    BY <2>1, <2>2
<1> QED
  BY <1>1, <1>2

LEMMA RevertStep ==
  ASSUME IInv, NEW i \in Items, Revert(i)
  PROVE  IInv'
<1>1. fresh[i].old \in Tables
  BY DEF IInv, TypeOK, PlanItems
<1>2. live' \in [Items -> Tables] /\ \A j \in Items : j # i => live'[j] = live[j]
  BY <1>1, Placed DEF IInv, Revert
<1> QED
  BY <1>2, StageStep DEF Revert

LEMMA DoneStep ==
  ASSUME IInv, Done \/ Reverted
  PROVE  IInv'
BY OverStep DEF IInv, TypeOK, Done, Reverted

\* What others change is known to have moved.
LEMMA MoveStep ==
  ASSUME IInv, NEW items \in SUBSET Items, NEW what \in {"live", "template"},
         Move(items, what), live' \in [Items -> Tables],
         assoc' \in [Items -> Seq(Groups)], selected' \subseteq Groups, BodyInv',
         what = "live" => UNCHANGED templates,
         what = "template" => UNCHANGED live,
         \A j \in Items \ items :
           /\ live'[j] = live[j]
           /\ Governed(assoc'[j], selected', body') = Governed(assoc[j], selected, body)
  PROVE  IInv'
<1> USE DEF IInv, templates
<1>1. /\ moved' \in [Items -> SUBSET {"live", "template"}]
      /\ \A j \in Items : moved'[j] = IF j \in items /\ fresh[j].at # "none"
                                      THEN moved[j] \cup {what} ELSE moved[j]
  BY DEF Move, TypeOK
<1>2. UNCHANGED <<cache, kind, staged, flags, pc, plan, fresh, hole>>
  BY DEF Move
<1>3. TypeOK'
  <2>1. body' \in [Groups -> SUBSET Fields] /\ moves' \in Nat
    BY DEF BodyInv, Move, TypeOK
  <2> QED
    BY <1>1, <1>2, <2>1 DEF TypeOK
<1>4. Quiet' /\ PassedInv'
  BY <1>2 DEF Quiet, PassedInv, Blocked, Stale, Work, ChangedItems
<1>5. \A j \in Items : WantedInv(j)'
  BY <1>2 DEF WantedInv
<1>6. ASSUME NEW j \in Items PROVE CheckedInv(j)'
  <2>1. CASE j \in items
    BY <1>1, <1>2, <2>1 DEF CheckedInv
  <2>2. CASE j \notin items
    BY <1>1, <1>2, <2>2 DEF CheckedInv
  <2> QED
    BY <2>1, <2>2
<1> QED
  BY <1>3, <1>4, <1>5, <1>6

LEMMA DriftStep ==
  ASSUME IInv, NEW i \in Items, Drift(i)
  PROVE  IInv'
<1> USE DEF Drift, templates
<1>1. Absent \in Tables
  BY DEF Tables
<1>2. ASSUME NEW f \in Fields, NEW v \in Vals \cup {NoVal}
      PROVE  Normalize(kind, [g \in Fields |-> IF g = f THEN v ELSE At(live[i], g)])
               \in Tables
  <2>1. [g \in Fields |-> IF g = f THEN v ELSE At(live[i], g)] \in [Fields -> Values]
    BY AtType DEF IInv, TypeOK, Values
  <2> QED
    BY <2>1, NormalizeType, StagedType DEF IInv
<1>3. live' \in [Items -> Tables] /\ \A j \in Items : j # i => live'[j] = live[j]
  <2>1. CASE live' = [live EXCEPT ![i] = Absent]
    BY <1>1, <2>1, Placed DEF IInv
  <2>2. CASE \E f \in Fields, v \in Vals \cup {NoVal} :
               live' = [live EXCEPT ![i] =
                          Normalize(kind, [g \in Fields |->
                                             IF g = f THEN v ELSE At(live[i], g)])]
    BY <1>2, <2>2, Placed DEF IInv
  <2> QED
    BY <2>1, <2>2
<1>4. /\ {i} \in SUBSET Items /\ Move({i}, "live") /\ BodyInv'
      /\ assoc' \in [Items -> Seq(Groups)] /\ selected' \subseteq Groups
  BY DEF IInv, TypeOK, BodyInv
<1>5. \A j \in Items \ {i} :
        Governed(assoc'[j], selected', body') = Governed(assoc[j], selected, body)
  OBVIOUS
<1> QED
  BY <1>3, <1>4, <1>5, MoveStep

LEMMA AssociateStep ==
  ASSUME IInv, NEW i \in Items, Associate(i)
  PROVE  IInv'
<1>1. /\ assoc' \in [Items -> Seq(Groups)]
      /\ \A j \in Items : j # i => assoc'[j] = assoc[j]
  BY DEF IInv, TypeOK, Associate
<1>2. /\ {i} \in SUBSET Items /\ Move({i}, "template") /\ BodyInv' /\ live' = live
      /\ selected' = selected /\ body' = body
      /\ live' \in [Items -> Tables] /\ selected' \subseteq Groups
  BY DEF IInv, TypeOK, BodyInv, Associate
<1> QED
  BY <1>1, <1>2, MoveStep

LEMMA TemplateStep ==
  ASSUME IInv, NEW g \in Groups, Select(g) \/ Edit(g)
  PROVE  IInv'
<1>1. body' \in [Groups -> BodySet]
  <2>1. CASE Select(g)
    BY <2>1 DEF IInv, BodyInv, Select
  <2>2. CASE Edit(g)
    BY <2>2 DEF IInv, BodyInv, Edit
  <2> QED
    BY <2>1, <2>2
<1>2. selected' \subseteq Groups
  BY DEF IInv, TypeOK, Select, Edit
<1>3. /\ Move(Items, "template") /\ live' = live /\ live' \in [Items -> Tables]
      /\ assoc' \in [Items -> Seq(Groups)]
  BY DEF IInv, TypeOK, Select, Edit
<1> QED
  BY <1>1, <1>2, <1>3, MoveStep DEF BodyInv

LEMMA ExpireStep ==
  ASSUME IInv, Expire
  PROVE  IInv'
<1> USE DEF IInv, Expire, templates
<1>1. TypeOK' /\ BodyInv' /\ Quiet' /\ PassedInv'
  BY DEF TypeOK, Caches, BodyInv, Quiet, PassedInv, Blocked, Stale, Work, ChangedItems
<1>2. \A j \in Items : (WantedInv(j) /\ CheckedInv(j))'
  BY DEF WantedInv, CheckedInv
<1> QED
  BY <1>1, <1>2

THEOREM NextIInv == IInv /\ [Next]_vars => IInv'
<1> SUFFICES ASSUME IInv, [Next]_vars PROVE IInv'
  OBVIOUS
<1>1. CASE Begin \/ Guard \/ Decide \/ Done \/ Reverted
  BY <1>1, BeginStep, GuardStep, DecideStep, DoneStep
<1>2. CASE \E i \in Items :
             BuildPlan(i) \/ Recheck(i) \/ Write(i) \/ Verify(i) \/ Revert(i)
  BY <1>2, BuildPlanStep, RecheckStep, WriteStep, VerifyStep, RevertStep
<1>3. CASE \E i \in Items : Drift(i) \/ Associate(i)
  BY <1>3, DriftStep, AssociateStep
<1>4. CASE (\E g \in Groups : Select(g) \/ Edit(g)) \/ Expire
  BY <1>4, TemplateStep, ExpireStep
<1>5. CASE UNCHANGED vars
  <2> USE <1>5 DEF vars, templates, IInv
  <2>1. TypeOK' /\ BodyInv' /\ Quiet' /\ PassedInv'
    BY DEF TypeOK, BodyInv, Quiet, PassedInv, Blocked, Stale, Work, ChangedItems
  <2>2. \A j \in Items : (WantedInv(j) /\ CheckedInv(j))'
    BY DEF WantedInv, CheckedInv
  <2> QED
    BY <2>1, <2>2
<1> QED
  BY <1>1, <1>2, <1>3, <1>4, <1>5 DEF Next

THEOREM IInvHolds == Spec => []IInv
BY InitIInv, NextIInv, PTL DEF Spec

-----------------------------------------------------------------------------
(* Theorems.                                                               *)

\* The variables keep their types; in particular no intent and no normalization
\* makes a table with nothing in it.
THEOREM TypeCorrect == Spec => []TypeOK
<1>1. IInv => TypeOK
  BY DEF IInv
<1> QED
  BY <1>1, IInvHolds, PTL

\* Only the write of an item applies it, and what it changes was read under the
\* lock.
LEMMA AppliesWrites ==
  ASSUME IInv, Next, NEW i \in Items, Applies(i)
  PROVE  /\ pc = "write" /\ i \in Work /\ fresh[i].at = "checked" /\ UNCHANGED flags
         /\ live'[i] \in {live[i], fresh[i].new}
<1> USE DEF Applies
<1>1. Write(i)
  <2>1. ~Begin /\ ~Guard /\ ~Decide
    BY DEF Begin, Guard, Decide
  <2>2. ~Over
    BY ItemType DEF Over
  <2>3. ~Done /\ ~Reverted /\ ~Expire
    BY <2>2 DEF Done, Reverted, Expire
  <2>4. \A g \in Groups : ~Select(g) /\ ~Edit(g)
    BY DEF Select, Edit, Move
  <2>5. \A j \in Items : ~Drift(j) /\ ~Associate(j)
    BY DEF Drift, Associate, Move
  <2>6. ASSUME NEW j \in Items, Write(j) \/ Verify(j) \/ Revert(j)
        PROVE  j = i
    <3>1. fresh \in [Items -> PlanItems]
      BY DEF IInv, TypeOK
    <3> QED
      BY <2>6, <3>1 DEF Write, Verify, Revert, Stage
  <2>7. ~Verify(i) /\ ~Revert(i) /\ \A j \in Items : ~BuildPlan(j) /\ ~Recheck(j)
    BY DEF Verify, Revert, BuildPlan, Recheck
  <2> QED
    BY <2>1, <2>3, <2>4, <2>5, <2>6, <2>7 DEF Next
<1>2. live \in [Items -> Tables]
  BY DEF IInv, TypeOK
<1> QED
  BY <1>1, <1>2 DEF Write

LEMMA LocalStep ==
  ASSUME IInv, Next, NEW i \in Items, Applies(i), ~flags.override,
         hole[i] = {}, moved[i] = {}
  PROVE  Changed(live[i], live'[i]) \cap Governed(assoc[i], selected, body) = {}
<1> USE DEF IInv
<1>1. /\ pc = "write" /\ i \in Work /\ fresh[i].at = "checked"
      /\ live'[i] \in {live[i], fresh[i].new}
  BY AppliesWrites
<1>2. fresh[i].verdict = "unowned" /\ Entries(fresh[i]) # {}
  BY <1>1 DEF PassedInv, Blocked, BlocksWrite, Work
<1>3. /\ live[i] = fresh[i].old
      /\ Changed(fresh[i].old, fresh[i].new) \cap Governed(assoc[i], selected, body) = {}
  BY <1>1, <1>2 DEF CheckedInv
<1>4. CASE live'[i] = live[i]
  BY <1>4 DEF Changed
<1>5. CASE live'[i] = fresh[i].new
  BY <1>3, <1>5
<1> QED
  BY <1>1, <1>4, <1>5

\* Without an override no commit writes what an associated template asserts, but
\* for the holes of the narrowing and for what others change after the check.
THEOREM LocalWrites == Spec => WriteIsLocal
<1>1. IInv /\ [Next]_vars =>
        [\A i \in Items :
           Applies(i) /\ ~flags.override /\ hole[i] = {} /\ moved[i] = {} =>
             Changed(live[i], live'[i]) \cap Governed(assoc[i], selected, body) = {}]_vars
  BY LocalStep
<1> QED
  BY <1>1, IInvHolds, PTL DEF Spec, WriteIsLocal

LEMMA AskedStep ==
  ASSUME IInv, Next, NEW i \in Items, Applies(i), "live" \notin moved[i],
         NEW f \in Changed(live[i], live'[i])
  PROVE  \/ flags.rebase /\ f \in Mentions(kind, staged[i])
         \/ flags.rebase /\ f \in kind.inherits /\ live'[i] = Absent
         \/ /\ f \in Changed(plan[i].old, plan[i].new)
            /\ At(live'[i], f) = At(plan[i].new, f)
            /\ ~flags.rebase
<1> USE DEF IInv
<1>1. /\ pc = "write" /\ i \in Work /\ fresh[i].at = "checked"
      /\ live'[i] \in {live[i], fresh[i].new}
  BY AppliesWrites
<1>2. live'[i] = fresh[i].new /\ live[i] = fresh[i].old
  BY <1>1 DEF Changed, CheckedInv
<1>3. live[i] \in Tables /\ fresh[i] \in PlanItems /\ plan[i] \in PlanItems
  BY DEF TypeOK
<1>4. CASE flags.rebase
  <2>1. fresh[i].new = Materialize(kind, staged[i], live[i])
    BY <1>1, <1>2, <1>4 DEF WantedInv
  <2> QED
    BY <1>2, <1>3, <1>4, <2>1, MaterializeIsAsked, StagedType
<1>5. CASE ~flags.rebase
  <2>1. fresh[i].new = plan[i].new
    BY <1>1, <1>5 DEF WantedInv
  <2>2. Diff(fresh[i].old, fresh[i].new) = Diff(plan[i].old, plan[i].new)
    BY <1>1, <1>5 DEF PassedInv, Stale, Work, Entries
  <2>3. Changed(fresh[i].old, fresh[i].new) = Changed(plan[i].old, plan[i].new)
    BY <1>3, <2>2, ChangedByEntries DEF PlanItems
  <2> QED
    BY <1>2, <1>5, <2>1, <2>3
<1> QED
  BY <1>4, <1>5

\* A commit changes nothing its operator did not ask for: what the plan showed, or
\* with --rebase what the intent mentions; a change of somebody else's since the
\* plan is neither overwritten nor taken back.
THEOREM AskedWrites == Spec => WriteIsAsked
<1>1. IInv /\ [Next]_vars =>
        [\A i \in Items :
           Applies(i) /\ "live" \notin moved[i] =>
             \A f \in Changed(live[i], live'[i]) :
               \/ flags.rebase /\ f \in Mentions(kind, staged[i])
               \/ flags.rebase /\ f \in kind.inherits /\ live'[i] = Absent
               \/ /\ f \in Changed(plan[i].old, plan[i].new)
                  /\ At(live'[i], f) = At(plan[i].new, f)
                  /\ ~flags.rebase]_vars
  BY AskedStep
<1> QED
  BY <1>1, IInvHolds, PTL DEF Spec, WriteIsAsked
=============================================================================
