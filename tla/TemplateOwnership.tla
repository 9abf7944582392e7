------------------------- MODULE TemplateOwnership -------------------------
(***************************************************************************)
(* Would a template push undo this change?  The difference of two states   *)
(* of a policy table (src/src/pyecsdwan/diffing.py), what a staged intent  *)
(* makes of a state (candidate.py), and the verdict of ownership.py, as    *)
(* functions of what was read.                                             *)
(*                                                                         *)
(* A table is absent or gives each of its fields a value or none.  Some    *)
(* fields are keyed by a priority, the others (which map is active, a map  *)
(* without rules) are not.  A kind either declares the fields its template *)
(* governs (spec 004, L3) or is narrowed by priorities (L2); and it may    *)
(* have fields, like the active map, that nobody has to state.             *)
(***************************************************************************)
EXTENDS Naturals, Sequences, Functions

CONSTANTS
  Prios,   \* fields keyed by a priority
  Plain,   \* the other fields
  Groups,  \* template groups
  Vals,    \* values of a field
  NoVal,   \* a field that is not there
  Absent,  \* a table that is not there
  Whole,   \* the path of a table as a whole
  Keep     \* in an intent: a field it does not mention

Fields == Prios \cup Plain

ASSUME OwnershipAssumption ==
  /\ Prios \cap Plain = {}
  /\ Whole \notin Fields
  /\ NoVal \notin Vals /\ Keep \notin Vals \cup {NoVal}
  /\ Absent \notin [Fields -> Vals \cup {NoVal}]

Empty  == [f \in Fields |-> NoVal]
Rows   == [Fields -> Vals \cup {NoVal}] \ {Empty}
Tables == Rows \cup {Absent}

\* What the code knows of a kind: whether it is mapped to a section, by a name
\* that is verified or guessed and that the fabric has or has not; the fields
\* its template governs, if it declares them; and those it inherits.
Kinds == [mapped : BOOLEAN, verified : BOOLEAN, known : BOOLEAN,
          declared : SUBSET Fields, inherits : SUBSET Plain]

\* mutant: an emptied table is still a table.
NormalizeToItself(m, row) == row

\* normalize: a table with nothing in it, or with an active map and no maps, is
\* not there.
Normalize(m, row) ==
  IF \A f \in Fields \ m.inherits : row[f] = NoVal THEN Absent ELSE row

\* What a table has in a field, present or not.
At(table, f) == IF table = Absent THEN NoVal ELSE table[f]

-----------------------------------------------------------------------------
(* diffing._walk: a table on one side only is one entry, at its own path.  *)

Entry(path, old, new) == [path |-> path, old |-> old, new |-> new]

Diff(old, new) ==
  IF old = new THEN {}
  ELSE IF Absent \in {old, new} THEN {Entry(Whole, old, new)}
  ELSE {Entry(f, old[f], new[f]) : f \in {g \in Fields : old[g] # new[g]}}

Paths(entries) == {e.path : e \in entries}

\* The fields whose value is not the same in two tables.
Changed(old, new) == {f \in Fields : At(old, f) # At(new, f)}

-----------------------------------------------------------------------------
(* candidate.materialize_desired and canonicalize_desired.  An intent      *)
(* deletes the table, replaces it, or is merged over it, what it prunes    *)
(* removed first; what it leaves out and the kind inherits stays.          *)

Intents == [mode : {"merge", "replace", "delete"},
            set : [Fields -> Vals \cup {NoVal, Keep}]]

Kept(m, intent) ==
  {f \in IF intent.mode = "merge" THEN Fields ELSE m.inherits : intent.set[f] = Keep}

Mentions(m, intent) ==
  IF intent.mode = "delete" THEN Fields ELSE Fields \ Kept(m, intent)

Inherit(m, row, table) ==
  [f \in Fields |->
     IF f \in m.inherits /\ row[f] = NoVal THEN At(table, f) ELSE row[f]]

Merged(intent, table) ==
  [f \in Fields |->
     IF intent.set[f] # Keep THEN intent.set[f]
     ELSE IF intent.mode = "merge" THEN At(table, f) ELSE NoVal]

Materialize(m, intent, table) ==
  IF intent.mode = "delete" \/ Normalize(m, Merged(intent, table)) = Absent
  THEN Absent
  ELSE Inherit(m, Merged(intent, table), table)

-----------------------------------------------------------------------------
(* What a check of ownership gets to see: the groups associated with the   *)
(* appliance, in order, and whether they could be read; the groups that    *)
(* select the section, and those whose selection could be read; what the   *)
(* section asserts in each group, and whether that could be read.          *)

Views == [assoc : Seq(Groups), assocRead : BOOLEAN,
          selected : SUBSET Groups, selectRead : SUBSET Groups,
          body : [Groups -> SUBSET Fields], bodyRead : BOOLEAN]

Verdicts == {"owned", "unowned", "unknown"}

\* A mapped name the fabric knows is the section of the kind.
Matches(m, view, g) ==
  m.known /\ g \in view.selected \cap view.selectRead

\* mutant: a selection that cannot be read selects nothing.
OwningGroupWhenUnread(m, view) ==
  IF ~m.mapped \/ ~view.assocRead THEN "unknown"
  ELSE IF \E g \in Range(view.assoc) : Matches(m, view, g) THEN "owned"
  ELSE IF ~m.verified THEN "unknown" ELSE "unowned"

\* owning_group.
OwningGroup(m, view) ==
  IF ~m.mapped \/ ~view.assocRead THEN "unknown"
  ELSE IF view.assoc = <<>> THEN "unowned"
  ELSE IF \E g \in Range(view.assoc) : Matches(m, view, g) THEN "owned"
  ELSE IF ~(Range(view.assoc) \subseteq view.selectRead) THEN "unknown"
  ELSE IF view.bodyRead /\ ~m.known THEN "unknown"
  ELSE IF ~m.verified THEN "unknown" ELSE "unowned"

\* _matched_section: of several groups that match, the first.
FirstMatch(m, view, g) ==
  \E i \in DOMAIN view.assoc :
    /\ view.assoc[i] = g /\ Matches(m, view, g)
    /\ \A j \in 1 .. (i - 1) : ~Matches(m, view, view.assoc[j])

\* governed_prios of the group that matched: a set, empty when there is none.
GovernedPrios(m, view) ==
  IF view.bodyRead
  THEN {p \in Prios : \E g \in Groups : FirstMatch(m, view, g) /\ p \in view.body[g]}
  ELSE {}

\* governs_change says no: it has evidence, and no path is governed.
NotGoverned(m, view, entries) ==
  /\ entries # {}
  /\ IF m.declared # {}
     THEN Paths(entries) \cap m.declared = {}
     ELSE /\ GovernedPrios(m, view) # {}
          /\ Paths(entries) \cap GovernedPrios(m, view) = {}

\* resolve: only OWNED is ever narrowed.
Resolve(m, view, entries) ==
  IF OwningGroup(m, view) = "owned" /\ NotGoverned(m, view, entries)
  THEN "unowned" ELSE OwningGroup(m, view)

\* The bodies are asked for: to narrow, or to see whether the fabric knows the name.
NeedsBodies(m, view, entries) ==
  /\ m.mapped /\ view.assocRead /\ view.assoc # <<>>
  /\ IF OwningGroup(m, view) = "owned"
     THEN m.declared = {} /\ entries # {}
     ELSE Range(view.assoc) \subseteq view.selectRead

BlocksWrite(verdict) == verdict # "unowned"

-----------------------------------------------------------------------------
(* What is really so: a push asserts what every associated group that      *)
(* selects the section holds.                                              *)

Governed(assoc, selected, body) ==
  UNION {body[g] : g \in Range(assoc) \cap selected}
=============================================================================
