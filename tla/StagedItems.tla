---------------------------- MODULE StagedItems ----------------------------
(***************************************************************************)
(* The staged intent for one Orchestrator and what each command makes of   *)
(* it (CandidateItem and the mutators of CandidateStore,                   *)
(* src/src/pyecsdwan/candidate.py).  An item is what the operator asked of *)
(* one resource.  Its intent is the set of paths it sets: the value given  *)
(* to a path is left out, and so is how often a path was pruned.           *)
(***************************************************************************)
CONSTANTS
  Refs,    \* resources
  Paths,   \* configuration paths of a resource, none inside another
  Old,     \* the path a build before #63 staged, which nobody stages again
  OldRefs, \* the resources it was staged for
  NoItem   \* nothing is staged for a resource

Modes == {"merge", "replace", "delete"}
Items == [mode : Modes, set : SUBSET (Paths \cup {Old}), del : SUBSET Paths]

ASSUME StagedItemsAssumption ==
  /\ Old \notin Paths /\ OldRefs \subseteq Refs
  /\ NoItem \notin Items

Item(mode, set, del) == [mode |-> mode, set |-> set, del |-> del]

Stagings == [Refs -> Items \cup {NoItem}]
Empty    == [r \in Refs |-> NoItem]

\* What the old build left.
OldStaging ==
  [r \in Refs |-> IF r \in OldRefs THEN Item("merge", {Old}, {}) ELSE NoItem]

-----------------------------------------------------------------------------
(* Commands.  An acknowledgement carries the items its commit applied.     *)

Edits == [op : {"set", "load", "prune"}, ref : Refs, path : Paths]
           \cup [op : {"delete", "drop"}, ref : Refs]

Discard   == [op |-> "discard"]
Adopt     == [op |-> "adopt"]
Ack(plan) == [op |-> "ack", plan |-> plan]

Commands == Edits \cup {Discard, Adopt} \cup [op : {"ack"}, plan : Stagings]

\* A set after a delete starts a fresh replace: the intent of an item in mode
\* delete is empty.
SetPath(i, p) == Item(IF i.mode = "delete" THEN "replace" ELSE i.mode,
                      i.set \cup {p}, i.del \ {p})

Prune(i, p) == IF i.mode = "delete" THEN i
               ELSE Item(i.mode, i.set \ {p}, i.del \cup {p})

Edited_NewMode(e, item) ==   \* mutant: load stages a mode no one knows
  LET i == IF item = NoItem THEN Item("merge", {}, {}) ELSE item
  IN  CASE e.op = "set"    -> SetPath(i, e.path)
        [] e.op = "load"   -> Item("replace-all", {e.path}, {})
        [] e.op = "prune"  -> Prune(i, e.path)
        [] e.op = "delete" -> Item("delete", {}, {})
        [] e.op = "drop"   -> NoItem

Edited(e, item) ==
  LET i == IF item = NoItem THEN Item("merge", {}, {}) ELSE item
  IN  CASE e.op = "set"    -> SetPath(i, e.path)
        [] e.op = "load"   -> Item("replace", {e.path}, {})
        [] e.op = "prune"  -> Prune(i, e.path)
        [] e.op = "delete" -> Item("delete", {}, {})
        [] e.op = "drop"   -> NoItem

Acknowledged_ByKey(plan, staging) ==   \* mutant: whatever it has become since
  [r \in Refs |-> IF plan[r] # NoItem THEN NoItem ELSE staging[r]]

\* Only what the commit applied goes, and only where it is still the same.
Acknowledged(plan, staging) ==
  [r \in Refs |-> IF staging[r] = plan[r] THEN NoItem ELSE staging[r]]

\* An adopted item takes the place of one staged for the same resource.
Adopted(old, staging) ==
  [r \in Refs |-> IF old[r] = NoItem THEN staging[r] ELSE old[r]]

\* What command c makes of staging while old is what there is to adopt.
Apply(c, staging, old) ==
  CASE c.op = "discard" -> Empty
    [] c.op = "ack"     -> Acknowledged(c.plan, staging)
    [] c.op = "adopt"   -> Adopted(old, staging)
    [] OTHER            -> [staging EXCEPT ![c.ref] = Edited(c, @)]

=============================================================================
