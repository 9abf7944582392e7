-------------------------- MODULE MCGuardedCommit --------------------------
EXTENDS GuardedCommit
CONSTANTS i1, p1, p2, x, g1, g2, a, b
MCItems  == {i1}
MCPrios  == {p1, p2}
MCPlain  == {x}
MCGroups == {g1, g2}
MCVals   == {a, b}

MCTables == {[f \in Fields |-> a]}

Intent(mode, changes) ==
  [mode |-> mode,
   set |-> [f \in Fields |-> IF f \in DOMAIN changes THEN changes[f] ELSE Keep]]
MCIntents == {Intent("merge", [f \in {p1, p2} |-> IF f = p1 THEN a ELSE b]),
              Intent("merge", [f \in {p1, x} |-> IF f = p1 THEN NoVal ELSE b]),
              Intent("replace", [f \in {p1, p2} |-> b]),
              Intent("delete", <<>>)}

MCBodies == {{p1}, {p2}}
MCAssocs == {<<>>, <<g1, g2>>}

Kind(verified, known, declared, inherits) ==
  [mapped |-> TRUE, verified |-> verified, known |-> known,
   declared |-> declared, inherits |-> inherits]
\* A policy map, one whose section is a guess, one whose section the fabric does
\* not have, and a kind that declares what its template governs.
MCKinds == {Kind(TRUE, TRUE, {}, {x}), Kind(FALSE, TRUE, {}, {x}),
            Kind(TRUE, FALSE, {}, {x}), Kind(TRUE, TRUE, {p1, p2}, {})}
=============================================================================
