SPECIFICATION Spec
CONSTANTS
  r1 = r1
  r2 = r2
  c1 = c1
  c2 = c2
  Refs = {r1}
  Clis = {c1}
  Windows = FALSE
  MaxCrashes = 1
  MaxTears = 1
SYMMETRY Symmetry
INVARIANTS
  RefusedMeansHole
CHECK_DEADLOCK FALSE
