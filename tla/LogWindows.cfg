SPECIFICATION Spec
CONSTANTS
  r1 = r1
  r2 = r2
  c1 = c1
  c2 = c2
  Refs = {r1, r2}
  Clis = {c1}
  Windows = TRUE
  MaxCrashes = 2
  MaxTears = 1
SYMMETRY Symmetry
CHECK_DEADLOCK FALSE
INVARIANTS
  TypeOK
  WriteAhead
  SnapshotHasBody
  MetaIsAhead
  NoHoleUnderLock
PROPERTIES
  AppendOnly
