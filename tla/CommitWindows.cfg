SPECIFICATION Spec
CONSTANTS
  c1 = c1
  c2 = c2
  r1 = r1
  r2 = r2
  Clis = {c1, c2}
  MaxTxn = 2
  Refs = {r1}
  Absent = Absent
  Base = Base
  Initial = {Base}
  NoSnap = NoSnap
  NoActor = NoActor
  Ops = {"commit", "confirm", "recover"}
  Keep = 1
  AuditKeep = 1
  MaxCrashes = 1
SYMMETRY Symmetry
INVARIANTS
  TypeOK
  ConfirmedIsNeverRestored
  WindowExclusive
  ErasedOnlyAfterCrash
PROPERTIES
  WindowNotCutShort
  KeepsLifecycle
CHECK_DEADLOCK FALSE
