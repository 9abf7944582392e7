SPECIFICATION Spec
CONSTANTS
  c1 = c1
  c2 = c2
  r1 = r1
  r2 = r2
  Clis = {c1, c2}
  MaxTxn = 3
  Refs = {r1, r2}
  Absent = Absent
  Base = Base
  Initial = {Absent, Base}
  NoSnap = NoSnap
  NoActor = NoActor
  Ops = {"commit", "rollback", "recover"}
  Keep = 2
  AuditKeep = 1
  MaxCrashes = 0
SYMMETRY Symmetry
PROPERTIES
  RollbackRestores
  HistoryKept
CHECK_DEADLOCK FALSE
