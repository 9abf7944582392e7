SPECIFICATION FairSpec
CONSTANTS
  c1 = c1
  c2 = c2
  r1 = r1
  r2 = r2
  Clis = {c1, c2}
  MaxTxn = 1
  Refs = {r1}
  Absent = Absent
  Base = Base
  Initial = {Base}
  NoSnap = NoSnap
  NoActor = NoActor
  Ops = {"commit", "confirm", "recover"}
  Keep = 1
  AuditKeep = 1
  MaxCrashes = 1
PROPERTIES
  NoTransactionIsStranded
CHECK_DEADLOCK FALSE
