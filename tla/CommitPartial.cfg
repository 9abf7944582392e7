SPECIFICATION Spec
CONSTANTS
  c1 = c1
  c2 = c2
  r1 = r1
  r2 = r2
  Clis = {c1, c2}
  MaxTxn = 2
  Refs = {r1, r2}
  Absent = Absent
  Base = Base
  Initial = {Absent, Base}
  NoSnap = NoSnap
  NoActor = NoActor
  Ops = {"commit", "recover", "rebase"}
  Keep = 1
  AuditKeep = 1
  MaxCrashes = 1
SYMMETRY Symmetry
INVARIANTS
  NoLostUpdate
  RecoveryCoversEveryWrite
PROPERTIES
  RevertedMeansRestored
CHECK_DEADLOCK FALSE
