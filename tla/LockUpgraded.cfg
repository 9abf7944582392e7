SPECIFICATION Spec
CONSTANTS
  p1 = p1
  p2 = p2
  q1 = q1
  o1 = o1
  o2 = o2
  Procs = {p1, p2}
  OldProcs = {q1}
  Objs = {o1, o2}
  Probe = Probe
  NoObj = NoObj
  NoProc = NoProc
  LegacyAtStart = TRUE
  MaxNest = 2
  MaxCrashes = 2
SYMMETRY Symmetry
INVARIANTS
  TypeOK
  NotDroppedUnder
  LiveRecordIsTrue
  InsideIsRecorded
  OneInside
