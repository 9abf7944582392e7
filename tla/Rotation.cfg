SPECIFICATION Spec
CONSTANTS
  Stores = {f1}
  Journals = {j1}
  Refs = {r1, r2}
  Sessions = {s1, s2}
  Rotators = {p1, p2}
  NoOne = NoOne
  NoFile = NoFile
  MaxKeys = 3
  MaxAsks = 2
  MaxRuns = 3
SYMMETRY Symmetry
INVARIANTS
  TypeOK
  EveryBlobOpens
  NothingIsLost
PROPERTIES
  OldKeyRetired
CHECK_DEADLOCK FALSE
