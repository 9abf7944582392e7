SPECIFICATION Spec
CONSTANTS
  i1 = i1
  p1 = p1
  p2 = p2
  x = x
  g1 = g1
  g2 = g2
  a = a
  b = b
  NoVal = NoVal
  Absent = Absent
  Whole = Whole
  Keep = Keep
  NoCache = NoCache
  Items <- MCItems
  Prios <- MCPrios
  Plain <- MCPlain
  Groups <- MCGroups
  Vals <- MCVals
  TableSet <- MCTables
  IntentSet <- MCIntents
  BodySet <- MCBodies
  AssocSet <- MCAssocs
  KindSet <- MCKinds
  MaxMoves = 1
INVARIANTS
  TypeOK
PROPERTIES
  WriteIsLocal
  WriteIsAsked
CHECK_DEADLOCK FALSE
