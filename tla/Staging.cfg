SPECIFICATION Spec
CONSTANTS
  a1 = a1
  a2 = a2
  b1 = b1
  A = A
  B = B
  r1 = r1
  x = x
  y = y
  Refs = {r1}
  Paths = {x, y}
  Old = Old
  OldRefs = {r1}
  NoItem = NoItem
  Sessions = {a1, a2, b1}
  Origins = {A, B}
  OriginOf <- MCOriginOf
  Nothing = Nothing
  NoOne = NoOne
  Missing = Missing
  MaxAsks = 3
  MaxCrashes = 1
  MaxFaults = 1
  MaxUnread = 1
SYMMETRY Symmetry
INVARIANTS
  TypeOK
  LegacyGoesToOne
PROPERTIES
  KeepsStagingArea
  NothingVanishes
