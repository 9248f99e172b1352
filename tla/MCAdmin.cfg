SPECIFICATION Spec
CONSTANTS
  A = A
  f1 = f1
  f2 = f2
  g1 = g1
  a1 = a1
  h1 = h1
  NoRows = NoRows
  Product = {A}
  SeedStock <- MCSeed
  Flow = {f1, f2}
  AdminPod = {g1}
  Address = {a1}
  Forwarded = {h1}
  NoHeader = NoHeader
  Limit = 2
  Window = 2
  MaxTime = 2
  MaxClicks = 3
  MaxReserved = 1
  MaxFaults = 1
CHECK_DEADLOCK FALSE
SYMMETRY MCSymmetry
INVARIANTS TypeOK BusyEnds AttemptsBounded
PROPERTIES StockIsAccountedFor
