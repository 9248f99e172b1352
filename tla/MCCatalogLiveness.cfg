SPECIFICATION FairSpec
CONSTANTS
  p1 = p1
  p2 = p2
  r1 = r1
  r2 = r2
  r3 = r3
  A = A
  B = B
  NoDocument = NoDocument
  Product = {A, B}
  SeedStock <- MCSeed
  Request = {r1, r2}
  Pod = {p1}
  Operation <- MCReservations
  Fault = {"unreachable", "connection", "redis restart", "key deleted", "crash"}
  MaxFaults = 2
  MaxOverlap = 3
CHECK_DEADLOCK FALSE
PROPERTIES EveryRequestEnds PodsServeAgain
