SPECIFICATION Spec
CONSTANTS
  p1 = p1
  p2 = p2
  r1 = r1
  r2 = r2
  r3 = r3
  A = A
  B = B
  NoDocument = NoDocument
  Product = {A, B}
  SeedStock <- MCSeed
  Request = {r1, r2, r3}
  Pod = {p1, p2}
  Operation <- MCReservations
  Fault = {}
  MaxFaults = 0
  MaxOverlap = 2
CHECK_DEADLOCK FALSE
INVARIANTS NoOversell
