SPECIFICATION Spec
CONSTANTS
  u1 = u1
  c1 = c1
  c2 = c2
  x1 = x1
  x2 = x2
  p1 = p1
  p2 = p2
  User = {u1}
  Checkout = {c1}
  Owner <- MCOneOwner
  Unit = {x1}
  Malformed = {}
  Stock = 1
  Pod = {p1}
  Fault = {"database"}
  MaxFaults = 1
  OneAtATime = TRUE
CHECK_DEADLOCK FALSE
INVARIANTS FallsBackToMemory
