SPECIFICATION Spec
CONSTANTS
  u1 = u1
  c1 = c1
  c2 = c2
  x1 = x1
  x2 = x2
  p1 = p1
  p2 = p2
  User = {u1}
  Checkout = {c1, c2}
  Owner <- MCOwner
  Unit = {x1, x2}
  Malformed = {x2}
  Stock = 1
  Pod = {p1, p2}
  Fault = {"broken", "slow", "auth", "crash", "invoice", "same id", "database"}
  MaxFaults = 2
  OneAtATime = FALSE
CHECK_DEADLOCK FALSE
SYMMETRY MCSymmetry
INVARIANTS TypeOK OrdersAreReserved ConfirmedIsStored RefusalsHaveNoEffect
PROPERTIES ImplementsAtomicPurchase
