SPECIFICATION FairSpec
CONSTANTS
  u1 = u1
  c1 = c1
  c2 = c2
  x1 = x1
  x2 = x2
  p1 = p1
  p2 = p2
  User = {u1}
  Checkout = {c1, c2}
  Owner <- MCOwner
  Unit = {x1, x2}
  Malformed = {}
  Stock = 3
  Pod = {p1}
  Fault = {"lost", "slow", "auth", "crash", "invoice", "database", "table", "hang"}
  MaxFaults = 2
  OneAtATime = TRUE
CHECK_DEADLOCK FALSE
INVARIANTS NoItemConfirmedTwice
PROPERTIES CartsEmptyIntoOrders CheckoutsEnd ConfirmedIsInvoiced
