SPECIFICATION FairSpec
CONSTANTS
  p1 = p1
  p2 = p2
  r1 = r1
  r2 = r2
  A = A
  B = B
  Product = {A, B}
  Request = {r1, r2}
  Pod = {p1, p2}
  Operation <- MCOperations
  AtFirst <- MCAtFirst
  Fault = {"connection", "redis down", "crash"}
  MaxFaults = 2
CHECK_DEADLOCK FALSE
INVARIANTS TypeOK UndisturbedCopiesAreCurrent AwaitedAtLivePods
PROPERTIES ImplementsAtomicCart EveryRequestEnds PodsServeAgain
