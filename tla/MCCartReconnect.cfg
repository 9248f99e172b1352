SPECIFICATION FairSpec
CONSTANTS
  p1 = p1
  p2 = p2
  r1 = r1
  r2 = r2
  A = A
  B = B
  Product = {A, B}
  Request = {r1}
  Pod = {p1}
  Operation <- MCWrites
  AtFirst <- MCAtFirst
  Fault = {"connection"}
  MaxFaults = 1
CHECK_DEADLOCK FALSE
PROPERTIES UsesRedisWhenAvailable
