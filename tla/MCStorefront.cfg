SPECIFICATION Spec
CONSTANTS
  ann = ann
  bob = bob
  x = x
  f1 = f1
  f2 = f2
  User = {ann, bob}
  Nobody = Nobody
  Product = {x}
  CartsAtFirst <- MCCarts
  Flow = {f1, f2}
  MaxClicks = 4
  MaxFaults = 1
CHECK_DEADLOCK FALSE
SYMMETRY MCSymmetry
INVARIANTS TypeOK CallsAreOfOneAccount PageIsCurrent
PROPERTIES ImplementsAtomicBasket
