SPECIFICATION Spec
CONSTANTS
  p1 = p1
  p2 = p2
  e1 = e1
  r1 = r1
  r2 = r2
  t1 = t1
  l1 = l1
  Pod = {p1, p2}
  Email = {e1}
  Registration = {r1, r2}
  Token = {t1}
  Reload = {l1}
  Env = 0
  MaxGeneration = 2
  EnableLocal = TRUE
  Fault = {"ssm", "sign up", "confirm", "verify", "lost reply", "restart"}
  MaxFaults = 2
SYMMETRY MCSymmetry
CHECK_DEADLOCK FALSE
INVARIANTS TypeOK AnswersTellTheAccount
PROPERTIES SignedOutStaysOut NeverBackToOldPool
