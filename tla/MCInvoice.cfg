SPECIFICATION FairSpec
CONSTANTS
  m1 = m1
  m2 = m2
  m3 = m3
  w1 = w1
  l1 = l1
  h1 = h1
  Event = {m1, m2, m3}
  KindOf <- MCKinds
  Poller = {w1}
  Invocation = {l1}
  Handler = {h1}
  BatchSize = 2
  MaxReceive = 2
  Fault = {"slow", "disk", "s3", "ses", "delete", "crash"}
  MaxFaults = 1
CHECK_DEADLOCK FALSE
INVARIANTS TypeOK NoInvoiceIsLost OneEmailForEachReceipt FaultsExplainRepeats
PROPERTIES MessagesAreSettled
