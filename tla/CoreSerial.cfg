SPECIFICATION Spec
CONSTANTS
  None = None
  a = a
  b = b
  main = main
  b1 = b1
  b2 = b2
  p1 = p1
  p2 = p2
  UnfilledNames = {"ACKNOWLEDGED", "RECONCILIATION_REQUIRED"}
  PartialNames = {"WORKING", "PENDING_CANCEL"}
  ClientIds = {a}
  Books <- MCBooks
  BrokerIds <- MCBrokerIds
  Intents <- OneOrder
  Callers = {p1}
  Outcomes = {"accepted", "refused", "timedOut", "lost", "failed", "failedAfter"}
  Serial = TRUE
  Cancellable = {a}
  Closings = {"CANCELED", "REJECTED", "EXPIRED"}
  FetchMayFail = TRUE
  ListsClosed = TRUE
  MinutesPass = TRUE
  Instant <- TiedInstants
  Rebates = {2}
  MaxCrashes = 1
  MaxSwitches = 0
  MaxReviews <- MCUnbounded
INVARIANTS
  TypeOK
  LocalBehindVenue
PROPERTIES
  ImplementsLedger
