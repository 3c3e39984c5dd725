SPECIFICATION Spec
CONSTANTS
  None = None
  a = a
  b = b
  main = main
  b1 = b1
  b2 = b2
  p1 = p1
  p2 = p2
  UnfilledNames = {"SUBMITTED"}
  PartialNames = {"SUBMITTED"}
  ClientIds = {a, b}
  Books <- MCBooks
  BrokerIds <- MCBrokerIds
  Intents <- EntryAndExit
  Callers = {p1}
  Outcomes = {"accepted", "timedOut"}
  Serial = TRUE
  Cancellable = {}
  Closings = {}
  FetchMayFail = FALSE
  ListsClosed = FALSE
  MinutesPass = FALSE
  Instant <- MCInstants
  Rebates = {}
  MaxCrashes = 0
  MaxSwitches = 1
  MaxReviews = 2
INVARIANTS
  SentAfterReconciliation
PROPERTIES
  ImplementsLedger
  KillSwitchHolds
