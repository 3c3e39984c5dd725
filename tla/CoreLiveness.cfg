SPECIFICATION FairSpec
CONSTANTS
  None = None
  a = a
  b = b
  main = main
  b1 = b1
  b2 = b2
  p1 = p1
  p2 = p2
  UnfilledNames = {"SUBMITTED", "WORKING"}
  PartialNames = {"WORKING", "PENDING_CANCEL"}
  ClientIds = {a}
  Books <- MCBooks
  BrokerIds <- MCBrokerIds
  Intents <- OneOrder
  Callers = {p1}
  Outcomes = {"accepted", "timedOut"}
  Serial = TRUE
  Cancellable = {}
  Closings = {}
  FetchMayFail = FALSE
  ListsClosed = TRUE
  MinutesPass = FALSE
  Instant <- MCInstants
  Rebates = {}
  MaxCrashes = 0
  MaxSwitches = 0
  MaxReviews <- MCUnbounded
PROPERTIES
  FillsArrive
  UnknownOutcomeIsResolved
  Reconverges
