SPECIFICATION Spec
CONSTANTS
  None = None
  a = a
  b = b
  main = main
  b1 = b1
  b2 = b2
  p1 = p1
  p2 = p2
  UnfilledNames = {"WORKING"}
  PartialNames = {"WORKING"}
  ClientIds = {a}
  Books <- MCBooks
  BrokerIds <- MCBrokerIds
  Intents <- OneOrder
  Callers = {p1, p2}
  Outcomes = {"accepted", "timedOut"}
  Serial = FALSE
  Cancellable = {}
  Closings = {"CANCELED"}
  FetchMayFail = FALSE
  ListsClosed = TRUE
  MinutesPass = FALSE
  Instant <- MCInstants
  Rebates = {}
  MaxCrashes = 1
  MaxSwitches = 0
  MaxReviews = 2
SYMMETRY CallerSymmetry
INVARIANTS
  PositionIsItsTrades
  ExecutionsCountedOnce
  JournalReplaysPositions
  WriteAhead
  SentOnce
