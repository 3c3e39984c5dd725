SPECIFICATION FairSpec
CONSTANTS
  None = None
  a = a
  b = b
  main = main
  b1 = b1
  b2 = b2
  UnfilledNames = {"WORKING"}
  PartialNames = {"WORKING", "PARTIALLY_FILLED", "PENDING_CANCEL"}
  ClientIds = {a, b}
  Books <- MCBooks
  BrokerIds <- MCBrokerIds
  Intents <- TwoOrders
  Remembers = TRUE
  PricesMayMiss = TRUE
  Closings = {"CANCELED"}
  MaxRestarts = 1
INVARIANTS
  NeverAheadOfVenue
PROPERTIES
  FillsTakenUp
