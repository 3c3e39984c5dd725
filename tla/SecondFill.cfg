SPECIFICATION FairSpec
CONSTANTS
  None = None
  a = a
  b = b
  main = main
  b1 = b1
  b2 = b2
  UnfilledNames = {"WORKING"}
  PartialNames = {"PARTIALLY_FILLED"}
  ClientIds = {a, b}
  Books <- MCBooks
  BrokerIds <- MCBrokerIds
  Intents <- TwoOrders
  Remembers = FALSE
  PricesMayMiss = FALSE
  Closings = {}
  MaxRestarts = 0
PROPERTIES
  ConfirmedFillsTakenUp
