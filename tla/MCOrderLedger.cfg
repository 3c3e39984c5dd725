SPECIFICATION Spec
CONSTANTS
  None = None
  buy = buy
  sell = sell
  main = main
  other = other
  b1 = b1
  b2 = b2
  ClientIds <- MCClientIds
  Books <- MCBooks
  BrokerIds <- MCBrokerIds
  Intents <- MCIntents
  Updates <- MCUpdates
  EventKeys <- MCEventKeys
  ExecutionKeys <- MCExecutionKeys
INVARIANTS
  TypeOK
  ExecutionsCountedOnce
  JournalReplaysPositions
  OrderFilledIsItsExecutions
  PositionsMatchOrders
  StatusAgreesWithFills
  ChainTellsDamage
PROPERTIES
  OrderOnlyAdvances
  ExposureNeedsNewExecution
