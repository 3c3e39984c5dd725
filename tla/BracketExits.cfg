SPECIFICATION Spec
CONSTANTS
  EntryQuantity = 7
  EntryPrices = {19, 21}
  StopPrice = 19
  TargetPrices <- TwoTargets
  Fractions <- TwoHalves
  Whole = 2
  PriceIncrement = 2
  QuantityIncrement = 2
  Multiplier = 1
  Parts = 420
  Lots = {3, 4}
  Fees = {0, 1}
  ExitPrices = {19, 20, 21, 22}
  Resizes = FALSE
CHECK_DEADLOCK FALSE
INVARIANTS
  CompiledStopsCover
  ExitsWithinEntry
  NoReversal
  TriggersOnTheirSide
  NetCostBreaksEven
