SPECIFICATION Spec
CONSTANTS
  o1 = o1
  o2 = o2
  o3 = o3
  Ids <- MCIds
  Quantities = {1, 2, 4}
  Prices = {10, 11, 12}
  Accounts <- MCAccounts
  Limits <- MCLimits
  Multiplier = 2
  Parts = 1000
  PriceIncrement = 2
  QuantityIncrement = 1
  MinimumQuantity = 1
  MinimumNotional = 22
  Fee = 1
  Waits = TRUE
SYMMETRY Symmetry
CHECK_DEADLOCK FALSE
INVARIANTS
  TypeOK
  ProfitIsCash
  PositionWithinLimit
PROPERTIES
  ReduceOnlyReduces
  LossLimitFreezes
