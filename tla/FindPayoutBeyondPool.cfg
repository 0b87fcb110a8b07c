SPECIFICATION Spec
CONSTANTS
  Traders = {"addr", "demo1"}
  OnChain = {"addr"}
  Outcomes = {"out1", "out2"}
  Unit = 5
  Deposit = 12
  Offers <- MCOffers
  MaxOrders = 3
  MaxSettlements = 2
  Imported = TRUE
  CloseTime = 1
  MaxTime = 2
  SourceTime = 2
  SourceLabel = "out1"
  None = None
PROPERTIES
  PayoutWithinPool
CHECK_DEADLOCK FALSE
