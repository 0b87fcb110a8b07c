SPECIFICATION FairSpec
CONSTANTS
  Traders = {"addr", "demo1"}
  OnChain = {"addr"}
  Outcomes = {"out1", "out2"}
  Unit = 5
  Deposit = 12
  Offers <- MCOffers
  MaxOrders = 3
  MaxSettlements = 1
  Imported = TRUE
  CloseTime = 1
  MaxTime = 2
  SourceTime = 0
  SourceLabel = "out1"
  None = None
INVARIANTS
  BooksBalance
  BookUncrossed
PROPERTIES
  PriceTimePriority
  AutoResolves
CHECK_DEADLOCK FALSE
