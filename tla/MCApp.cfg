SPECIFICATION DocumentSpec
CONSTANTS
  Threads = {"t1", "t2"}
  Keys = {"k1"}
  Customers = {"c1"}
  Codes = {"code"}
  Actors = {"a1", "a2"}
  Txs = {"tx1", "tx2"}
  Amount <- MCAmount
  EscrowIds = {"e1"}
  BountyIds = {"b1"}
  Menus <- MCMenus
  Expiry = 1
  MaxTime = 1
  None = None
  Payments = {"p1", "p2"}  Value <- MCValue  Invoices = {"i1"}  Watches = {"w1"}
  InvoiceAmounts = {1, 2}  Depths = {1, 2}  InvoiceLife = 1  NotifiedCap = 1  MaxHeight = 3
  SpendIds = {1}  Players = {"u1", "u2"}  SpendAmounts = {1, 2}  DailyCaps = {0, 3}  PlayerCaps = {2}
  Window = 1  MaxSpends = 3
  Accounts = {"c1", "c2"}  MaxSupplies = {0, 2}  MaxUnits = 3
  Members = {"m1", "m2"}  Needed = {1, 2}  MaxProposals = 2
  Options = {"o1", "o2"}  Interval = 1  LastDue = 1  MaxAdvances = 3  Horizon = 2
INVARIANTS
  
  RecordsSound
  
  
  
  ReceiptsExact
PROPERTIES
  NothingUndone
CHECK_DEADLOCK FALSE
