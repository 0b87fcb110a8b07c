SPECIFICATION NetworkSpec
CONSTANTS
  Peers = {"p1", "p2"}
  TrustSets <- MCTrustSets
  FirstPeers = {"p1", "p2"}
  MaxPeers = 2
  BanThreshold <- MCBanThreshold
  BanTTL = 1
  Transactions = {"tx1"}
  BlockIds = {"blk1"}
  MaxInventory = 1
  MaxQueue = 2
  MaxAttempts = 2
  Backoff = 1
  Threads = {"t1", "t2"}
  MaxItems = 3
  MinScore <- MCMinScore
  MaxScore = 2
  MaxTime = 2
  MaxRestarts = 1
  None = None
INVARIANTS
  
  RelayKeptUncut
  RetriesOnlyMissing
CHECK_DEADLOCK FALSE
