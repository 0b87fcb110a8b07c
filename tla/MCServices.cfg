SPECIFICATION ServicesSpec
CONSTANTS
  Addresses = {"raw", "q2"}  Sources = {"q1", "q2"}  Normal <- MCNormal  Group <- MCGroup
  Blocks = {1, 2}  MaxRequests = 2  RetrySeconds = 1  StallSeconds = 1  Limit = 1
  Penalty = 1  BanAt <- MCBanAt  BanSeconds = 1  LowScore <- MCLowScore  TopScore = 0
  Operators = {"o1", "o2"}  Orders = {"w1"}  Due <- MCDue  Cold = "cold"  Hots = {"hot"}
  MinApprovals <- MCMinApprovals  SingleLimit <- MCSingleLimit  Granted = {0, 3}  Sent = {2}
  Miners = {1, 2}  Threads = {"t1", "t2"}  PoolBlocks = {1, 2, 3, 4}
  BlockParent <- MCBlockParent  BlockHeight <- MCBlockHeight  Zeroes <- MCZeroes
  MinShareZeroes = 1  Solved = {1, 2, 3}  Reward = 10  MaxShares = 2
  Events = {"e1", "e2"}  Hooks = {1, 2}  MaxAttempts <- MCMaxAttempts  QueueCap = 1  MaxBackoff = 2  MaxPosts = 2
  Tree = {1, 2, 3, 4, 5}  Above <- MCAbove  Level <- MCLevel  TxsOf <- MCTxsOf
  Period = 3  Threshold = 2  StartHeight = 3  TimeoutHeight = 9  Horizon = 16
INVARIANTS
  JobsSound
  QuorumActedOn
  RewardsExact
  IndexExact
  ActivationEarned
PROPERTIES
  
  EventsSettle
CHECK_DEADLOCK FALSE
