SPECIFICATION ConvergeSpec
CONSTANTS
  Outpoints <- MCOutpoints
  Value <- MCValue
  Txs <- MCTxs
  Tx <- MCTx
  Blocks <- MCBlocks
  Blk <- MCBlk
  Genesis = "g0"
  CoinbaseMaturity = 1
  MaxFutureDrift = 1
  MaxPoolTxs = 3
  MaxPoolBytes = 4000
  MempoolExpiry = 1
  MaxAncestors = 2
  MinRelayFeePerKb = 1
  IncrementalRelayFee = 1
  MaxOrphans = 6
  BlockBudget = 4000
  Submitted <- NoTxs
  Packages <- NoPackages
  MaxTime = 1
  Nodes = {"n1", "n2"}
  Topologies <- MCTopologies
  HeaderLimit = 2
  PageLimit = 1
  MaxStored = 2
  MaxWaiting = 1
  MaxFaults = 1
  NoBlock = NoBlock
PROPERTIES
  OfferedConverges
  NodesKeepPromise
  NobodyStaysBehind
CHECK_DEADLOCK FALSE
