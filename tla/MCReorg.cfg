SPECIFICATION Spec
CONSTANTS
  Outpoints <- MCOutpoints
  Value <- MCValue
  Txs <- MCTxs
  Tx <- MCTx
  Blocks <- MCBlocks
  Blk <- MCBlk
  Genesis = "g0"
  CoinbaseMaturity = 1
  MaxFutureDrift = 1
  MaxPoolTxs = 3
  MaxPoolBytes = 4000
  MempoolExpiry = 1
  MaxAncestors = 2
  MinRelayFeePerKb = 1
  IncrementalRelayFee = 1
  MaxOrphans = 3
  BlockBudget = 4000
  Submitted <- MCSubmitted
  Packages <- NoPackages
  MaxTime = 1
INVARIANTS
  UtxosExact
  
  ActiveChainValid
  SupplyBounded
PROPERTIES
  HeaviestAfterAddBlock
  ImplementsBestChain
CHECK_DEADLOCK FALSE
