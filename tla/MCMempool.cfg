SPECIFICATION Spec
CONSTANTS
  Outpoints <- MCOutpoints
  Value <- MCValue
  Txs <- MCTxs
  Tx <- MCTx
  Blocks <- MCBlocks
  Blk <- MCBlk
  Genesis = "g0"
  CoinbaseMaturity = 1
  MaxFutureDrift = 1
  MaxPoolTxs = 3
  MaxPoolBytes = 3500
  MempoolExpiry = 1
  MaxAncestors = 2
  MinRelayFeePerKb = 1
  IncrementalRelayFee = 5
  MaxOrphans = 3
  BlockBudget = 4000
  Submitted <- MCSubmitted
  Packages <- MCPackages
  MaxTime = 1
INVARIANTS
  PoolSound
PROPERTIES
  PoolReplaysAfterBlock
  AdmissionSound
CHECK_DEADLOCK FALSE
