SPECIFICATION Spec
CONSTANTS
  Outpoints <- MCOutpoints
  Value <- MCValue
  Txs <- MCTxs
  Tx <- MCTx
  Blocks <- MCBlocks
  Blk <- MCBlk
  Genesis = "g0"
  CoinbaseMaturity = 1
  MaxFutureDrift = 1
  Now = 0
  Backup = "a1"
  KeepDepths = {1, 2}
  MaxHeight = 3
  MaxCrashes = 2
  MaxFailures = 1
  None = None
INVARIANTS
  FullNodeServesValid
  StoreSound
PROPERTIES
  RestartKeepsTip
CHECK_DEADLOCK FALSE
