\* Liveness of the orphan pool with two threads: chains of orphans.
SPECIFICATION FairSpec
CONSTANTS
  GHOSTDAG_K = 1
  MAX_HALVINGS = 4
  COINBASE_MATURITY = 2
  Schedule <- MCSchedule
  Hash = {1, 2, 3, 4}
  Genesis = 1
  GenesisTxs <- MCGenesisTxs
  PeerThreads = {"t", "u"}
  SyncThreads = {"u"}
  MinerThreads = {}
  MAX_BLOCK_PARENTS = 1
  MAX_ORPHANS = 2
  MAX_MEMPOOL = 0
  MAX_BLOCK_TXS = 2
  MIN_RELAY_FEE = 1
  Transfers <- NoTransfers
  BitsOf <- SameBits
  Miner = "miner"
  PayeeOf <- OwnPayee
  PeerBodies <- Empty
  PeerFees = {0}
  ScoreErrors = {0}
  MaxCrashes = 0
  MAX_SCANNED = 5
  MAX_MATCHED = 3
  MAX_LISTED = 2
PROPERTIES OrphansConnect
ACTION_CONSTRAINT NamesInOrder
CHECK_DEADLOCK FALSE
