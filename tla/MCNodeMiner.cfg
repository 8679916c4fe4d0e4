\* The worker and the peers take turns in one thread; transfers come through the mempool.
SPECIFICATION Spec
CONSTANTS
  GHOSTDAG_K = 1
  MAX_HALVINGS = 4
  COINBASE_MATURITY = 2
  Schedule <- MCSchedule
  Hash = {1, 2, 3, 4}
  Genesis = 1
  GenesisTxs <- MCGenesisTxs
  PeerThreads = {"t"}
  SyncThreads = {"t"}
  MinerThreads = {"t"}
  MAX_BLOCK_PARENTS = 2
  MAX_ORPHANS = 2
  MAX_MEMPOOL = 2
  MAX_BLOCK_TXS = 1
  MIN_RELAY_FEE = 1
  Transfers <- PayRivalReap
  BitsOf <- SameBits
  Miner = "miner"
  PayeeOf <- OwnPayee
  PeerBodies <- EmptyOrReap
  PeerFees = {0}
  ScoreErrors = {0}
  MaxCrashes = 0
  MAX_SCANNED = 5
  MAX_MATCHED = 3
  MAX_LISTED = 2
INVARIANTS MaturityKept HistoryComplete ExplorerCovers
PROPERTIES WorkerBlockPasses
ACTION_CONSTRAINT NamesInOrder
CHECK_DEADLOCK FALSE
