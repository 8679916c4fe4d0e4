\* One thread, three found blocks with conflicting, chained and burning transfers,
\* honest and excessive coinbases, right and misstated blue scores.
SPECIFICATION Spec
CONSTANTS
  GHOSTDAG_K = 1
  MAX_HALVINGS = 4
  COINBASE_MATURITY = 2
  Schedule <- MCSchedule
  Hash = {1, 2, 3, 4}
  Genesis = 1
  GenesisTxs <- MCGenesisTxs
  PeerThreads = {"t"}
  SyncThreads = {"t"}
  MinerThreads = {}
  MAX_BLOCK_PARENTS = 2
  MAX_ORPHANS = 2
  MAX_MEMPOOL = 0
  MAX_BLOCK_TXS = 2
  MIN_RELAY_FEE = 1
  Transfers <- PayRivalSpend
  BitsOf <- SameBits
  Miner = "miner"
  PayeeOf <- OwnPayee
  PeerBodies <- Bodies
  PeerFees = {0, 1}
  ScoreErrors = {0, 1}
  MaxCrashes = 0
  MAX_SCANNED = 5
  MAX_MATCHED = 3
  MAX_LISTED = 2
INVARIANTS LedgerFollowsTip   TipsExact
           ReorgSucceeds
PROPERTIES FailureRestores
ACTION_CONSTRAINT NamesInOrder
CHECK_DEADLOCK FALSE
