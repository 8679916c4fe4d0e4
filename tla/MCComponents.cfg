\* Words so small that sums and products pass their largest values.
SPECIFICATION Spec
CONSTANTS
  MAX_U64 = 9
  MAX_U128 = 60
  \* Emission: schedules whose cap is met before, in and after the last epoch.
  MAX_HALVINGS = 3
  Initials = {3, 5, 9}
  Intervals = {1, 2, 3}
  Caps = {0, 6, 13, 20, 100}
  MaxHeight = 14
  \* The pool and the vault.
  AMM_SWAP_FEE_BPS = 2
  BPS_DENOMINATOR = 10
  Amounts = {0, 1, 3, 5, 12}
  MaxCalls = 4
  CROSS_CHAIN_INGEST_FEE_BPS = 5
  TxHashes = {"t", "aa"}
  Malformed = {"bad"}
  FallbackHash = "aa"
  Deposits = {0, 4, 18}
  TotalValidators = 2
  Threshold = 2
  RpcSigners = 2
  Callers = {"c1", "c2"}
  MaxKeyGens = 2
  \* The quarantine.
  Members = {"m1", "m2"}
  QUARANTINE_LOCK_BLOCKS = 3
  Heights = {0, 2, 3, 5, 7, 9}
  Collaterals = {0, 2}
  MaxLocked = 4
  \* The encrypted mempool.
  Texts = {"x", "y", ""}
  EmptyText = ""
  EpochKeys = {"k1", "k2"}
  NoKey = "none"
  Noise = "noise"
  MaxAccepted = 4
  MaxKeysSet = 3
  \* The mempool: one thread adds, three remove.
  Threads = {"a", "b", "c"}
  Adders = {"a"}
  MaxSize = 2
  Transactions <- MCTransactions
  \* Payments.
  COINBASE_MATURITY = 2
  Schedule <- MCSchedule
  PoolWallet = "pool"
  FaucetWallet = "faucet"
  Senders = {"alice"}
  Payees = {"bob"}
  PoolMembers = {"m1", "bad"}
  BadMembers = {"bad"}
  OperatorSeed = TRUE
  DEFAULT_OPERATOR_ADDRESS = "op"
  NoOperator = "none"
  MIN_RELAY_FEE = 1
  PAYOUT_TX_FEE = 1
  POOL_FEE_BPS = 2
  BPS = 10
  MIN_PAYOUT = 1
  FAUCET_CLAIM = 2
  FAUCET_FEE = 1
  SendAmounts = {2, 9}
  SendFees = {1}
  Work = {2}
  BLOCK_SHARES = 2
  PoolShares <- MCPoolShares
  MAX_SEEN = 1
  Verifiers = {"v"}
  RpcThreads = {"r1", "r2"}
  InitialLedger <- MCLedger
  InitialHeight = 3
  MaxBlocks = 1
  MaxPayments = 2
  MaxTotalShares = 3
  \* Governance.
  Params = {"p0", "p1", "p2", "wrong"}
  ValidParams = {"p0", "p1", "p2"}
  DefaultParams = "p0"
  VOTING_WINDOW = 2
  Powers = {0, 5}
  LastHeight = 4
  MaxProposals = 2
  MaxWeight = 10
  \* The state of the contracts, and merkle proofs.
  ContractIds = {1, 2}
  Keys <- MCKeys
  Values <- MCValues
  MaxLeaves = 6
  \* Contracts.
  Runners = {"a"}
  Codes = {"", "garbage", "token"}
  EmptyCode = ""
  ValidCodes = {"token"}
  Exports <- MCExports
  Functions = {"run", "gone"}
  GasLimits = {0, 4, 6}
  GAS_PER_STORAGE_READ = 2
  GAS_PER_STORAGE_WRITE = 3
  GAS_PER_LOG_BYTE = 1
  Burns = {1, 2}
  LogLengths = {0, 1, 5}
  Accounts = {"x", "y"}
  NoAddress = "none"
  Transfers64 <- MCTransfers
  \* Difficulty: seven digits of two bits.
  BASE = 4
  DIGITS = 7
  GENESIS_BITS <- MCGenesisBits
  EASIEST_BITS <- MCEasiestBits
  TARGET_BLOCK_TIME_MS = 30
  WINDOW = 2
  WALK = 4
  PRECISION = 10
  Lanes = {0, 1}
  FirstLane = 0
  Delays <- MCDelays
  MaxChain = 5
  \* The desktop wallet.
  Seeds = {"s1", "s2"}
  BadPhrase = "bad"
  NoSeed = "-"
  Remote = FALSE
  MaxLaunches = 2
  MaxFailures = 3
INVARIANTS
  SumMatchesSchedule OneRequestPerDeposit ZusdBacked CollateralConserved RevealedInOrder
  SpentReleased PaymentsPass ReceivedIsBooked AppliedInOrder ApprovalIsMajority
   MerkleProofsSound GasPaysForState  RetargetBounded
PROPERTIES
  ProductNeverFalls NoDilution DepositAnswered HeldFullTerm  
CHECK_DEADLOCK FALSE
