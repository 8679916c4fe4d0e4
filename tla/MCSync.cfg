\* Both nodes dial; batches of two and locators of one block, so that forks,
\* merges and ties are cut by them; announcements may be lost, and a session.
SPECIFICATION Spec
CONSTANTS
  GHOSTDAG_K = 2
  Nodes = {"a", "b"}
  Dials <- BothDial
  Genesis = 1
  SYNC_BATCH = 2
  LOCATOR = 1
  MaxBlocks = 3
  MaxDrops = 1
  Focuses = {"sync", "peers"}
  Addresses = {"seed", "p", "q", "home"}
  Loopback = {"home"}
  Seeds = {"seed"}
  MAX_PEERS = 3
  MAX_TOLD = 1
  RpcCalls = {"r"}
  MaxChanges = 2
  MaxRestarts = 1
PROPERTIES PeersConverge FileCatchesUp
CHECK_DEADLOCK FALSE
