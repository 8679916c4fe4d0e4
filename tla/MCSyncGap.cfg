\* Only one of the nodes dials; a batch and a locator hold every block.
SPECIFICATION Spec
CONSTANTS
  GHOSTDAG_K = 2
  Nodes = {"a", "b"}
  Dials <- OneDials
  Genesis = 1
  SYNC_BATCH = 4
  LOCATOR = 4
  MaxBlocks = 3
  MaxDrops = 0
  Focuses = {"sync"}
  Addresses = {"seed", "p", "q", "home"}
  Loopback = {"home"}
  Seeds = {"seed"}
  MAX_PEERS = 3
  MAX_TOLD = 1
  RpcCalls = {"r"}
  MaxChanges = 2
  MaxRestarts = 1
PROPERTIES PeersConverge
CHECK_DEADLOCK FALSE
