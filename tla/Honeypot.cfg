SPECIFICATION FairSpec
CONSTANTS
  Outside = outside
  Localhost = localhost
  Peers <- TwoPeers
  Local = localhost
  Broken = broken
  Listens <- OpenPorts
  scanPorts <- ScanPorts
  honeypotPort = 8080
  Lists <- TwoLists
  MaxConns = 2
  MaxVisits = 2
  MaxEdits = 2
  MaxRuns = 2
CHECK_DEADLOCK FALSE
INVARIANTS OnlyListedAreDialed RowsAreTrue QueuedIsOwned
PROPERTIES EveryPeerIsLetGo
