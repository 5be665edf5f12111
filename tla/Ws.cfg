SPECIFICATION FairSpec
CONSTANTS
  A = a
  B = b
  NoConn = none
  Admin = admin
  Conn <- Conns
  Addr <- Addresses
  AddrOf <- FirstOf
  Message <- Messages
  ChanCap = 1
  SendCap = 1
  Readers <- FirstOnes
  MaxConns = 2
  MaxSaid <- OnlyA
  MaxAdmin = 1
CHECK_DEADLOCK FALSE
INVARIANTS MapIsTruthful SameOrder
PROPERTIES QueueIsWritten LeaversAreForgotten
