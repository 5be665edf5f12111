SPECIFICATION FairSpec
CONSTANTS
  A = a
  B = b
  NoConn = none
  Admin = admin
  Conn <- Conns
  Addr <- Addresses
  AddrOf <- FirstOf
  Message <- Messages
  ChanCap = 1
  SendCap = 2
  MaxLines <- OnlyB
  MaxAdmin = 1
  MaxConns = 2
CHECK_DEADLOCK FALSE
INVARIANTS MapIsTruthful SenderOrder
PROPERTIES LeaversGetAway AcceptedIsRegistered
