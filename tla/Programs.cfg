SPECIFICATION ProgramsFairSpec
CONSTANTS
  Client = client
  Browser = browser
  NoConn = none
  Operator = operator
  ChanCap = 1
  SendCap = 1
  MsgCap = 1
  MaxLines = 1
  MaxAdmin = 2
  MaxWritten = 2
CHECK_DEADLOCK FALSE
INVARIANTS WebFollowsTcp
PROPERTIES PromptComesBack ClientLetsGo
