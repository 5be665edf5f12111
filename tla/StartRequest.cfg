SPECIFICATION RequestFairSpec
CONSTANTS
  NumOctets = 3
  OctetBits = 2
  MaxIps = 64
  MaxFound = 2
  MaxPort = 4
  Typed <- TypedFields
CHECK_DEADLOCK FALSE
INVARIANTS TargetsAreExact TotalIsExact
PROPERTIES StartReturns
