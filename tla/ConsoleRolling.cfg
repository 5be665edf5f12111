SPECIFICATION Spec
CONSTANTS
  MaxScans = 1
  Jobs <- TwoPorts
  LiveCap = 2
  Outcomes = {"connected"}
  MaxSubmits = 1
  PollSlots = {1}
  GridLimit = 1
  RollCap = 1
  MaxMishaps <- NoMishap
CHECK_DEADLOCK FALSE
INVARIANTS RollingIsCapped
