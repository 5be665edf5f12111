SPECIFICATION FairSpec
CONSTANTS
  MaxScans = 2
  Jobs <- OneOrTwo
  LiveCap = 1
  Outcomes = {"connected"}
  MaxSubmits = 2
  PollSlots = {1, 2}
  GridLimit = 2
  RollCap = 1
  MaxMishaps <- Mishaps
CHECK_DEADLOCK FALSE
INVARIANTS NoTimerLeaks StopIsReachable FinishedIsFinal GridIsTrue
PROPERTIES ControlsComeBack
