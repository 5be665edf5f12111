SPECIFICATION FairSpec
CONSTANTS
  MaxScans = 2
  Requests <- RestartRequests
  MaxWorkers = 2
  DefaultWorkers = 1
  LiveCap = 1
  Outcomes = {"connected"}
INVARIANTS StatusIsTrue CompleteUnlessStopped
PROPERTIES StopIsFinal ImplementsEngine EveryScanEnds
