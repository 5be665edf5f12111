SPECIFICATION Spec
CONSTANTS
  MaxScans = 3
  Requests <- TinyRequests
  MaxWorkers = 2
  DefaultWorkers = 1
  LiveCap = 1
  Outcomes = {"connected", "cancelled"}
PROPERTIES OneScanAtATime
