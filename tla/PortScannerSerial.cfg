SPECIFICATION SerialSpec
CONSTANTS
  MaxScans = 2
  Requests <- SerialRequests
  MaxWorkers = 4
  DefaultWorkers = 1
  LiveCap = 1
  Outcomes = {"connected", "cancelled"}
INVARIANTS ScanInv NoResultLost
PROPERTIES ProbeAtMostOnce ImplementsJob
