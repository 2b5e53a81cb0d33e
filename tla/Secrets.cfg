SPECIFICATION Spec
CONSTANTS
  NotebookList <- MCNotebookList
  MaxRuns = 2
  MaxFaults = 2
  MaxEpoch = 2
  MaxEdits = 2
INVARIANTS TypeOK CleanRunDelivers OkMeansDelivered
PROPERTIES NoFaultNoLoss
CHECK_DEADLOCK FALSE
