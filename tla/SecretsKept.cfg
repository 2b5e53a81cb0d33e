SPECIFICATION Spec
CONSTANTS
  NotebookList <- MCNotebookList
  MaxRuns = 2
  MaxFaults = 1
  MaxEpoch = 1
  MaxEdits = 0
PROPERTIES KeptPrevious
CHECK_DEADLOCK FALSE
