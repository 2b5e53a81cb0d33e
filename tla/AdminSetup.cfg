SPECIFICATION Spec
CONSTANTS
  Runners <- MCRunners
  HookLists <- MCHookLists
  MaxRuns = 4
  MaxFaults = 3
INVARIANTS TypeOK NeverLockedOut CleanRunSetsUp
PROPERTIES OkMeansSetUp
CHECK_DEADLOCK FALSE
