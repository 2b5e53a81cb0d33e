SPECIFICATION Spec
CONSTANTS
  Runners <- MCOneRunner
  HookLists <- MCHookLists
  MaxRuns = 3
  MaxFaults = 0
INVARIANTS NoFaultNoFailedHook
CHECK_DEADLOCK FALSE
