SPECIFICATION Spec
CONSTANTS
  Stacks <- MCStacks
  ParentOf <- MCParentOf
  Deferred <- MCDeferred
  Rendered <- MCRendered
  Guarded <- MCGuarded
  Databases <- MCDatabases
  Binds <- MCBinds
  Ruled <- MCRuled
  Probes = 2
  MaxRuns = 2
  MaxFaults = 1
  MaxVersion = 2
  MaxEdits = 2
INVARIANTS TypeOK OkMeansAsAsked CleanRunConverges NoPortWithoutRule
PROPERTIES PreflightGuards
CHECK_DEADLOCK FALSE
