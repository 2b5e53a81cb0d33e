SPECIFICATION FairSpec
CONSTANTS
  MirrorList <- MCMirrorList
  SeedFiles <- MCSeedFiles
  MaxRuns = 2
  MaxFaults = 1
  MaxEpoch = 2
INVARIANTS TypeOK PartialRotationKeepsLogin
PROPERTIES   RunEnds
CHECK_DEADLOCK FALSE
