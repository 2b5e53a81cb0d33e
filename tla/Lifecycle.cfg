SPECIFICATION Spec
CONSTANTS
    None = None
    MaxWrites = 1
    MaxEpochs = 2
    MaxImages = 3
CONSTRAINT
    AtMostTwoDepartures
INVARIANTS
    TypeOK
    CredentialsMatchInUse
PROPERTIES
    DestroyedWritesAreInR2
    StrictImageIsNewerThanR2
    SpinUpRestoresSaved
