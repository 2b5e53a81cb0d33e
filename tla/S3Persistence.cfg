SPECIFICATION Spec
CONSTANTS
    forgejo = forgejo
    mlflow = mlflow
    NoDump = NoDump
    Damaged = Damaged
    Databases <- TheDatabases
    Trees <- TheTrees
    MaxSnapshots = 2
    MaxWrites = 1
INVARIANTS
    TypeOK
    PublishedIsSound
PROPERTIES
    DestroyedTreesAreSaved
    RunningDatabasesAreSaved
    TeardownIsSafe
