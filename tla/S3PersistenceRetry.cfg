SPECIFICATION Spec
CONSTANTS
    forgejo = forgejo
    mlflow = mlflow
    NoDump = NoDump
    Damaged = Damaged
    Databases <- OnlyForgejo
    Trees <- TheTrees
    MaxSnapshots = 2
    MaxWrites = 1
PROPERTIES
    DestroyedDatabasesAreSaved
