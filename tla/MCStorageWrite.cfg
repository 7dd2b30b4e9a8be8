CONSTANTS
    MaxSlot = 7
    MaxBlocks = 5
    Concurrency = 2
    SyncTo = 1
    Catchups = 1
    Databases <- SomeDatabases
SPECIFICATION Spec
INVARIANTS NothingForgotten CatchupNeverHangs BackfillReaches
PROPERTY BackfillEnds
CHECK_DEADLOCK FALSE
