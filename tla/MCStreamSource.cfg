CONSTANTS
    N = 3
    Count <- Counts
SPECIFICATION SourceSpec
INVARIANTS BlocksExact StatusesSound RejectsOnlyUnknown SeenIsBuilt
CHECK_DEADLOCK FALSE
