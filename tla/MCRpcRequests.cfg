CONSTANTS
    MaxSlot = 4
    Skipped = {4}
    Cells = {c1, c2}
    MaxBlocks = 2
    Readers = {r1, r2}
    MaxPending = 2
    MaxRecent = 2
    MaxAge = 1
    Margin = 1
    Finalized = {2}
    Forks = {2}
    Loads <- MCLoads
SPECIFICATION ReadSpec
SYMMETRY Symmetric
INVARIANTS AnswerRight NothingMissed BlocksListed HeightFresh FailsOnlyOnSkipped StatusesAligned
