CONSTANTS
    MaxSlot = 4
    Skipped = {3}
    Cells = {c1, c2}
    MaxBlocks = 3
    Readers = {r1}
    MaxPending = 1
    MaxRecent = 2
    MaxAge = 1
    Margin = 1
    Finalized = {2}
    Forks = {2}
    Loads <- MCLoads
    Txs <- MCTxs
    Limits = {1, 2}
    Befores <- MCBefores
    Untils <- MCUntils
    BatchLimit = 3
    Filters <- MCFilters
SPECIFICATION AddressSpec
SYMMETRY Symmetric
INVARIANTS SignaturesExact PagesOrdered PagesComplete
