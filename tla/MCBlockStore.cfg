CONSTANTS
    MaxSlot = 5
    Skipped = {3}
    Cells = {c1, c2, c3}
    MaxBlocks = 3
SPECIFICATION Spec
INVARIANTS ListedIntact ListedIndexed
PROPERTY DurableWindow
