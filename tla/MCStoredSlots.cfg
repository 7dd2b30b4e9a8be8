CONSTANTS
    Readers = {r1, r2}
    Slots = {1, 2}
    SlotMax = 9
    MaxLog = 3
SPECIFICATION Spec
SYMMETRY Symmetry
INVARIANTS PublishedKnown NothingLost
PROPERTY ConfirmedMonotone
