CONSTANTS
    Max = 3
    Slots = {0, 1, 2, 3, 4}
    SlotMax = 9
    Times = {5, 6}
    Readers = {r1}
    Capacity = 1
SPECIFICATION Spec
INVARIANTS RingContiguous ReplicasFollow FirstAvailableFollows QueriesExact
PROPERTY ImplementsWindow
