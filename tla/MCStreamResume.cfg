CONSTANTS
    MaxSlot = 5
    MaxAttempts = 2
    Reconnect = TRUE
    Capacity = 1
    Failures = {"connect", "error", "finish", "http"}
SPECIFICATION Spec
INVARIANT PushesInOrder
PROPERTIES GivesUp StoredInTheEnd
CHECK_DEADLOCK FALSE
