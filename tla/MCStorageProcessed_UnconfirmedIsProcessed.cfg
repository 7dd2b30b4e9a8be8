CONSTANTS
    N = 4
    Signatures = {"a", "b", "c"}
    Tx <- SharedTx
    MaxRecent = 2
SPECIFICATION Spec
INVARIANT UnconfirmedIsProcessed
