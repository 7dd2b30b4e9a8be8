------------------------- MODULE MCStorageProcessed -------------------------
EXTENDS StorageProcessed

\* A transaction of its own in slots 1 and 4, one that slots 2 and 3 share.
SharedTx == [s \in Slots |-> CASE s = 1 -> {"a"} [] s \in {2, 3} -> {"b"} [] OTHER -> {"c"}]
=============================================================================
