--------------------------- MODULE MCStorageFiles ---------------------------
EXTENDS StorageFiles

\* A small and a larger file, so that round robin skips the small one.
TwoFilesSize == [i \in Index |-> IF i = 0 THEN 3 ELSE 7]

AllNew == [i \in Index |-> TRUE]
=============================================================================
