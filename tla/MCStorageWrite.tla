--------------------------- MODULE MCStorageWrite ---------------------------
EXTENDS StorageWrite

\* Empty, two slots above sync_to with nothing after, and nearly full.
SomeDatabases == {<<0, 0>>, <<3, 3>>, <<3, 6>>}
=============================================================================
