-------------------------- MODULE MCStorageMemory ---------------------------
EXTENDS StorageMemory
=============================================================================
