--------------------------- MODULE MCStoredBlocks ---------------------------
EXTENDS StoredBlocksQueries
=============================================================================
