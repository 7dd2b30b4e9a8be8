---------------------------- MODULE MCBlockStore ----------------------------
EXTENDS BlockStore
=============================================================================
