--------------------------- MODULE MCStoredSlots ----------------------------
EXTENDS StoredSlots, TLC

Symmetry == Permutations(Readers)
=============================================================================
