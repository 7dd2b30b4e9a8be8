CONSTANTS
    N = 2
    Size <- TwoFilesSize
    NewBlocks <- AllNew
    BlockSizes = {1, 2, 3}
    MaxStored = 4
SPECIFICATION FilesSpec
INVARIANTS BlocksDisjoint Layout
