SPECIFICATION DirSpec
CONSTANTS
    NumRows = 3
    NumBlocks = 2
    BlockSize = 2
    ByteSize = 2
    DecryptAtClient = TRUE
    DiskStorage = TRUE
    CounterMax = 2
    UpdateMax = 3
    Env = {}
    Built <- MCBuilt
    RowZeroTaken = TRUE
    ColZeroTaken = FALSE
    k0 = k0
    k1 = k1
    k2 = k2
    d0 = d0
    f1 = f1
    f2 = f2
    Keywords <- MCKeywords
    UserWords <- MCUserWords
    Files <- MCFiles
    DB <- MCDB
SYMMETRY MCSymmetry
INVARIANTS
    SearchCounts
CHECK_DEADLOCK FALSE
