SPECIFICATION DirSpec
CONSTANTS
    NumRows = 2
    NumBlocks = 3
    BlockSize = 1
    ByteSize = 2
    DecryptAtClient = FALSE
    DiskStorage = TRUE
    CounterMax = 3
    UpdateMax = 3
    Env = {}
    Built <- MCBuilt
    RowZeroTaken = TRUE
    ColZeroTaken = TRUE
    k0 = k0
    k1 = k1
    k2 = k2
    d0 = d0
    f1 = f1
    f2 = f2
    Keywords <- MCKeywords
    UserWords <- MCUserWords
    Files <- MCFiles
    DB <- MCDB
SYMMETRY MCSymmetry
INVARIANTS
    TypeOK
    SearchCounts
CHECK_DEADLOCK FALSE
