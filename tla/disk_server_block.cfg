SPECIFICATION FairSpec
CONSTANTS
    NumRows = 1
    NumBlocks = 2
    BlockSize = 2
    ByteSize = 2
    DecryptAtClient = FALSE
    DiskStorage = TRUE
    CounterMax = 3
    UpdateMax = 4
    Env = {}
    Built <- MCBuilt
INVARIANTS
    IndexInv
    BufferFresh
PROPERTIES
    RequestAnswered
    SearchExact
    UpdateExact
    CiphertextsAdvance
    ImplementsPlainIndex
CHECK_DEADLOCK FALSE
