SPECIFICATION Spec
CONSTANTS
    NumRows = 2
    NumBlocks = 2
    BlockSize = 1
    ByteSize = 2
    DecryptAtClient = FALSE
    DiskStorage = TRUE
    CounterMax = 3
    UpdateMax = 2
    Env = {"reload"}
    Built <- MCBuilt
PROPERTIES
    SearchExact
CHECK_DEADLOCK FALSE
