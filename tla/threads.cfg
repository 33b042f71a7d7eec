SPECIFICATION Spec
CONSTANTS
    NumRows = 3
    NumBlocks = 2
    CounterMax = 3
    Builds <- MCBuilds
INVARIANTS
    ThreadsTypeOK
    KeysRight
PROPERTIES
    CallsGetKeys
CHECK_DEADLOCK FALSE
