SPECIFICATION Spec
CONSTANTS
    NumRows = 3
    NumBlocks = 2
    CounterMax = 3
    Builds <- MCTwoRegister
INVARIANTS
    KeysRight
CHECK_DEADLOCK FALSE
