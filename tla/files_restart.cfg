SPECIFICATION Spec
CONSTANTS
    NumRows = 2
    MaxWrites = 3
    Geometries <- MCHalfBytes
PROPERTIES
    OthersUntouched
CHECK_DEADLOCK FALSE
