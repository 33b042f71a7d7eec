SPECIFICATION Spec
CONSTANTS
    NumRows = 2
    MaxWrites = 3
    Geometries <- MCGeometries
INVARIANTS
    FilesTypeOK
PROPERTIES
    OthersUntouched
    ImplementsBlockArray
CHECK_DEADLOCK FALSE
