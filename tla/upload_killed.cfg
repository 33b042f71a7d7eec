SPECIFICATION Spec
CONSTANTS
    Setups <- MCUploadKilled
    Databases <- MCDatabases
    MaxWords = 3
    MaxBuilds = 2
INVARIANTS
    RequestsServed
CHECK_DEADLOCK FALSE
