SPECIFICATION Spec
CONSTANTS
    Setups <- MCSetups
    Databases <- MCDatabases
    MaxWords = 3
    MaxBuilds = 2
INVARIANTS
    SessionTypeOK
    SameBuild
    DisksSameBuild
    RequestsServed
PROPERTIES
    UploadEnds
CHECK_DEADLOCK FALSE
