CONSTANTS
    Files <- MCFiles
    Targets <- MCTargets
    Dir <- MCDir
    None = None
    BufferLen = 2
    QueueLimit = 3
    MaxEdits = 4
SPECIFICATION FairSpec
INVARIANTS
    TypeOK
    NoEditLost
PROPERTY EditsArrive
CHECK_DEADLOCK FALSE
