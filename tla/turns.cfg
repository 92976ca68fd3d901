SPECIFICATION Spec
CONSTANTS
    MaxTurns = 5
    Environments <- AllSurroundings
INVARIANT TypeOK
INVARIANT MirrorsCurrent
INVARIANT VersionsNumbered
INVARIANT RegeneratesFromParent
INVARIANT MemoryIsHistory
PROPERTY ImplementsVersions
CHECK_DEADLOCK FALSE
