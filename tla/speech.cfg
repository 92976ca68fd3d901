SPECIFICATION FairSpec
CONSTANTS
    Readers = {r1, r2}
    MaxTexts = 1
    MaxChunks = 2
    Surroundings <- AllSurroundings
INVARIANT TypeOK
INVARIANT ReadyIsWhole
INVARIANT RefusedForCause
INVARIANT ReaderHearsAll
PROPERTY SettledAndCleaned
PROPERTY EveryoneEnds
CHECK_DEADLOCK FALSE
