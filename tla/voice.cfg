SPECIFICATION FairSpec
CONSTANTS
    MaxUtterances = 2
    Threads = {t1, t2}
    Settings <- Some
INVARIANT TypeOK
INVARIANT BarIsTrue
INVARIANT SentAsResolved
PROPERTY EveryUtteranceEnds
CHECK_DEADLOCK FALSE
