SPECIFICATION FairSpec
CONSTANT
    Runs <- AllRuns
INVARIANT TypeOK
INVARIANT PageMirrors
INVARIANT PartsInOrder
INVARIANT PayloadIsShown
INVARIANT StopKeepsWhatWasRead
PROPERTY TurnSettles
CHECK_DEADLOCK FALSE
