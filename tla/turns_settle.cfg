SPECIFICATION FairSpec
CONSTANTS
    MaxTurns = 3
    Environments <- JustStopAndRegenerate
PROPERTY EventuallySettled
CHECK_DEADLOCK FALSE
