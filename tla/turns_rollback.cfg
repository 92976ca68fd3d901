SPECIFICATION Spec
CONSTANTS
    MaxTurns = 4
    Environments <- JustStopping
INVARIANT CompletedIsResumable
CHECK_DEADLOCK FALSE
