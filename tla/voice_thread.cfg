SPECIFICATION Spec
CONSTANTS
    MaxUtterances = 1
    Threads = {t1, t2}
    Settings <- JustSwitch
INVARIANT SentWhereSpoken
CHECK_DEADLOCK FALSE
