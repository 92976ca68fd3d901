SPECIFICATION Spec
CONSTANTS
    Users = {"ann", "bob"}
    MaxStarts = 2
    MaxTurns = 3
    MaxTokens = 4
    MaxVersion = 3
    CacheLimit = 2
    Surroundings <- JustPair
INVARIANT AgentOfTheUser
CHECK_DEADLOCK FALSE
