SPECIFICATION FairSpec
CONSTANTS
    Users = {"ann", "bob"}
    MaxStarts = 2
    MaxTurns = 2
    MaxTokens = 5
    MaxVersion = 4
    CacheLimit = 1
    Surroundings <- AllSurroundings
INVARIANT TypeOK
INVARIANT StatusMatchesTokens
INVARIANT StaysConnected
INVARIANT AgentIsCurrent
PROPERTY StateUsedOnce
PROPERTY TurnsGoOn
CHECK_DEADLOCK FALSE
