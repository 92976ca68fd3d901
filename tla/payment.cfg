SPECIFICATION FairSpec
CONSTANTS
    Users = {"ann", "bob"}
    Orders = {"o1", "o2"}
    Packages = {"trial", "mini"}
    Price <- Prices
    Quota <- Quotas
    DAILY_FREE_LIMIT = 1
    MAX_ATTEMPTS = 2
    MaxDay = 2
    MaxRuns = 2
    Environments <- AllSurroundings
INVARIANT TypeOK
INVARIANT Conservation
INVARIANT PaidOnlyIfBought
INVARIANT AcknowledgedIsSettled
INVARIANT PageTellsTheTruth
PROPERTY PollingEnds
PROPERTY ImplementsLedger
CHECK_DEADLOCK FALSE
