SPECIFICATION FairSpec
CONSTANTS
    Events <- MCEvents
    Publishers = {p1, p2}
    p1 = p1
    p2 = p2
    BatchSize = 1
    ScanDepth = 1
    MaxDeliveryAttempts = 2
    RunTimeout = 1
    Lease = 2
    RetryDelayByAttempt <- MCRetryDelay
    MaxRetryDelay = 2
    MaxClaims = 10
    MaxFaults = 1
    MaxReplays = 0
INVARIANTS
    OneHolder
    ClaimOutlivesRun
    DuplicateNeedsFault
    AttemptBudget
    IndexMatchesStatus
PROPERTIES
    Settles
    ImplementsPromise
