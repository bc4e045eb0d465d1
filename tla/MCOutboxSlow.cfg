SPECIFICATION Spec
CONSTANTS
    Events <- MCEvents
    Publishers = {p1, p2}
    p1 = p1
    p2 = p2
    BatchSize = 2
    ScanDepth = 2
    MaxDeliveryAttempts = 2
    RunTimeout = 2
    Lease = 1
    RetryDelayByAttempt <- MCRetryDelay
    MaxRetryDelay = 2
    MaxClaims = 3
    MaxFaults = 1
    MaxReplays = 1
SYMMETRY PublisherSymmetry
INVARIANTS
    DeliveredWasSent
PROPERTIES
    DeliveredIsFinal
    HolderKeepsRow
