SPECIFICATION FairSpec
CONSTANTS
    Analyses = {a1, a2}
    Publishers = {p1}
    BatchSize = 1
    RunTimeout = 1
    Lease = 2
    BaseDelay = 1
    MaxRetryDelay = 2
    MaxTries = 2
    MaxFaults = 0
PROPERTIES
    EventuallySent
