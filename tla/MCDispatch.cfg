SPECIFICATION FairSpec
CONSTANTS
    Analyses = {a1, a2}
    Publishers = {p1, p2}
    BatchSize = 2
    RunTimeout = 1
    Lease = 2
    BaseDelay = 1
    MaxRetryDelay = 1
    MaxTries = 1
    MaxFaults = 1
INVARIANTS
    OneDispatcher
    IndexMatchesDispatch
    DispatchedWasSent
    SentOnce
PROPERTIES
    DispatchOnlyAdvances
    EventuallySent
