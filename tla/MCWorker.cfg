SPECIFICATION FairSpec
CONSTANTS
    m1 = m1
    m2 = m2
    j1 = j1
    Jobs = {j1}
    Messages = {m1, m2}
    JobOf <- MCJobOf
    JobType <- MCAnalysis
    InitialStatus <- MCQueued
    ProviderErrors = {"server", "badInput"}
    MaxReceives = 3
    MaxProcessingAttempts = 3
    RunTimeout = 1
    Visibility = 2
    Lease = 3
    MaxFaults = 2
INVARIANTS
    OneWorker
    AckedSettledOrAbandoned
    EnvelopesAreTrue
    EnvelopeBudget
PROPERTIES
    FollowsMatrix
    Concludes
