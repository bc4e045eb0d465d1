SPECIFICATION Spec
CONSTANTS
    m1 = m1
    m2 = m2
    j1 = j1
    Jobs = {j1}
    Messages = {m1}
    JobOf <- MCJobOfOne
    JobType <- MCAnalysis
    InitialStatus <- MCQueued
    ProviderErrors = {"server", "badInput"}
    MaxReceives = 5
    MaxProcessingAttempts = 5
    RunTimeout = 2
    Visibility = 3
    Lease = 5
    MaxFaults = 1
INVARIANTS
    AckedMeansSettled
