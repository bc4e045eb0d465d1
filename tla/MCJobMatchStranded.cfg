SPECIFICATION MatchSpec
CONSTANTS
    m1 = m1
    c1 = c1
    c2 = c2
    c3 = c3
    i1 = i1
    match = match
    tailoring = tailoring
    interview = interview
    Match = match
    Children = {tailoring, interview}
    Jobs = {match, tailoring, interview}
    Messages = {m1, c1, i1}
    JobOf <- MCTwoJobOf
    JobType <- MCTwoJobType
    InitialStatus <- MCTwoInitialStatus
    ProviderErrors = {"server"}
    MaxReceives = 2
    MaxProcessingAttempts = 2
    RunTimeout = 1
    Visibility = 3
    Lease = 2
    MaxFaults = 0
INVARIANTS
    AckedMeansSettled
