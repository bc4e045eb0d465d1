SPECIFICATION MatchSpec
CONSTANTS
    m1 = m1
    c1 = c1
    c2 = c2
    c3 = c3
    i1 = i1
    match = match
    tailoring = tailoring
    interview = interview
    Match = match
    Children = {tailoring}
    Jobs = {match, tailoring}
    Messages = {m1, c1, c2, c3}
    JobOf <- MCJobOf
    JobType <- MCJobType
    InitialStatus <- MCInitialStatus
    ProviderErrors = {"server"}
    MaxReceives = 3
    MaxProcessingAttempts = 3
    RunTimeout = 1
    Visibility = 2
    Lease = 3
    MaxFaults = 2
SYMMETRY ChildMessageSymmetry
INVARIANTS
    CompletedMatchHandedOver
    ChildSentOnce
PROPERTIES
    ParentRespectsWorker
