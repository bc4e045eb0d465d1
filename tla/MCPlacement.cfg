SPECIFICATION FairSpec
CONSTANTS
    m1 = m1
    t1 = t1
    None = none
    Regions = {east, west, witness}
    Configured = {east, west}
    Witness = witness
    Queues = {east, west}
    Sites = {east, west}
    Analyses = {a1}
    Matches = {m1}
    Tailoring <- MCTailoring
    MaxSubmitted = 1
    MaxReplaced = 1
    MaxOutages = 1
    MaxFaults = 2
INVARIANTS
    MessagesReachOwner
    OneRegionPerWork
    StrandedNeedsCrossing
    ReadyMeansHealthy
PROPERTIES
    OwnedWorkEnds
