SPECIFICATION Spec
CONSTANTS
    r1 = r1
    r2 = r2
    r3 = r3
    k1 = k1
    k2 = k2
    d1 = d1
    d2 = d2
    Requests = {r1, r2, r3}
    Keys = {k1, k2}
    Key <- MCKey
    NoRequest = none
    Deletes = {d1, d2}
    Resubmits = {s1}
    MaxFaults = 1
SYMMETRY AlikeSymmetry
CHECK_DEADLOCK FALSE
INVARIANTS
    DispatchAfterUpdate
    StuckNeedsFault
    BlockedNeedsCause
    OrphanNeedsResubmission
    
