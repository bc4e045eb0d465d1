SPECIFICATION Spec
CONSTANTS
    r1 = r1
    r2 = r2
    r3 = r3
    r4 = r4
    b1 = b1
    b2 = b2
    Requests = {r1, r2}
    Bodies = {b1, b2}
    Body <- MCSameBody
    MaxFaults = 1
INVARIANTS
    AcceptedIsDispatched
