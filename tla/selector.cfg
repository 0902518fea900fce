SPECIFICATION Spec
CONSTANTS
    r1 = r1
    r2 = r2
    e1 = e1
    e2 = e2
    e3 = e3
    full = full
    active = active
    Request = {r1, r2}
    Pool <- Three
    TypeOf <- Types
    Full = full
    Wanted <- Asks
    Light = {r2}
    Alternating = {r1}
    Weight <- Alike
    Durations = {1}
    Counts = {0, 1, 3}
INVARIANTS TypeOK ListIsWhole  DemotedHasFailed
CHECK_DEADLOCK FALSE
