SPECIFICATION Spec
CONSTANTS
    r1 = r1
    r2 = r2
    r3 = r3
    u1 = u1
    u2 = u2
    c1 = c1
    c2 = c2
    None = None
    Request = {r1, r2, r3}
    Url = {u1, u2}
    Chain = {c1, c2}
    ChainOf <- Asks
    MaxVersion = 2
    Configured <- Moving
    Provided <- ProvidesOne
    ClientsSize = 1
SYMMETRY Swap
INVARIANTS TypeOK IndexAgrees HolesNeedPurge 
    StaleNeedsLateLoader ClientsAreClosed
CHECK_DEADLOCK FALSE
