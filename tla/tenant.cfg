SPECIFICATION Spec
CONSTANTS
    r1 = r1
    r2 = r2
    r3 = r3
    p1 = p1
    p2 = p2
    Request = {r1, r2, r3}
    Proxy = {p1, p2}
    ProxyOf <- TwoProxies
    Capacity = 2
    Rate = 1
    Skew <- Ahead
    Start = 2
    MaxTime = 3
    MaxCrashes = 1
INVARIANTS TypeOK CapacityIsGranted GrantsAreBounded  
CHECK_DEADLOCK FALSE
