SPECIFICATION FairSpec
CONSTANTS
    r1 = r1
    r2 = r2
    h = h
    w = w
    Request = {r1, r2}
    Endpoint = {h, w}
    Ws = {w}
    Number <- Numbers
    MaxAttempts = 2
    DefaultAttempts = 2
    MaxTimeout = 6
    DefaultTimeout = 5
    Millisecond = 4
    MaxDuration = 16
INVARIANTS TypeOK RotationCoversAll  OneCallPastDeadline
 
CHECK_DEADLOCK FALSE
