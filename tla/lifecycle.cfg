CONSTANTS
    Http  = {h1}
    Ws    = {w1}
    Check = {k1}
SPECIFICATION Spec
CHECK_DEADLOCK FALSE
INVARIANTS TypeOK ClientsOutliveCalls 
 
