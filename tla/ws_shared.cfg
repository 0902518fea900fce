SPECIFICATION FairSpec
CONSTANTS
    a = a
    b = b
    NoCall = NoCall
    Call = {a, b}
    Key = {a}
    KeyOf <- SameKey
    Deadline = {a, b}
    Recovered = {a}
    MaxLink = 2
PROPERTIES  RefinesMux
CHECK_DEADLOCK FALSE
