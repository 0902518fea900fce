SPECIFICATION FairSpec
CONSTANTS
    a = a
    b = b
    NoCall = NoCall
    Call = {a, b}
    Key = {a, b}
    KeyOf <- OwnKey
    Deadline = {a, b}
    Recovered = {a, b}
    MaxLink = 1
PROPERTY DeadlineIsKept
CHECK_DEADLOCK FALSE
