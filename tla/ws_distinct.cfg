SPECIFICATION FairSpec
CONSTANTS
    a = a
    b = b
    NoCall = NoCall
    Call = {a, b}
    Key = {a, b}
    KeyOf <- OwnKey
    Deadline = {a}
    Recovered = {a}
    MaxLink = 2
INVARIANTS TypeOK SessionIsLive  
PROPERTIES ReaderUnblocks
CHECK_DEADLOCK FALSE
