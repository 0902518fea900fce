SPECIFICATION Spec
CONSTANTS
    a = a
    b = b
    NoCall = NoCall
    Call = {a, b}
    Key = {a, b}
    KeyOf <- SameKey
    Deadline = {a}
    Recovered = {a}
    MaxLink = 2
INVARIANT OwnAnswer
CHECK_DEADLOCK FALSE
