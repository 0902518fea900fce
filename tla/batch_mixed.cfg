SPECIFICATION Spec
CONSTANTS
    a = a
    b = b
    d = d
    s = s
    k1 = k1
    k2 = k2
    k3 = k3
    Null = Null
    Failed = Failed
    None = None
    Call = {a, b}
    Batch <- Batches
    Direct = {}
    Single = {}
    Key = {k1, k2, k3}
    Cacheable = {k1, k2}
    Nullable = {}
    Reorders = FALSE
INVARIANTS EveryQuestionAnswered
CHECK_DEADLOCK FALSE
