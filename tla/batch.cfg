SPECIFICATION Spec
CONSTANTS
    a = a
    b = b
    d = d
    s = s
    k1 = k1
    k2 = k2
    k3 = k3
    Null = Null
    Failed = Failed
    None = None
    Call = {a, b, d, s}
    Batch <- Batches
    Direct = {d}
    Single = {s}
    Key = {k1, k2, k3}
    Cacheable = {k1, k2}
    Nullable = {k2}
    Reorders = FALSE
INVARIANTS TypeOK  AnswersFit LossesExplained
CHECK_DEADLOCK FALSE
