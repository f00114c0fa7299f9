SPECIFICATION Spec
CONSTANTS
    Type = {tA, tB, tNum, tColor}
    Root = tA
    Scalar = {tNum}
    Enum = {tColor}
    Request = request
    None = None
    MaxFields = 2
    MaxInner = 1
    MaxLen = 2
    MaxDepth = 2
    MaxNest = 7
INVARIANTS
    LiveIsExact
    FailuresReported
CHECK_DEADLOCK FALSE
