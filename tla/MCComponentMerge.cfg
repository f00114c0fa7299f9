SPECIFICATION Spec
CONSTANTS
    A = A
    B = B
    AInput = AInput
    BInput = BInput
    AInputInput = AInputInput
    Name = {A, B, AInput}
    InputOf <- MCInputOf
    Keywords = {k1, k2}
INVARIANTS
    DiffersIsExact
    ReadsAsBuilt
CHECK_DEADLOCK FALSE
