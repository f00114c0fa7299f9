SPECIFICATION Spec
CONSTANTS
    maxIdempotencyKeyLen = 2
    R = R
    E1 = E1
    E2 = E2
    E3 = E3
    Struct = {R, E1, E2, E3}
    Root = R
    MaxHeader = 6
    Scopes <- MCScopes
    Layouts <- MCLayouts
    BindLayouts <- MCBindLayouts
    Values <- MCValues
INVARIANTS
    KeyRead
    FieldsRead
    BoundAsSent
CHECK_DEADLOCK FALSE
