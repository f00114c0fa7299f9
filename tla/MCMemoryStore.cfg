SPECIFICATION Spec
CONSTANTS
    Call = {c1, c2, c3, c4}
    Key = {k1, k2}
    InFlightTTL = 2
    TTL = 2
    MaxClock = 4
    None = None
SYMMETRY Symmetry
INVARIANTS
    TypeOK
    HeldUntilReleasedOrExpired
    KeptUntilReplacedOrExpired
PROPERTIES
    LookupIsCurrent
    ImplementsContract
CHECK_DEADLOCK FALSE
