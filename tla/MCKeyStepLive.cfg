SPECIFICATION FairSpec
CONSTANTS
    Req = {r1, r2}
    Key = {k1}
    Fingerprint = {p1, p2}
    Faults = {"lapse", "forget", "leave", "crash"}
    None = None
INVARIANTS
    KeyFreedWhenServed
PROPERTIES
    ServedEventually
    ReleasedEventually
