SPECIFICATION Spec
CONSTANTS
    Req = {r1, r2, r3}
    Key = {k1}
    Fingerprint = {p1, p2}
    Faults = {"lapse", "forget", "store", "leave", "crash"}
    None = None
SYMMETRY Symmetry
INVARIANTS
    TypeOK
    OneRunPerKey
    RunsOnlyUnsaved
    AnswersJustified
PROPERTIES
    FinishedNeverRunsAgain
    ImplementsOncePerKey
