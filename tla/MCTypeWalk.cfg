SPECIFICATION Spec
CONSTANTS
    Type = {t1, t2, t3}
    Root = t1
    None = None
    Kinds = {"component", "inlined", "container"}
    MaxKids = 2
    MaxOverridden = 1
SYMMETRY Symmetry
INVARIANTS
    TypeOK
    RefusalJustified
    AllTypesChecked
    BuildEnds
    ComponentsClosed
    StructCyclesRefused
CHECK_DEADLOCK FALSE
