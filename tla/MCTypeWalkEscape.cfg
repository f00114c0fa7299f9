SPECIFICATION Spec
CONSTANTS
    Type = {t1, t2, t3}
    Root = t1
    None = None
    Kinds = {"component", "inlined", "container"}
    MaxKids = 2
    MaxOverridden = 0
SYMMETRY Symmetry
INVARIANTS
    SelfReferenceRefused
CHECK_DEADLOCK FALSE
