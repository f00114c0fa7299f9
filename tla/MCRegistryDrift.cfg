SPECIFICATION Spec
CONSTANTS
    Proc = {g1, g2}
    Declaration <- MCOneNode
    StripPrefix <- MCStripPrefix
    Params = {"{p}", "{q}"}
    MaxActions = 2
    None = None
    Torn = Torn
INVARIANTS
    ServesWhatItDocuments
