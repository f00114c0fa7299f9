SPECIFICATION FairSpec
CONSTANTS
    Proc = {g1, g2}
    Declaration <- MCDeclaration
    StripPrefix <- MCStripPrefix
    Params = {"{p}", "{q}"}
    MaxActions = 3
    None = None
    Torn = Torn
INVARIANTS
    TypeOK
    SealedTogether
    RefusedForever
    ServesAllButTwins
    YAMLSettled
    OneDocument
PROPERTIES
    CallsReturn
