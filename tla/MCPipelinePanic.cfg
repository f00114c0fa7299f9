SPECIFICATION Spec
CONSTANTS
    Statuses = {42, 200, 404}
    OwnStatuses = {401}
INVARIANTS
    PanicObservedAs500
