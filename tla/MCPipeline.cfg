SPECIFICATION Spec
CONSTANTS
    Statuses = {42, 103, 200, 204, 404}
    OwnStatuses = {103, 401}
INVARIANTS
    TypeOK
    ObservedWhatWasSent
    OneAnswer
    EndsReported
    TimeoutsAreLate
    SavedIsSent
