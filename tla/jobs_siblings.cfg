SPECIFICATION Spec
CONSTANTS
    u1 = u1
    Requests <- Siblings
    Pages = {p1}
    BatchLimit = 1
    MaxTxs = 2
    MaxAttempts = 1
    MaxEnqueues = 2
    MaxCrashes = 0
    ChainErrors = {"InvalidSchemaId"}
    OrderedAdds = FALSE
    Outages = TRUE
    OddOutcomes = {"neither"}
    Revocable = {u1}
INVARIANTS
    OneLiveSubmission
    ParkedHasMonitor
CHECK_DEADLOCK FALSE
