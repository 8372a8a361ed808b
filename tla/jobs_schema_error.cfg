SPECIFICATION Spec
CONSTANTS
    u1 = u1
    Requests <- ScannedJob
    Pages = {p1}
    BatchLimit = 1
    MaxTxs = 1
    MaxAttempts = 1
    MaxEnqueues = 1
    MaxCrashes = 0
    ChainErrors = {"InvalidSchemaId"}
    OrderedAdds = TRUE
    Outages = FALSE
    OddOutcomes = {}
    Revocable = {}
PROPERTIES
    VerdictResolves
CHECK_DEADLOCK FALSE
