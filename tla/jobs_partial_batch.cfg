SPECIFICATION Spec
CONSTANTS
    u1 = u1
    Requests <- ScannedJob
    Pages = {p1, p2}
    BatchLimit = 1
    MaxTxs = 2
    MaxAttempts = 2
    MaxEnqueues = 1
    MaxCrashes = 0
    ChainErrors = {"StalePageState"}
    OrderedAdds = TRUE
    Outages = FALSE
    OddOutcomes = {}
    Revocable = {}
PROPERTIES
    CompletedMeansUpdated
CHECK_DEADLOCK FALSE
