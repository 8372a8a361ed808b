SPECIFICATION FairSpec
CONSTANTS
    u1 = u1
    Requests <- ScannedJob
    Pages = {p1}
    BatchLimit = 1
    MaxTxs = 1
    MaxAttempts = 2
    MaxEnqueues = 1
    MaxCrashes = 1
    ChainErrors = {"UnauthorizedDelegate"}
    OrderedAdds = TRUE
    Outages = FALSE
    OddOutcomes = {"neither", "other"}
    Revocable = {}
PROPERTIES
    QueuedIsResolved
    PendingIsSettled
CHECK_DEADLOCK FALSE
