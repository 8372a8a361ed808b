SPECIFICATION Spec
CONSTANTS
    u1 = u1
    Requests <- ScannedJob
    Pages = {p1}
    BatchLimit = 1
    MaxTxs = 2
    MaxAttempts = 2
    MaxEnqueues = 1
    MaxCrashes = 2
    ChainErrors = {"UnauthorizedDelegate"}
    OrderedAdds = TRUE
    Outages = FALSE
    OddOutcomes = {"neither", "other"}
    Revocable = {}
INVARIANTS
    TypeOK
    WorkerOwnsJob
    CacheAgreesWithChain
    OneLiveSubmission
PROPERTIES
    CompletedMeansUpdated
    KeepsRequests
    SuccessVerdictSound
    NoPendingForgotten
CONSTRAINT FewFaults
CHECK_DEADLOCK FALSE
