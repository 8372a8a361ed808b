SPECIFICATION FairSpec
CHECK_DEADLOCK FALSE
CONSTANTS
  FailureThreshold = 2
  SuccessThreshold = 2
  MaxRetries = 2
  Calls = {1, 2}
  MaxLoose = 1
  MaxGets = 1
INVARIANTS TypeOK HealthCheckGoesOn OutageKeepsQueueClosed
PROPERTIES QueueReopens ExhaustionPausesAgain
