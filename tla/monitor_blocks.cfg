SPECIFICATION FairMonitorSpec
CONSTANTS
  MaxTxs = 2
  Period = 3
  FinalityLag = 1
  EpochLength = 2
  Outcomes = {"success", "neither", "other"}
  Delegations = FALSE
  Users = {}
  Delegators <- NoDelegations
  MaxBlock = 4
  Legacy <- NoLegacy
  HighWater = 1
  Scans = {1, 2}
  MaxCrashes = 1
INVARIANTS MonitorTypeOK ExpiredIsDead MissedOnlyIfPassed NeverOvercounted ScansAreExclusive
PROPERTIES ScansLikeTheScanner TrackedIsSettled
CONSTRAINT OneFault
CHECK_DEADLOCK FALSE
