SPECIFICATION FairSpec
CHECK_DEADLOCK FALSE
CONSTANTS
  u1 = u1
  u2 = u2
  Delegations = TRUE
  Users = {u1, u2}
  Delegators <- OnceEach
  MaxBlock = 3
  Legacy = 1
  HighWater = 1
  Scans = {1}
  MaxCrashes = 1
PROPERTIES EveryBlockIsScanned
