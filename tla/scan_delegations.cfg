SPECIFICATION Spec
CHECK_DEADLOCK FALSE
CONSTANTS
  u1 = u1
  u2 = u2
  Delegations = TRUE
  Users = {u1, u2}
  Delegators <- OnceEach
  MaxBlock = 3
  Legacy <- NoLegacy
  HighWater = 1
  Scans = {1, 2}
  MaxCrashes = 1
INVARIANTS TypeOK NoBlockSkipped DelegationNotLost
