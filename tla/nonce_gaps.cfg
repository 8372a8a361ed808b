SPECIFICATION FairSpec
CHECK_DEADLOCK FALSE
CONSTANTS
  Calls = {1, 2}
  KeysToCheck = 2
  MaxNonce = 2
  MaxFaults = 2
INVARIANTS TypeOK NonceIsFresh
PROPERTIES SkippedNonceIsFilled
