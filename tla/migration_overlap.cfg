SPECIFICATION Spec
CONSTANTS
  Alice = Alice
  Bob = Bob
  Charlie = Charlie
  Users = {Alice, Bob, Charlie}
  Connections <- Graph
  Staged = FALSE
  MaxFailures = 0
INVARIANT QuietMeansMirrored
