SPECIFICATION FairSpec
CONSTANTS
  Alice = Alice
  Bob = Bob
  Charlie = Charlie
  Users = {Alice, Bob, Charlie}
  Connections <- Graph
  Staged = TRUE
  MaxFailures = 2
INVARIANTS TypeOK QuietMeansMirrored
PROPERTIES ImplementsMigration ConnectionsAreMirrored
