CONSTANTS
  Node = {n1, n2}
  MaxFaults = 2
  MaxTimeouts = 1
  MaxBoots = 5
  InitialRetries = 1
  MaxFailures = 2
  Interruptible = TRUE
SPECIFICATION FairSpec
INVARIANTS
  TypeOK
  RestartsBounded
PROPERTIES
  HeartbeatHeals
  Converges
