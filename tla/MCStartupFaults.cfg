CONSTANTS
  Node = {n1, n2, n3}
  MaxFaults = 1
  MaxTimeouts = 0
  MaxBoots = 3
  InitialRetries = 1
  MaxFailures = 1
  Interruptible = TRUE
SYMMETRY Symmetry
SPECIFICATION Spec
INVARIANTS
  SameGeneration
  RestartsBounded
  ServingMeansReady
