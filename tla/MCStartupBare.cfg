CONSTANTS
  Node = {n1, n2, n3}
  MaxFaults = 1
  MaxTimeouts = 0
  MaxBoots = 2
  InitialRetries = 1
  MaxFailures = 1
  Interruptible = FALSE
SYMMETRY Symmetry
SPECIFICATION Spec
CHECK_DEADLOCK FALSE
INVARIANTS
  SameGeneration
  ServingMeansReady
