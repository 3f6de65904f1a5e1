CONSTANTS
  Worker = {w1}
  MaxJobs = 2
  MaxDrops = 1
  MaxRestarts = 1
  MaxGone = 1
  IdMod = 2
  JobChCap = 2
SPECIFICATION Spec
CHECK_DEADLOCK FALSE
INVARIANTS
  TypeOK
  HandshakeOrder
  ResultsFaithful
  AtMostOnce
  DroppedOnlyAtShutdown
