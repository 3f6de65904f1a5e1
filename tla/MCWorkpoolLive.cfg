CONSTANTS
  Worker = {w1}
  MaxJobs = 2
  MaxDrops = 1
  MaxRestarts = 1
  MaxGone = 1
  IdMod = 2
  JobChCap = 2
SPECIFICATION FairSpec
CHECK_DEADLOCK FALSE
PROPERTIES
  ImplementsContract
  JobsResolve
