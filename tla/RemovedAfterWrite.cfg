CONSTANTS
  Worker = {w1}
  MaxJobs = 1
  MaxDrops = 1
  MaxRestarts = 0
  MaxGone = 0
  IdMod = 4
  JobChCap = 2
SPECIFICATION FairSpec
CHECK_DEADLOCK FALSE
PROPERTY RemovedAfterWrite
