CONSTANTS
  Worker = {w1}
  MaxJobs = 3
  MaxDrops = 0
  MaxRestarts = 0
  MaxGone = 0
  IdMod = 2
  JobChCap = 2
SPECIFICATION FairSpec
CHECK_DEADLOCK FALSE
PROPERTY OneJobPerId
