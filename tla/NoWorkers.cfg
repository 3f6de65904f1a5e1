CONSTANTS
  Worker = {}
  MaxJobs = 1
  MaxDrops = 0
  MaxRestarts = 0
  MaxGone = 0
  IdMod = 4
  JobChCap = 2
SPECIFICATION Spec
CHECK_DEADLOCK FALSE
INVARIANT CompletesWhenEmpty
