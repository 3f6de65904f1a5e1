CONSTANTS
  Worker = {w1, w2}
  MaxJobs = 1
  MaxDrops = 1
  MaxRestarts = 1
  MaxGone = 1
  IdMod = 4
  JobChCap = 2
SYMMETRY Symmetry
SPECIFICATION Spec
CHECK_DEADLOCK FALSE
INVARIANTS
  TrackerPartition
  ResultsFaithful
  NothingSilentlyLost
  LostIsGone
