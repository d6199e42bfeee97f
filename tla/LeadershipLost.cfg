\* What the coordinator's test says of a lost lock, with two instances.
CONSTANTS
  Instance = {i1, i2}
  NoInstance = NoInstance
  Orphan = Orphan
  MaxBreaks = 1
  MaxFaults = 0
SPECIFICATION FairSpec
PROPERTY LosingLockEndsLeadership
\* The system stops when every process has ended.
CHECK_DEADLOCK FALSE
