\* A failed claim.
CONSTANTS
  Instance = {i1, i2}
  NoInstance = NoInstance
  Events = 2
  Garbage = Garbage
  BatchSize = 2
  MaxGarbage = 0
  MaxAssigns = 2
  MaxFaults = 1
SPECIFICATION Spec
INVARIANTS FailedIsUncommitted
\* The system stops when every instance has stopped.
CHECK_DEADLOCK FALSE
