\* Two instances, two assignments, one failed call, one event and a foreign message.
CONSTANTS
  Instance = {i1, i2}
  NoInstance = NoInstance
  Events = 1
  Garbage = Garbage
  BatchSize = 2
  MaxGarbage = 1
  MaxAssigns = 2
  MaxFaults = 1
SPECIFICATION FairSpec
INVARIANTS TypeOK PublishedIsLogged CommittedIsSeen
PROPERTIES IsAtLeastOnce OutboxDrains ConsumersCatchUp
\* The system stops when every instance has stopped.
CHECK_DEADLOCK FALSE
