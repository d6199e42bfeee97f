\* Liveness, with a stall and a failed call: no symmetry.
CONSTANTS
  Instance = {i1, i2}
  NoInstance = NoInstance
  MaxRetries = 2
  Task = {t1}
  NoTask = NoTask
  BadPayload = {}
  DeadId = {d1, d2}
  Place = {p1}
  BatchSize = 1
  PatchStatuses = {}
  MaxStalls = 1
  MaxFaults = 1
SPECIFICATION FairSpec
INVARIANT NoLimbo
PROPERTIES Drains RecoveryIsSuccession
\* The system stops when every incarnation is down.
CHECK_DEADLOCK FALSE
