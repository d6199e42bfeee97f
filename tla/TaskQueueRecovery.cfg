\* One late heartbeat.
CONSTANTS
  Instance = {i1, i2}
  NoInstance = NoInstance
  MaxRetries = 2
  Task = {t1}
  NoTask = NoTask
  BadPayload = {}
  DeadId = {d1}
  Place = {p1}
  BatchSize = 1
  PatchStatuses = {}
  MaxStalls = 1
  MaxFaults = 0
SPECIFICATION Spec
PROPERTIES RecoverySparesLive
\* The system stops when every incarnation is down.
CHECK_DEADLOCK FALSE
