\* Stalls, failed calls, every PATCH and a reading client, on one task.
CONSTANTS
  Instance = {i1, i2}
  NoInstance = NoInstance
  MaxRetries = 2
  Task = {t1}
  NoTask = NoTask
  BadPayload = {}
  DeadId = {d1, d2}
  Place = {p1}
  BatchSize = 1
  PatchStatuses = {"pending", "running", "completed", "failed"}
  MaxStalls = 1
  MaxFaults = 1
SPECIFICATION ReadSpec
SYMMETRY Interchangeable
INVARIANTS TypeOK LastErrorOnRecord NoTaskLost NoEarlyDeath NothingOverlooked
PROPERTY OnlyPatchStrands
\* The system stops when every incarnation is down.
CHECK_DEADLOCK FALSE
