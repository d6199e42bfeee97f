\* On time: two tasks, or one and its retry, and one with a bad payload or a failed call.
CONSTANTS
  Instance = {i1, i2}
  NoInstance = NoInstance
  MaxRetries = 2
  Task = {t1, t2, t3}
  NoTask = NoTask
  BadPayload = {t3}
  DeadId = {d1, d2}
  Place = {p1, p2}
  BatchSize = 2
  PatchStatuses = {}
  MaxStalls = 0
  MaxFaults = 1
SPECIFICATION Spec
CONSTRAINT OneTrouble
SYMMETRY Interchangeable
INVARIANTS LiveHolderOwnsRow OneHolder RetryBudget DeadLetteredOnce
PROPERTIES SettledIsFinal IsLease
\* The system stops when every incarnation is down.
CHECK_DEADLOCK FALSE
