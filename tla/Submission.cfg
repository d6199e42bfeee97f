\* Three requests, two keys, three connections, one failed call.
CONSTANTS
  Request = {r1, r2, r3}
  NoRequest = NoRequest
  Key = {k1, k2}
  NoKey = NoKey
  Mortal = {r1, r2, r3}
  MaxConns = 3
  MaxFaults = 1
SPECIFICATION FairSpec
INVARIANTS SameKeySameTask EventsMatchTasks FailuresHaveCauses
PROPERTIES IsAtomic RequestsEnd
\* The system stops when every request is answered.
CHECK_DEADLOCK FALSE
