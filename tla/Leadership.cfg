\* Three instances, one session ended by the server, one failed query.
CONSTANTS
  Instance = {i1, i2, i3}
  NoInstance = NoInstance
  Orphan = Orphan
  MaxBreaks = 1
  MaxFaults = 1
SPECIFICATION FairSpec
PROPERTIES IsSuccession AlwaysRecovered
\* The system stops when every process has ended.
CHECK_DEADLOCK FALSE
