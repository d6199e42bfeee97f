\* One request more than connections: what a test says of duplicates.
CONSTANTS
  Request = {r1, r2, r3}
  NoRequest = NoRequest
  Key = {k1}
  NoKey = NoKey
  Mortal = {}
  MaxConns = 2
  MaxFaults = 0
SPECIFICATION FairSpec
PROPERTY DuplicatesAreAnswered
\* The system stops when every request is answered.
CHECK_DEADLOCK FALSE
