\* Two workers, batches of three, a Kafka message whenever there is time.
CONSTANTS
  Worker = {w1, w2}
  BatchSize = 3
SPECIFICATION FairSpec
INVARIANTS LocksStayYoung NoSendOnClosed NothingLeftBehind
PROPERTIES SendersGetThrough ShutdownCompletes
\* The system stops when the pool has stopped.
CHECK_DEADLOCK FALSE
