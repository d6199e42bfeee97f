\* 12-bit integers: every base up to the cap, and three times as many attempts as bits.
CONSTANTS
  Width = 12
  Bases <- AllBases
  MaxBackOff = 150
  MaxAttempts = 36
  Panic = Panic
SPECIFICATION Spec
INVARIANT WaitIsExponential
\* The bound on the attempts ends a behaviour.
CHECK_DEADLOCK FALSE
