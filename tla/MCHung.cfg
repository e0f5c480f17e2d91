CONSTANTS
  c1 = c1
  c2 = c2
  Calls <- MCCalls
  Impatient <- MCImpatient
  Configs <- MCConfigs
  DefaultConfig <- MCDefault
  JitterParts = 1
  Width = 3
  HTTPTimeout = 1
  CallTimeout = 4
  MaxTime = 0
  Unit = 2
  Rate = 1
  Burst = 1
SPECIFICATION Spec
INVARIANTS
  HungAttemptRetried
CHECK_DEADLOCK FALSE
