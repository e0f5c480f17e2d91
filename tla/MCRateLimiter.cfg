CONSTANTS
  c1 = c1
  c2 = c2
  c3 = c3
  Callers <- MCCallers
  Unit = 4
  Rate = 2
  Burst = 2
  MaxTime = 4
SPECIFICATION FairSpec
INVARIANTS
  TypeOK
  RateConformance
  WorkConserving
  SleepIsEnough
PROPERTIES
  SomeoneProgresses
CHECK_DEADLOCK FALSE
