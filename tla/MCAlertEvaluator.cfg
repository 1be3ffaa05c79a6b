SPECIFICATION Spec
CONSTANTS
  Count = 2
  Window = 2
  RatePercent = 50
  MinSample = 2
  Stalled = 2
  MetricsWindow = 3
  SteadyPolling = FALSE
  MaxTime = 5
  MaxJobs = 3
  MaxCleans = 1
INVARIANTS
  TypeOK
  NoBacklogSpike
  CountedOnce
  StalledIsIdle
CHECK_DEADLOCK FALSE
