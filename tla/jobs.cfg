SPECIFICATION FairSpec
CONSTANTS
  Starter = {s1}
  MaxCleaners = 2
  MaxAttempts = 2
  MaxMishaps = 1
INVARIANT SucceededIsWhole
PROPERTIES StagedIsKept JobEnds
CHECK_DEADLOCK FALSE
