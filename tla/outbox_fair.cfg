SPECIFICATION FairSpec
CONSTANTS
  Notice = {n1}
  Sweep = {s1}
  Consumer = {c1}
  Free = free
  BatchSize = 1
  MaxBatches = 2
  MaxRetries = 5
  MaxAttempts = 2
  MaxMishaps = 1
PROPERTIES AnnouncedIsSettled
CHECK_DEADLOCK FALSE
