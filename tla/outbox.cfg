SPECIFICATION Spec
CONSTANTS
  Notice = {n1}
  Sweep = {s1, s2}
  Consumer = {c1, c2}
  Free = free
  BatchSize = 1
  MaxBatches = 2
  MaxRetries = 1
  MaxAttempts = 0
  MaxMishaps = 2
SYMMETRY Symmetry
INVARIANTS HolderKeepsClaim
PROPERTIES RescanNotLost
CHECK_DEADLOCK FALSE
