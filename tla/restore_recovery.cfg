SPECIFICATION FairSpec
CONSTANTS
  Edit = {a}
  MaxEpoch = 2
  MaxWaiting = 1
  Stopping = {1, 2}
  Archiving = TRUE
PROPERTIES DeferredIsResolved
CHECK_DEADLOCK FALSE
