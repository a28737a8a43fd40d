SPECIFICATION Spec
CONSTANTS
  Edit = {a, b}
  MaxEpoch = 2
  MaxWaiting = 1
  Stopping = {1, 2}
  Archiving = TRUE
SYMMETRY Symmetry
INVARIANTS CommittedEpochHasSnapshot SettledIsClean CurrentIsWritable
PROPERTIES LeftIsKept
CHECK_DEADLOCK FALSE
