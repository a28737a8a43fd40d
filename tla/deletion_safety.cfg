SPECIFICATION Spec
CONSTANTS
  Page = {p1, p2}
  Job = {j1, j2}
  Worker = {w1}
  Top = Top
  Free = Free
  MaxEpoch = 1
  MaxStamp = 1
  MaxRequests = 2
  MaxSteals = 0
SYMMETRY Symmetry
INVARIANTS OneOwner AcceptedFrozen
PROPERTIES DeletesWhole DeletedWasLocked LiveContentKept
CHECK_DEADLOCK FALSE
