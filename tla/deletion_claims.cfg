SPECIFICATION FairSpec
CONSTANTS
  Page = {p1}
  Job = {j1}
  Worker = {w1, w2}
  Top = Top
  Free = Free
  MaxEpoch = 2
  MaxStamp = 1
  MaxRequests = 1
  MaxSteals = 1
PROPERTIES CompletedIsErased AcceptedIsFinished
CHECK_DEADLOCK FALSE
