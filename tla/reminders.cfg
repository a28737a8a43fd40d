SPECIFICATION FairSpec
CONSTANTS
  Run = {r1}
  Room = room
  None = none
  Choice = {0, 2}
  MaxTime = 2
  MaxEdits = 2
  MaxAsks = 1
  MaxMishaps = 1
INVARIANTS OncePerMoment
PROPERTIES NotifiesCurrent DueIsSettled FollowsDate
CHECK_DEADLOCK FALSE
