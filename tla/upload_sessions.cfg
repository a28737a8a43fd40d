SPECIFICATION FairSpec
CONSTANTS
  Client = {c1, c2}
  Worker = {w1, w2}
  Part = {p1}
  NoLease = NoLease
  MaxUploads = 2
  MaxRequests = 2
INVARIANTS RowHasObject AbortedIsFenced RecordedIsFound
PROPERTIES SessionEnds
CHECK_DEADLOCK FALSE
