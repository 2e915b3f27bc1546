SPECIFICATION Spec
CONSTANTS
  u1 = u1
  u2 = u2
  q1 = q1
  q2 = q2
  Users = {u1}
  Qsls = {q1}
  QslOwner <- MCOwnerOne
  Day = 2
  Offsets <- EastWest
  Times = {0, 1}
  Retention = 2
  Dates <- MCDates
  FirstTick = 0
  LastTick = 6
  MaxChanges = 1
  MaxCrashes = 1
  NoCursor = NoCursor
  NoBatch = NoBatch
INVARIANTS NothingSkipped
PROPERTIES PurgeSparesDue
