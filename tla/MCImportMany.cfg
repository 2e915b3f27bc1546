SPECIFICATION Spec
CONSTANTS
  p1 = p1
  p2 = p2
  s1 = s1
  q1 = q1
  q2 = q2
  Procs = {p1}
  Requests = {s1}
  Qsos = {q1}
  DayLength = 1
  Repeats = TRUE
  LastTick = 1
  MaxCrashes = 1
INVARIANTS TypeOk CaughtUp SyncingIsTrue
PROPERTIES OneRowPerQso
