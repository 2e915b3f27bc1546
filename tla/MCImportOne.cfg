SPECIFICATION FairSpec
CONSTANTS
  p1 = p1
  p2 = p2
  s1 = s1
  q1 = q1
  q2 = q2
  Procs = {p1}
  Requests = {}
  Qsos = {q1, q2}
  DayLength = 1
  Repeats = FALSE
  LastTick = 2
  MaxCrashes = 1
PROPERTIES ReloadEnds
