SPECIFICATION FairSpec
CONSTANTS
  c1 = c1
  c2 = c2
  j1 = j1
  u1 = u1
  u2 = u2
  b1 = b1
  b2 = b2
  e1 = e1
  e2 = e2
  Cron = {c1}
  Jobs = {j1}
  Users = {u1}
  Batches = {b1, b2}
  Owner <- MCOwnerTwo
  Endpoints = {e1}
  HasEmail = {u1}
  Configs <- AllOn
  Prefs <- OnlyDefault
  CronLimit = 2
  JobLimit = 1
  MaxCount = 1
  MaxJobs = 1
  MaxFaults = 1
  NoProc = NoProc
  NoRow = NoRow
  NoTx = NoTx
  Absent = Absent
INVARIANTS SentIsBacked
PROPERTIES CycleEnds PendingIsDispatched
CONSTRAINT OneMatter
