SPECIFICATION Spec
CONSTANTS
  c1 = c1
  c2 = c2
  j1 = j1
  u1 = u1
  u2 = u2
  b1 = b1
  b2 = b2
  e1 = e1
  e2 = e2
  Cron = {c1, c2}
  Jobs = {}
  Users = {u1}
  Batches = {b1}
  Owner <- MCOwnerOne
  Endpoints = {e1}
  HasEmail = {u1}
  Configs <- EveryConfig
  Prefs <- EveryPref
  CronLimit = 5
  JobLimit = 1
  MaxCount = 1
  MaxJobs = 0
  MaxFaults = 2
  NoProc = NoProc
  NoRow = NoRow
  NoTx = NoTx
  Absent = Absent
INVARIANTS AtMostOnceRecorded OneChannel SnapshotHolds
PROPERTIES SentIsFinal KeepsPromise
SYMMETRY CronSymmetry
