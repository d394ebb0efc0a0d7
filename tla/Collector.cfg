SPECIFICATION MCSpec
SYMMETRY Interchangeable
VIEW UpToAge
CONSTANTS
  Handlers = {h1}
  Tasks = {t1, t2}
  RetryLimit = 2
  Coordinated = TRUE
  Prompt = FALSE
  MaxGeneration = 2
  MaxReplays = 1
  MaxRequests = 3
  MaxFaults = 1
  MaxCrashes = 1
  Exports <- MCExports
  MaxRemembered = 3
  MaxSnapshotBytes = 1536
  Ttl = 1
  NoKey = NoKey
  NoId = NoId
  NoExport = NoExport
  MaxDeliveries = 4
  MaxClock = 2
  Turns = {u1, u2, u3}
  Contents = {c1, c2}
  MaxFiles = 2
  MaxAge = 0
  NoTurn = NoTurn
  NoDetail = NoDetail
  NoJob = NoJob
  MaxCaptures = 3
  MaxToday = 1
  Writers = {w1, w2, w3}
  Nobody = Nobody
  NotWriting = NotWriting
INVARIANTS
  TypeOK
  OneRefreshOwner
  NoLostWakeup
  AcknowledgedIsRendered
  StagingAccounted
  PairedRight
  RememberedOnce
  WaitsUntilDue
  ShownUntilDue
  CutExcludesWriters
CHECK_DEADLOCK FALSE
