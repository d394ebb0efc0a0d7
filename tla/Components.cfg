SPECIFICATION MCSpec
CONSTANTS
  Records = {r1, r2}
  Names = {n1, n2, n3}
  MaxEntries = 5
  MaxGeneration = 4
  NoCatalog = NoCatalog
  NoView = NoView
  ScanLimit = 4
  PageRows = 2
  MaxLeases = 2
  IdleTtl = 1
  HardTtl = 2
  MaxNow = 3
  MaxSequence = 3
  NoCursor = NoCursor
  NoAnswer = NoAnswer
  NoTrace = NoTrace
  Runtimes = {1, 2}
  Versions = {1, 2}
  Extras = {1, 2}
  Originals <- MCOriginals
  MaxEdits = 2
  NoItem = NoItem
  Theirs = Theirs
  Malformed = Malformed
  NoFile = NoFile
  NoSnapshot = NoSnapshot
  NoOp = NoOp
  NoVersion = NoVersion
  Executables = {e1, e2}
  Ports = {1, 2}
  MaxGenerations = 1
  OwnsNotify = TRUE
  Upgrades = TRUE
  RollbackFaults = FALSE
  Legacy = Legacy
  NoPlist = NoPlist
  Foreign = Foreign
  PriorServices <- MCPriorServices
  NoTxn = NoTxn
  NoSettings = NoSettings
  NoJournal = NoJournal
  NoConfig = NoConfig
  NoCall = NoCall
  Traces <- MCTraces
  Spans <- MCSpans
  Fields <- MCFields
  Values <- MCValues
  Observations <- MCObservations
  MaxBatch = 3
  NoSpan = NoSpan
  NoTime = NoTime
  NoValue = NoValue
  NoState = NoState
INVARIANTS
  TypeOK
  CatalogIsReadable
  DirectoryBounded
  PagesTileTheView
  UserValuesSurvive
  ReleasedIsRestored
  OnlyEditsConflict
  PriorServiceReturns
  SettingsUsable
  CallsConverge
  OrderIndependent
PROPERTIES
  ImplementsPublishedView
