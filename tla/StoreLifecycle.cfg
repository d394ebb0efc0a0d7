SPECIFICATION Spec
CONSTANTS
  Traces <- MCTraces
  Spans <- MCSpans
  Fields = {}
  Values = {}
  Streams = {"s1"}
  Observations <- LifecycleObservations
  Diagnostics = {}
  Paths = {}
  Cutoffs = {}
  Renderers = {}
  HotAge = 1
  WarmAge = 2
  DeleteAge = 3
  MaxDispositions = 3
  MaxGuards = 2
  MaxReceipts = 1
  MaxArchiveRecords = 2
  MaxCursor = 3
  MaxNow = 5
  MaxGeneration = 6
  NoSpan = NoSpan
  NoTime = NoTime
  NoValue = NoValue
  NoState = NoState
  NoRow = NoRow
  NoFile = NoFile
  NoPlan = NoPlan
  NoPass = NoPass
INVARIANTS
  TypeOK
  OneTier
  CleanProjectionIsCurrent
PROPERTIES
  SpanHistoryMonotone
  VisibilityLossAdvancesEpoch
