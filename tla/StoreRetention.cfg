SPECIFICATION Spec
CONSTANTS
  Traces <- MCTraces
  Spans <- MCSpans
  Fields = {}
  Values = {}
  Streams = {"s1"}
  Observations <- RetentionObservations
  Diagnostics = {}
  Paths = {"p1", "p2"}
  Cutoffs = {2}
  Renderers = {}
  HotAge = 1
  WarmAge = 2
  DeleteAge = 3
  MaxDispositions = 1
  MaxGuards = 2
  MaxReceipts = 1
  MaxArchiveRecords = 2
  MaxCursor = 3
  MaxNow = 0
  MaxGeneration = 8
  NoSpan = NoSpan
  NoTime = NoTime
  NoValue = NoValue
  NoState = NoState
  NoRow = NoRow
  NoFile = NoFile
  NoPlan = NoPlan
  NoPass = NoPass
INVARIANTS
  ReceiptHasArchive
  BoundedLedgers
  RetentionKeepsRecent
PROPERTIES
  SpanHistoryMonotone
