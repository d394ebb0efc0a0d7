SPECIFICATION Spec
CONSTANTS
  Traces <- MCTraces
  Spans <- MCSpans
  Fields = {}
  Values = {}
  Streams = {"s1"}
  Observations <- ReuseObservations
  Diagnostics = {}
  Paths = {}
  Cutoffs = {}
  Renderers = {"r"}
  HotAge = 1
  WarmAge = 2
  DeleteAge = 3
  MaxDispositions = 2
  MaxGuards = 0
  MaxReceipts = 1
  MaxArchiveRecords = 2
  MaxCursor = 3
  MaxNow = 3
  MaxGeneration = 7
  NoSpan = NoSpan
  NoTime = NoTime
  NoValue = NoValue
  NoState = NoState
  NoRow = NoRow
  NoFile = NoFile
  NoPlan = NoPlan
  NoPass = NoPass
INVARIANTS
  IndexAgrees
  CurrentGenerationIsCurrentContent
