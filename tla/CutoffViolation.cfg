SPECIFICATION Spec
CONSTANTS
  Traces <- MCTraces
  Spans <- MCSpans
  Fields = {}
  Values = {}
  Streams = {"s1"}
  Observations <- LateObservations
  Diagnostics = {}
  Paths = {"p1"}
  Cutoffs = {2}
  Renderers = {}
  HotAge = 1
  WarmAge = 2
  DeleteAge = 3
  MaxDispositions = 3
  MaxGuards = 3
  MaxReceipts = 1
  MaxArchiveRecords = 2
  MaxCursor = 2
  MaxNow = 3
  MaxGeneration = 8
  NoSpan = NoSpan
  NoTime = NoTime
  NoValue = NoValue
  NoState = NoState
  NoRow = NoRow
  NoFile = NoFile
  NoPlan = NoPlan
  NoPass = NoPass
INVARIANTS
  RetentionKeepsRecent
