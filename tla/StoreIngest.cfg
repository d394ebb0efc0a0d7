SPECIFICATION Spec
CONSTANTS
  Traces <- MCTraces
  Spans <- MCSpans
  Fields = {}
  Values = {}
  Streams = {"s1", "s2"}
  Observations <- IngestObservations
  Diagnostics <- MCDiagnostics
  Paths = {}
  Cutoffs = {}
  Renderers = {}
  HotAge = 1
  WarmAge = 2
  DeleteAge = 3
  MaxDispositions = 2
  MaxGuards = 2
  MaxReceipts = 1
  MaxArchiveRecords = 2
  MaxCursor = 2
  MaxNow = 0
  MaxGeneration = 4
  NoSpan = NoSpan
  NoTime = NoTime
  NoValue = NoValue
  NoState = NoState
  NoRow = NoRow
  NoFile = NoFile
  NoPlan = NoPlan
  NoPass = NoPass
INVARIANTS
  LedgerExclusive
  TopologySound
PROPERTIES
  NoCursorSkipped
