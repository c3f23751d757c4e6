SPECIFICATION SystemSpec
CONSTANTS
  SeqMod          = 3
  None            = None
  RawTypes        = {1}
  KnownTypes      = {1, 2}
  RawSeverities   = {0, 9}
  KnownSeverities = {0, 1}
  Versions        = {1}
  MinSeverity     = 0
  Allowlist      <- Allowed
  QUEUE_DEPTH     = 2
  CounterMax      = 100
  MaxFrames       = 4
  MaxFailures     = 1
  MaxChunk        = 3
  max_segment_bytes = 4
  Sizes           = {2}
  Indices         = {1, 2, 3, 4}
  NoFile          = NoFile
  MaxWrites       = 4
  MaxRuns         = 1
  Sources         = {"stream", "udp"}
  Empty           = Empty
  TimestampMax    = 1
  MaxElapsed      = 2
  MaxMishaps      = 1
CHECK_DEADLOCK FALSE
INVARIANTS
  LogInOrder
  LogMatchesStats
  GapsExplained
  CompleteAtExit
PROPERTIES
  EndsWithStream
