SPECIFICATION HostSpec
CONSTANTS
  SeqMod          = 2
  None            = None
  RawTypes        = {1}
  KnownTypes      = {1}
  RawSeverities   = {0, 1, 9}
  KnownSeverities = {0, 1}
  Versions        = {1}
  MinSeverity     = 1
  Allowlist       = None
  QUEUE_DEPTH     = 2
  CounterMax      = 100
  MaxFrames       = 5
  MaxFailures     = 2
  MaxChunk        = 3
INVARIANTS
  HostTypeOK
  CleanRunIsComplete
  ExitAccounting
  NoDropWithoutCause
PROPERTIES
  BurstDrained
