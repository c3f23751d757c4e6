SPECIFICATION Spec
CONSTANTS
  SeqMod          = 3
  None            = None
  RawTypes        = {1, 2, 9}
  KnownTypes      = {1, 2}
  RawSeverities   = {0, 1, 9}
  KnownSeverities = {0, 1}
  Versions        = {1}
  MinSeverity     = 1
  Allowlist       = {2}
  QUEUE_DEPTH     = 2
  CounterMax      = 2
  MaxFrames       = 5
  MaxFailures     = 2
PROPERTIES
  CountersNeverFall
