SPECIFICATION LinkSpec
CONSTANTS
  MaxByte     = 15
  HEADER_LEN  = 3
  CRC16_LEN   = 1
  MAX_PAYLOAD = 1
  N           = 8
  MaxCount    = 1
  MaxSegment  = 16
  Modes       = {"bad-crc", "seq-gap", "burst"}
  burst_size  = 1
  count       = 3
  Payloads   <- OnePayload
  Skips       = {5}
  Flip       <- Xor10
  Sinks       = {"udp"}
  MaxWire     = 2
  None        = None
  MaxFaults   = 2
INVARIANTS
  FaultsBounded
  StoredTwiceTakesTwo
