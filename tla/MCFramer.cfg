SPECIFICATION Spec
CONSTANTS
  MaxByte     = 3
  HEADER_LEN  = 3
  CRC16_LEN   = 1
  MAX_PAYLOAD = 1
  N           = 8
  MaxCount    = 2
  MaxSegment  = 10
INVARIANTS
  TypeOK
  InStep
PROPERTIES
  ValidFrameDelivered
  CompleteIsFaithful
  ImplementsFramerSpec
