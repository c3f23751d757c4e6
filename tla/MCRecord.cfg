SPECIFICATION Spec
CONSTANTS
  MaxByte     = 15
  MAX_PAYLOAD = 9
  MAX_STORED_RECORD_BYTES = 26
  CRC_LEN     = 4
  CrcModulus  = 65521
  MaxU64      = 511
  MaxU32      = 63
  Records    <- MCRecords
  MaxPieces   = 2
  Flips       = {0, 1, 9}
  MaxDamage   = 1
CHECK_DEADLOCK FALSE
INVARIANTS
  RoundTrip
  BytesMatchPieces
  DamageContained
