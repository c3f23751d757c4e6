SPECIFICATION Spec
CONSTANTS
  max_segment_bytes = 5
  Sizes     = {2, 3}
  Indices   = {1, 2, 3}
  NoFile    = NoFile
  MaxWrites = 4
  MaxRuns   = 2
CHECK_DEADLOCK FALSE
PROPERTIES
  CompleteRecordsSurvive
