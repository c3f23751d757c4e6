SPECIFICATION DecoderSpec
CONSTANTS
  max_segment_bytes = 4
  Sizes        = {2, 3}
  Indices      = {1, 2, 3}
  NoFile       = NoFile
  MaxWrites    = 4
  MaxRuns      = 2
  Args        <- CommandLines
  since        = 0
  min_severity = 1
  packet_types = {1, 2}
  TypeOf      <- TypesGiven
  SeverityOf  <- SeveritiesGiven
  base         = 10
  name_width   = 5
CHECK_DEADLOCK FALSE
INVARIANTS
  StatisticsAgree
  ShownInOrder
  ViewComplete
