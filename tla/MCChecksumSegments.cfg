SPECIFICATION SegmentsSpec
CONSTANTS
  Radix = 16
  Files <- SomeFiles
  Types <- SomeTypes
INVARIANTS
  RunningIsWordSum
  EofChecksumDecides
CHECK_DEADLOCK FALSE
