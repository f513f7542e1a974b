SPECIFICATION Spec
CONSTANTS
  Radix = 16
  SpanModulus = 65536
  File <- SomeFile
  Large = 1
  SegmentLen = 5
  BufLen = 64
  MaxLink = 2
  MaxArrivals = 4
INVARIANTS
  ReceivedFileVerifies
CHECK_DEADLOCK FALSE
