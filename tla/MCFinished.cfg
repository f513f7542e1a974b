SPECIFICATION Spec
CONSTANTS
  Fields <- SomeFields
  Sources <- SomeSources
  SpanModulus = 65536
  MaxCalls = 2
INVARIANTS
  IInv
  SpanIsResponses
  FaultLocationIsLast
  AcceptsFinished
  RoundTrip
PROPERTIES
  Terminates
CHECK_DEADLOCK FALSE
