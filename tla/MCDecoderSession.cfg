SPECIFICATION Spec
CONSTANTS
  Fields <- SomeFields
  Sources <- SomeSources
  SpanModulus = 65536
  MaxCalls = 2
INVARIANTS
  TypeOK
  NothingStale
  Reencodes
  RoundTrip
PROPERTIES
  RefusedUntouched
CHECK_DEADLOCK FALSE
