SPECIFICATION Spec
CONSTANTS
  Spans <- SomeSpans
  MaxWalks = 1
INVARIANTS
  IInv
  KeepsToItsTlv
  AcceptsParameters
PROPERTIES
  NoMixture
  Terminates
CHECK_DEADLOCK FALSE
