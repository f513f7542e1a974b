SPECIFICATION Spec
CONSTANTS
  Fields <- SomeFields
  MaxRequests = 2
  Sources <- SomeNaks
  MaxCalls = 2
INVARIANTS
  IInv
  NothingDropped
  AcceptsNak
  ListOfOneNak
  RoundTrip
CHECK_DEADLOCK FALSE
