SPECIFICATION DeliverySpec
CONSTANTS
  Fields = {}
  Sources = {}
  MaxCalls = 1
  Parameters <- SomeParameters
  Finishes <- SomeFinishes
  SpanModulus = 65536
  Capacity = 265
  MaxParameters = 3
INVARIANTS
  DeliveryTypeOK
  WalkDeliversAll
PROPERTIES
  ServiceSpec
CHECK_DEADLOCK FALSE
