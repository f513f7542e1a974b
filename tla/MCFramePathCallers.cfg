SPECIFICATION Spec
CONSTANTS
  Requests <- CallerRequests
  Counted = {0, 2}
  LengthModulus = 9
  Capacity = 16
  PayloadCap = 12
  Noise = {62}
  Strays <- StrayOctets
  MaxEmits = 1
  MaxFrames = 1
  MaxFaults = 1
  MaxArrivals = 1
INVARIANTS
  TypeOK
  SelfDescribing
  IntactDelivered
  VerifiedFits
CHECK_DEADLOCK FALSE
