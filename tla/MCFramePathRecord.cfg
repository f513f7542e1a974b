SPECIFICATION Spec
CONSTANTS
  Requests <- UnflaggedRequests
  Counted = {2}
  LengthModulus = 65536
  Capacity = 15
  PayloadCap = 12
  Noise <- NoiseOctets
  Strays = {}
  MaxEmits = 1
  MaxFrames = 1
  MaxFaults = 0
  MaxArrivals = 2
INVARIANTS
  DisagreementRejected
CHECK_DEADLOCK FALSE
