SPECIFICATION Spec
CONSTANTS
  Requests <- FaultRequests
  Counted = {0, 2}
  LengthModulus = 9
  Capacity = 16
  PayloadCap = 12
  Noise <- NoiseOctets
  Strays = {}
  MaxEmits = 2
  MaxFrames = 1
  MaxFaults = 1
  MaxArrivals = 2
INVARIANTS
  IntactDelivered
  DeliveredAsSent
PROPERTIES
  ServiceSpec
CHECK_DEADLOCK FALSE
