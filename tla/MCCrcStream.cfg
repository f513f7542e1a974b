SPECIFICATION Spec
CONSTANTS
  RegBits = 16
  OctetBits = 8
  Polynomial <- Poly1021
  DataOctets <- Crc16Data
  OctetErrors <- Crc16Errors
  CrcErrors <- Crc16CrcErrors
  MaxOctets = 4
INVARIANTS
  IInv
  BurstDetected
  NeverRejoin
CHECK_DEADLOCK FALSE
