SPECIFICATION Spec
CONSTANTS
  NumIndices = 4
  MaxCapacity = 7
  CertSizes <- ThreeCerts
  CHUNK = 3
  NvBufferMax = 2
  MAX_CERTIFICATES = 3
  Excess = 0
  WordSize = 8
  Faults = FALSE
CHECK_DEADLOCK FALSE
INVARIANT OnlyPresentCertificates
