SPECIFICATION FairSpec
CONSTANTS
  NumIndices = 3
  MaxCapacity = 7
  CertSizes <- ThreeCerts
  CHUNK = 3
  NvBufferMax = 3
  MAX_CERTIFICATES = 2
  Excess = 1
  WordSize = 9
  Faults = TRUE
CHECK_DEADLOCK FALSE
INVARIANTS TypeOK NvReadExact CutsGenuineChain WholeChain
PROPERTY OdcaTerminates
