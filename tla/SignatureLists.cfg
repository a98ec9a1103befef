SPECIFICATION FairSpec
CONSTANTS
  NONE = NONE
  HEADER_BYTES = 3
  MAX_EFI_VARIABLE_NAME_CHARS = 2
  SizeMod = 64
  WordMod = 16
  LIST_HEADER = 2
  OWNER = 1
  CERT_LIMIT = 4
  RawSizes = {2, 8, 13, 14}
  LongWords <- SmallLongWords
  Words <- SmallWords
INVARIANTS TypeOK CountIsWalk
PROPERTIES CertInsideList CertsInOrder WalkTerminates
CHECK_DEADLOCK FALSE
