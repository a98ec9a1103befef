SPECIFICATION Spec
CONSTANTS
  HEADER_BYTES = 32
  MAX_EFI_VARIABLE_NAME_CHARS = 1024
  SizeMod = 1000000
  MaxChanges = 0
  Logs <- UnreadLogs
  OsRecords <- Later
  PLATFORM_OWNER_NAMES <- Owners
  FIRMWARE_VENDOR_NAMES <- Vendors
  UNTRUSTED_PK_MARKERS <- Markers
INVARIANT ZeroMeansExamined
CHECK_DEADLOCK FALSE
