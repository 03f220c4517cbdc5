CONSTANTS
  Clients = {k1}
  MaxMsgs = 0
  Previewers = {p1}
  MaxPreviews = 0
  MaxResets = 0
  MaxFileSize = 1
  WriteMode = "append"
  TargetType = "all"
  OpenMayFail = TRUE
  LockMayFail = TRUE
SPECIFICATION FairSpec
PROPERTY
  ShutdownStopsTheService
