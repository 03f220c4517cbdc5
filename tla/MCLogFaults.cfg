CONSTANTS
  Clients = {k1}
  MaxMsgs = 1
  Previewers = {p1}
  MaxPreviews = 1
  MaxResets = 2
  MaxFileSize = 2
  WriteMode = "append"
  TargetType = "all"
  OpenMayFail = TRUE
  LockMayFail = TRUE
SPECIFICATION Spec
INVARIANTS
  LogInvariant
  SleepIsJustified
  RefreshClearsTheFile
