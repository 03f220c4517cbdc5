CONSTANTS
  Clients = {k1}
  MaxMsgs = 2
  Previewers = {p1}
  MaxPreviews = 1
  MaxResets = 1
  MaxFileSize = 2
  WriteMode = "append"
  TargetType = "all"
  OpenMayFail = FALSE
  LockMayFail = FALSE
SPECIFICATION FairSpec
PROPERTIES
  RowsComeOut
  ControllerIsObeyed
  PreviewsSeeAStableFile
