SPECIFICATION FairSpec
CONSTANTS
  Exports = {backup, csv}
  Audit = {csv}
  None = None
  Downloads = {d1, d2}
  TTL = 4
  Lease = 2
  Late = 1
  UnlinkMayFail = TRUE
  MayCrash = TRUE
INVARIANTS
  ExportTypeOK
  OneDownload
  SingleUse
  RetryPossible
PROPERTIES
  FilesRemoved
CHECK_DEADLOCK FALSE
