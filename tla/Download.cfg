SPECIFICATION Spec
CONSTANTS
  Size = 3
  Frame = 2
  MaxWait = 3
  MaxDownloads = 2
  MaxFaults = 2
INVARIANTS EveryByteOnce StoredSurvives BackoffAsCommented
PROPERTIES DownloadEnds
CHECK_DEADLOCK FALSE
