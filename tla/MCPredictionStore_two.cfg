SPECIFICATION Spec
CONSTANTS
  Runs <- MCRuns
  Kinds = {"train", "kronos", "import"}
  Settings <- MCSettings
  Streaming = {TRUE, FALSE}
  KeepHistory = 1
  KeepLive = 1
  MaxFaults = 1
  MaxCrashes = 1
  MaxCutovers = 1
  MaxArchives = 1
  MaxRetentions = 1
  MaxAgain = 1
INVARIANTS
  TypeOK
  MirroredHistoryKept
  LiveUntilReplaced
  FolderRegistered
PROPERTIES
  MirrorFrozen
  SuccessStays
CHECK_DEADLOCK FALSE
