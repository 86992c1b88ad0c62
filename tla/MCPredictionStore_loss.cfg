SPECIFICATION Spec
CONSTANTS
  Runs <- MCRuns
  Kinds = {"import"}
  Settings <- MCImport
  Streaming = {FALSE}
  KeepHistory = 1
  KeepLive = 1
  MaxFaults = 0
  MaxCrashes = 0
  MaxCutovers = 1
  MaxArchives = 1
  MaxRetentions = 1
  MaxAgain = 0
INVARIANTS
  HistoryKept
CHECK_DEADLOCK FALSE
