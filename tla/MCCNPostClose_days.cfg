\* Two trading days with a manual refresh, a crash and two database errors.
SPECIFICATION FairSpec
CONSTANTS
  MaxDay = 2
  MaxRows = 7
  MaxManual = 1
  MaxCrashes = 1
  MaxFaults = 2
INVARIANTS TypeOK PipelineOncePerDay OnePipelineRow NoDayLost
PROPERTY FreshLakeRuns
CHECK_DEADLOCK FALSE
