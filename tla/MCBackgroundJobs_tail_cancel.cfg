\* A job created by a tail thread, which never consults the control entry.
SPECIFICATION Spec
CONSTANTS
  j1 = j1
  j2 = j2
  j3 = j3
  r1 = r1
  r2 = r2
  NoJob = NoJob
  Job = {j1}
  Claimer = {}
  Canceller = {r2}
  Type <- MCType
  Conflicts <- MCConflicts
  StageType = {}
  TailType = {"core"}
  TimedType = {"core"}
  CheckpointType = {"core"}
  BeatingType = {"core", "train"}
  MaxCrashes = 0
  MaxFaults = 0
INVARIANTS CancelStopsEveryJob
CHECK_DEADLOCK FALSE
