\* A heartbeat that read the row before the job completed and writes it after.
SPECIFICATION Spec
CONSTANTS
  j1 = j1
  j2 = j2
  j3 = j3
  r1 = r1
  r2 = r2
  NoJob = NoJob
  Job = {j1}
  Claimer = {r1}
  Canceller = {}
  Type <- MCType
  Conflicts <- MCConflicts
  StageType = {}
  TailType = {}
  TimedType = {"core"}
  CheckpointType = {"core"}
  BeatingType = {"core", "train"}
  MaxCrashes = 0
  MaxFaults = 0
INVARIANTS ResultKept
CHECK_DEADLOCK FALSE
