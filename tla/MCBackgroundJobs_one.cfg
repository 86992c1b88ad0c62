\* One job from claim to clear under fairness, with every thread that touches
\* its row, a database error and a crash.
SPECIFICATION FairSpec
CONSTANTS
  j1 = j1
  j2 = j2
  j3 = j3
  r1 = r1
  r2 = r2
  NoJob = NoJob
  Job = {j1}
  Claimer = {r1}
  Canceller = {r2}
  Type <- MCOneType
  Conflicts <- MCOneConflicts
  StageType = {}
  TailType = {}
  TimedType = {"core"}
  CheckpointType = {"core"}
  BeatingType = {"core"}
  MaxCrashes = 1
  MaxFaults = 1
INVARIANTS TypeOK CancelHonoured CancelledOnRequest AttemptAgrees
PROPERTIES EndedOnlyFails StopTakesEffect HeartbeatEnds
CHECK_DEADLOCK FALSE
