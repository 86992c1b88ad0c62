\* Two jobs of conflicting types, claims racing a scheduler, tails, the sweep, a
\* database error and a crash.
SPECIFICATION Spec
CONSTANTS
  j1 = j1
  j2 = j2
  j3 = j3
  r1 = r1
  r2 = r2
  NoJob = NoJob
  Job = {j1, j2}
  Claimer = {r1, r2}
  Canceller = {}
  Type <- MCTwoType
  Conflicts <- MCTwoConflicts
  StageType = {"core"}
  TailType = {"core"}
  TimedType = {}
  CheckpointType = {}
  BeatingType = {}
  MaxCrashes = 1
  MaxFaults = 1
INVARIANTS ClaimExclusive RunnersOverlapOnlyAfterSweep
SYMMETRY MCSymmetry
CHECK_DEADLOCK FALSE
