\* One publisher: a readiness notice and a full report of the same day.
SPECIFICATION Spec
CONSTANTS
  hF = hF
  hW = hW
  cF = cF
  cW = cW
  d1 = d1
  d2 = d2
  d3 = d3
  None = None
  Key = {hF, hW, cF, cW}
  Decision = {d1, d2, d3}
  Plan <- MCPlan
  DecisionOf <- MCDecisionOf
  Steps <- MCSteps
  Publisher = {p1}
  MaxRuns = 2
  MaxFaults = 0
INVARIANT SentKeySkipped
CHECK_DEADLOCK FALSE
