\* Reports sent, repeated, renumbered and revised by two publishers, with one fault.
SPECIFICATION FairSpec
CONSTANTS
  hF = hF
  hW = hW
  cF = cF
  cW = cW
  d1 = d1
  d2 = d2
  d3 = d3
  None = None
  Key = {hF, hW, cF, cW}
  Decision = {d1, d2, d3}
  Plan <- MCPlan
  DecisionOf <- MCDecisionOf
  Steps <- MCSteps
  Publisher = {p1, p2}
  MaxRuns = 3
  MaxFaults = 1
INVARIANTS TypeOK CalledAtMostOnce StatusTellsCalls ForkOnlyByOverlap
PROPERTIES DeliversOnce EventuallyDispatched
CHECK_DEADLOCK FALSE
