\* Two readers of a nested fragment against two writers that commit and clear.
SPECIFICATION FairSpec
CONSTANTS
  items = items
  analysis = analysis
  None = None
  Items = {items}
  Analysis = {analysis}
  Table = {}
  Needs <- MCNeeds
  Thread = {t1, t2}
  Writer = {w1, w2}
  MaxEntries = 1
  MaxCalls = 3
  MaxLapses = 1
INVARIANTS TypeOK Bounded OneLoader ClearedIsFresh
PROPERTIES CallsEnd
CHECK_DEADLOCK FALSE
