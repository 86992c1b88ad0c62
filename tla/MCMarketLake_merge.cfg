\* Two threads, a script and a reader on one date; a failed file operation
\* and a death of a process.
SPECIFICATION FairSpec
CONSTANTS
  t1 = t1
  t2 = t2
  x1 = x1
  r1 = r1
  s1 = s1
  s2 = s2
  NoOne = NoOne
  Thread = {t1, t2}
  Script = {x1}
  Reader = {r1}
  Symbol = {s1, s2}
  Date = {1}
  MaxBatches = 2
  MaxFaults = 1
  MaxCrashes = 1
INVARIANTS TypeOK MergesAtomic PartitionReadable DivergenceExplained ListingFresh
PROPERTY WritesReturn
CHECK_DEADLOCK FALSE
