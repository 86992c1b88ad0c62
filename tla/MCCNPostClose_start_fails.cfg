\* One trading day and one database error.
SPECIFICATION Spec
CONSTANTS
  MaxDay = 1
  MaxRows = 4
  MaxManual = 0
  MaxCrashes = 0
  MaxFaults = 1
INVARIANT StartNotAbandoned
CHECK_DEADLOCK FALSE
