SPECIFICATION Spec
CONSTANTS
  Jobs <- EarlyJobs
  Lag = 1
  Margin = 1
  MaxFaults = 0
  MaxReads = 8
INVARIANTS LanesWhole
CHECK_DEADLOCK FALSE
