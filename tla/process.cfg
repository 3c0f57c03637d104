SPECIFICATION FairSpec
CONSTANTS
  Jobs <- AllJobs
  Lag = 1
  Margin = 1
  MaxFaults = 1
  MaxReads = 8
INVARIANTS TypeOK LanesWhole SuccessIsHonest FinishedSinksDrained
PROPERTIES JobsEnd
CHECK_DEADLOCK FALSE
