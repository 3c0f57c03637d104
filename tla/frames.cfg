SPECIFICATION Spec
CONSTANTS
  Jobs <- AllJobs
  Lag = 1
  FRAMES_MAX_TARGETS = 5
  MaxFaults = 1
INVARIANTS TypeOK StillsWhole SuccessIsHonest NamesDiffer
CHECK_DEADLOCK FALSE
