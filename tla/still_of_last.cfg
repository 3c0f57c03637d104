SPECIFICATION Spec
CONSTANTS
  Jobs <- TailJobs
  Lag = 1
  FRAMES_MAX_TARGETS = 5
  MaxFaults = 0
INVARIANTS EveryTargetAnswered
CHECK_DEADLOCK FALSE
