SPECIFICATION Spec
CONSTANTS
  Jobs <- FastTitles
  Reorder = 1
  None <- NoTime
  Forever = 1000
INVARIANTS OneClock
CHECK_DEADLOCK FALSE
