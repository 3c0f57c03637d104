SPECIFICATION Spec
CONSTANTS
  Jobs <- AllJobs
  Reorder = 1
  None <- NoTime
  Forever = 1000
INVARIANTS TypeOK CopyCutRight LanesAligned SpansClipped
CHECK_DEADLOCK FALSE
