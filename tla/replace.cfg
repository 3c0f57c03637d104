SPECIFICATION Spec
CONSTANTS
  Size = 2
  Rounds = 3
  Attempts = 2
INVARIANT TypeOK
INVARIANT ReaderSeesWhole
CHECK_DEADLOCK FALSE
