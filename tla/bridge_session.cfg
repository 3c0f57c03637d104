SPECIFICATION FairSpec
CONSTANTS
  MaxCalls = 3
  MaxSize = 2
  Offsets <- SmallOffsets
  InitialFiles <- TwoByteFile
  HostSettings <- EachFault
  Deadlines = {0, 1}
  Wrap = 16
INVARIANTS TypeOK InStep PictureExact CloseMeansWritten ReadsAreTrue
PROPERTIES FailureIsFinal KeepsPromise CallsReturn SessionEnds
CHECK_DEADLOCK FALSE
