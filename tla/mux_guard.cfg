SPECIFICATION GuardSpec
CONSTANTS
  MaxTs = 3
  Streams = {"video", "data"}
  Type <- TypeOf
  Formats <- AllFormats
  MaxPackets = 3
INVARIANTS GuardTypeOK DriftBounded
PROPERTY NeverRefused
CHECK_DEADLOCK FALSE
