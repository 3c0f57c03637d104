SPECIFICATION Spec
CONSTANTS
  MaxOps = 1
  Inside = {"in", "out"}
  Outside = {"../x"}
  Present0 = {"in"}
  HostMax = {1, 2}
  Answers = {1, 2}
INVARIANT ExistsReplyHonest
CHECK_DEADLOCK FALSE
