SPECIFICATION FairSpec
CONSTANTS
  MaxOps = 2
  Inside = {"in", "out"}
  Outside = {"../x"}
  Present0 = {"in"}
  HostMax = {1, 2}
  Answers = {1, 2}
INVARIANTS TypeOK EndsInStep NeverProtests SuccessIsReal DialsAreCheap
PROPERTIES EverythingEnds
CHECK_DEADLOCK FALSE
