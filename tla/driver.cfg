SPECIFICATION Spec
CONSTANTS
  MaxInputs = 2
  MaxGin = 2
  MaxGout = 2
  MaxOutputs = 2
  MaxCpy = 2
  MaxSub = 1
  Interval = 2
  Knows <- KnowsDef
  Watched = {"range"}
  Ceiling = 1
  Times <- TimesDef
  MaxPackets = 3
  Requests <- RequestsDef
  Environments <- EnvironmentsDef
  Vocabulary = 2
  MaxInt = 4
INVARIANT TypeOK
INVARIANT StreamsAsAsked
INVARIANT OptionsHonoured
INVARIANT RecordsSound
INVARIANT OutcomeHonest
INVARIANT SessionsClosed
INVARIANT ConfinementHonest
CHECK_DEADLOCK FALSE
