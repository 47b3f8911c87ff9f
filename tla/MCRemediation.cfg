\* One alert that opens twice, two operators, one window and one restart.
SPECIFICATION FairSpec
CONSTANTS
  Fingerprints = {f1}
  Operators = {o1, o2}
  MaxAttempts = 2
  MaxEpisodes = 2
  MaxRestarts = 1
  MaxWindows = 1
INVARIANTS
  AttemptsBounded
PROPERTIES
  DenialHolds
  CleanSlate
  KeepsTrying
CHECK_DEADLOCK FALSE
