SPECIFICATION FairSpec
CONSTANTS
  MaxSteps = 3
  MaxAttempts = 3
INVARIANTS
  TypeOK
  StreamFollowsTrace
  CallsAnswered
  OneLateCall
  DeltasSeparated
PROPERTIES
  Terminates
CHECK_DEADLOCK FALSE
