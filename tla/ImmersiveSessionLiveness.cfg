CONSTANTS
  Workers = {w1, w2}
  MaxWaitRounds = 2
  MaxMessages = 2
  MaxSwitches = 2
  MaxRepeats = 0
  MaxDue = 1
SPECIFICATION FairSpec
PROPERTIES
  ImplementsMailbox
  EveryMessageSettles
  SessionReleased
CHECK_DEADLOCK FALSE
