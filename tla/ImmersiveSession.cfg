CONSTANTS
  Workers = {w1, w2}
  MaxWaitRounds = 2
  MaxMessages = 2
  MaxSwitches = 2
  MaxRepeats = 2
  MaxDue = 2
SPECIFICATION Spec
SYMMETRY WorkerSymmetry
INVARIANTS
  TypeOK
  SingleOwner
  NoStrandedBatch
  LoggedAtMostOnce
  DeferralBound
  AtMostOneLateReply
  FollowupTimerBacksQuestion
CHECK_DEADLOCK FALSE
