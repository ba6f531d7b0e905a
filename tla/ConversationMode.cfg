CONSTANTS
  Far = 300
  WaitRounds = 2
  Mixes <- Scenarios
SPECIFICATION Spec
INVARIANTS
  TypeOK
  DeadlineKept
  GateOpensInConversation
PROPERTIES
  FollowupUnanswered
CHECK_DEADLOCK FALSE
