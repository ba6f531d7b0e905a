CONSTANTS
  Workers = {w1, w2}
  MaxWaitRounds = 2
  MaxMessages = 0
  MaxSwitches = 3
  MaxRepeats = 2
  MaxDue = 1
SPECIFICATION Spec
SYMMETRY WorkerSymmetry
INVARIANTS
  ClearedQuestionHasNoTimer
CHECK_DEADLOCK FALSE
