CONSTANTS
  Workers = {w1, w2}
  MaxWaitRounds = 2
  MaxMessages = 2
  MaxSwitches = 3
  MaxRepeats = 0
  MaxDue = 1
SPECIFICATION Spec
SYMMETRY WorkerSymmetry
INVARIANTS
  ClearIsFinal
CHECK_DEADLOCK FALSE
