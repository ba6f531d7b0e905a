SPECIFICATION Spec
CONSTANTS
  Handlers = {h1}
  Users = {u1, u2}
  Texts = {t1}
  Nobody = Nobody
  ScanLimit = 8
  MaxMessages = 4
  MaxUpsets = 1
SYMMETRY Symmetry
INVARIANTS
  NewRoundIsNotSuppressed
CHECK_DEADLOCK FALSE
