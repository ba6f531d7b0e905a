SPECIFICATION Spec
CONSTANTS
  Handlers = {h1, h2}
  Users = {u1, u2}
  Texts = {t1}
  Nobody = Nobody
  ScanLimit = 2
  MaxMessages = 4
  MaxUpsets = 0
SYMMETRY Symmetry
INVARIANTS
  SingleRoundOnlyOnce
CHECK_DEADLOCK FALSE
