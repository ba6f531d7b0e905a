SPECIFICATION Spec
CONSTANTS
  Handlers = {h1, h2}
  Users = {u1, u2}
  Texts = {t1, t2}
  Nobody = Nobody
  ScanLimit = 3
  MaxMessages = 3
  MaxUpsets = 2
SYMMETRY Symmetry
INVARIANTS
  TypeOK RoundJoinedOnce SuppressedWasJoined CausalOrder
CHECK_DEADLOCK FALSE
