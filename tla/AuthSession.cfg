SPECIFICATION Spec
CONSTANTS
  Requests = {r1, r2}
  Passphrases = {p1, p2}
  Nobody = Nobody
  Configured = {0, 1}
  MaxPairs = 3
  MaxRotations = 1
  MaxCrashes = 1
SYMMETRY RequestSymmetry
INVARIANTS
  TypeOK TokensProvePassphrase OneSessionPerLogin MemoryMatchesRow
PROPERTY VersionNeverFalls
CHECK_DEADLOCK FALSE
