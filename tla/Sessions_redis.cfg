SPECIFICATION Spec
CONSTANTS
  Procs = {p1, p2}
  Miss = miss
  CacheFails = TRUE
  Watched = {1, 2}
  MaxSession = 2
INVARIANTS TypeOK RevokedIsRefused RefusedOnlyIfRevoked
SYMMETRY Symmetry
