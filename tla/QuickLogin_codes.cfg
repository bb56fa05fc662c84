SPECIFICATION Spec
CONSTANTS
  Procs = {p1, p2, p3}
  TTL = 1
  MaxCode = 2
  MaxTime = 3
SYMMETRY Symmetry
INVARIANTS NoLateLogin NotWasted
PROPERTY OneTime
CHECK_DEADLOCK FALSE
