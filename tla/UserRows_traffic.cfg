SPECIFICATION Spec
CONSTANTS
  Procs = {p1}
  Handlers = {"profile"}
  Amounts = {1}
  MaxVersion = 2
INVARIANT TrafficAddsUp
SYMMETRY Symmetry
CHECK_DEADLOCK FALSE
