SPECIFICATION Spec
CONSTANTS
  Procs = {p1, p2}
  Handlers <- AllHandlers
  Amounts = {1, 2}
  MaxVersion = 4
INVARIANTS NeverOvercharged PasswordSticks LostOnlyByOverlap
SYMMETRY Symmetry
CHECK_DEADLOCK FALSE
