SPECIFICATION NodesSpec
CONSTANTS
  Requests = {q1, q2}
  Nodes = {n1, n2}
  Hidden = {n2}
  Miss = miss
  CacheFails = TRUE
  MaxUsed = 1
  MaxEdits = 1
  MaxBeats = 1
INVARIANTS NodesTypeOK PushIsTold
PROPERTY EditsStick
CHECK_DEADLOCK FALSE
