SPECIFICATION Spec
CONSTANTS
  Gib = 1024
  PlanNames = {own}
  Typed <- MCTyped
  MaxPlans = 4
  People = {root, demo, guest}
  Asked = {guest}
  Drawn = drawn
  NoPlan = noplan
  MaxUsers = 4
  MaxRequests = 2
  Root = root
  Demo = demo
  MaxStarts = 2
  MaxEdits = 1
INVARIANTS TypeOK DefaultsAccountedFor DrainedFirst OwnerSignsIn EditKeepsQuota
PROPERTY ShutdownEnds
CHECK_DEADLOCK FALSE
