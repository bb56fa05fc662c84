SPECIFICATION Spec
CONSTANTS
  Procs = {p1, p2}
  Formats = {clash}
  Plans = {1, 2}
  Miss = miss
  MaxSecret = 1
  MaxServers = 1
INVARIANTS TypeOK CarriesOwnAccess RotatedIsDead
