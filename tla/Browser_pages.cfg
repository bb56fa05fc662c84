SPECIFICATION Spec
CONSTANTS
  Users = {u1, u2}
  NoUser = nouser
  Unloaded <- MCUnloaded
  MaxClicks = 3
  MaxDrafts = 2
  MaxLogins = 2
  Paths <- MCPaths
  Reserved <- MCReserved
  Malformed <- MCMalformed
  MaxMoves = 2
INVARIANTS TypeOK PatientSeesTruth SpinnersHaveCause SavedOnce OwnDataOnly RedirectsEnd
SYMMETRY Symmetry
CHECK_DEADLOCK FALSE
