SPECIFICATION FairSpec
CONSTANTS
  Procs = {p1, p2}
  OldPath = oldpath
  NewPath = newpath
  OldTitle = oldtitle
  NewTitle = newtitle
  Paths = {oldpath, newpath}
  Titles = {oldtitle, newtitle}
  Initial <- MCInitial
  Miss = miss
  CacheFails = TRUE
  MaxSaves = 2
INVARIANTS TypeOK ServesSnapshots DecidesOnCurrentPath
PROPERTY EventuallyFresh
