SPECIFICATION Spec
CONSTANTS
  Procs = {p1, p2}
  OldPath = oldpath
  NewPath = newpath
  OldTitle = oldtitle
  NewTitle = newtitle
  Paths = {oldpath, newpath}
  Titles = {oldtitle, newtitle}
  Initial <- MCInitial
  Miss = miss
  CacheFails = FALSE
  MaxSaves = 1
INVARIANT AdmitsCurrentPath
SYMMETRY Symmetry
