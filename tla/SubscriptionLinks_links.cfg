SPECIFICATION Spec
CONSTANTS
  Procs = {p1, p2}
  Boot = boot
  Blank = blank
  Plain = plain
  TypedSuffixes = {}
  CustomSuffixes <- MCCustom
  Canon <- MCCanon
  MaxUser = 2
  MaxLink = 2
  MaxDraw = 3
INVARIANTS AtMostOnePrimary ResetRevokes ResetPreserves
PROPERTIES PrimaryLostOnlyByUpdate StartupRepairs
SYMMETRY Symmetry
