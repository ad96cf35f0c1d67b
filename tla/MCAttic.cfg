CONSTANTS
  Ring = 2
  CountMod = 4
  Rows = 2
  Row = {r1, r2}
  Blank = Blank
  Noise = Noise
  HIST_MAX = 2
  HistMod = 4
  Line = {l1, l2}
  IGNORE_MAX = 2
  Nick = {"bob", "BOB", "bobby", "eve"}
  folded <- LowerCase
  stored <- FirstBytes
  None = None
SYMMETRY Alike
SPECIFICATION Spec
INVARIANTS AtticOK IgnoredAreSilent
PROPERTIES KeepsTheNewestRows RecallsTheLines
