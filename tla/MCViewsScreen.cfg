CONSTANTS
  ViewMax = 2
  Ring = 4
  Rows = 3
  MaxWrap = 2
  Row = {r1, r2}
  Blank = Blank
  Name = {"#a", "bob"}
  Channel = {"#a"}
  Cut <- Identity
  Fold <- FoldCase
  StatusName = "status"
SPECIFICATION Spec
INVARIANTS LiveIsRedraw ChannelScrollWithinLog StarredIffMissed
SYMMETRY Symmetry
