CONSTANTS
  ViewMax = 4
  Ring = 3
  Rows = 3
  MaxWrap = 1
  Row = {r1}
  Blank = Blank
  Name = {"#a", "#A", "#b", "bob", "eve"}
  Channel = {"#a", "#A", "#b"}
  Cut <- Identity
  Fold <- FoldCase
  StatusName = "status"
SPECIFICATION Spec
INVARIANTS TypeOK KeysAreTheOpenViews ShowingIsOpen OneViewPerName
VIEW OpenViews
