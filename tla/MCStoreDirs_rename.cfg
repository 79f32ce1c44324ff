SPECIFICATION Spec
CONSTANTS
  p1 = p1
  p2 = p2
  p3 = p3
  Proc = {p1, p2}
  NoProc = NoProc
  NoPlace = NoPlace
  MaxRow = 3
  Start = {"none", "latest", "mixed"}
  Jobs = {"index", "text", "actor", "search"}
  Faults = {"crash", "slow", "error"}
SYMMETRY Symmetry
INVARIANT RowsKept
