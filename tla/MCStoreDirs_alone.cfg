SPECIFICATION FairSpec
CONSTANTS
  p1 = p1   p2 = p2   p3 = p3
  Proc = {p1}   NoProc = NoProc   NoPlace = NoPlace
  MaxRow = 4
  Start = {"none", "base", "latest", "bare", "mixed"}
  Jobs = {"index", "text", "search"}
  Faults = {"crash", "error"}
INVARIANT RowsVisible
PROPERTY LegacyLeaves
