SPECIFICATION Spec
CONSTANTS
  p1 = p1
  p2 = p2
  p3 = p3
  Proc = {p1, p2, p3}
  NoProc = NoProc
  NoPlace = NoPlace
  MaxRow = 2
  Start = {"latest", "mixed", "base"}
  Jobs = {"index", "search", "cleanup"}
  Faults = {"error"}
SYMMETRY Symmetry
INVARIANT OneMigrator
