SPECIFICATION Spec
CONSTANTS
  r1 = r1
  r2 = r2
  p1 = p1
  p2 = p2
  NoPath = NoPath
  NoRun = NoRun
  Run = {r1,r2}
  Path = {p1,p2}
  Cwd = p1
  MaxFiles = 1
  Buffer = 1
  Faults = {}
SYMMETRY Symmetry
PROPERTY RunDeliversResult
