SPECIFICATION FairSpec
CONSTANTS
  f1 = f1
  f2 = f2
  i1 = i1
  i2 = i2
  a = a
  b = b
  c = c
  empty = empty
  NoFile = NoFile
  Gone = Gone
  NoHash = NoHash
  File = {f1, f2}
  Content = {a, b, c, empty}
  Chunk = {1, 2, 3}
  Layout <- Overlapping
  Indexer = {i1}
  MaxTime = 4
  Faults = {"embed", "upsert", "cancel", "crash"}
PROPERTIES SkippedIsIndexed ReadsOnlyChanged
PROPERTY QuietFileIsIndexed
