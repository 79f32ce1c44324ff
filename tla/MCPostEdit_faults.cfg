SPECIFICATION FairSpec
CONSTANTS
  h1 = h1   h2 = h2   a1 = a1   f1 = f1   f2 = f2
  NoFile = NoFile   NoPid = NoPid   NoHook = NoHook
  Hook = {h1, h2}   Actor = {a1}   File = {f1}
  PendingCap = 1   DeadletterCap = 2
  Faults = {"index", "spawn", "crash", "disk", "reuse", "file"}
INVARIANT DecisionIsSound
PROPERTY EveryProcessEnds
PROPERTY PipelineNeverWedges
PROPERTY PoisonEntryLeaves
