SPECIFICATION HooksSpec
CONSTANTS
  w1 = w1   w2 = w2   s1 = s1   s2 = s2   k1 = k1   k2 = k2
  Writer = {w1, w2}   LogMax = 2   MaxLines = 5
  Session = {s1, s2}   Grace = 1   MaxNow = 2
  Caller = {w1, w2}   Client = {k1, k2}   NoClient = NoClient
  MaxConcurrent = 1   MaxRetries = 1   BatchSize = 2   MaxTexts = 3
  Locker = {w1, w2}   UseFlock = TRUE
INVARIANT HooksSound
INVARIANT CapKept
INVARIANT OneAtATimeExcludes
PROPERTY EveryCallEnds
PROPERTY FollowerMovesOn
PROPERTY AbandonedBufferLeaves
PROPERTY LockRecovers
CHECK_DEADLOCK FALSE
