SPECIFICATION RecordsSpec
CONSTANTS
  x1 = x1   x2 = x2   y1 = y1   y2 = y2   r1 = r1
  Hook = {x1, x2}   Prompt = {r1}   NoPrompt = NoPrompt   Partial = Partial
  RowCap = 1   Ttl = 0   MaxWrites = 2   MaxTime = 1   MaxCut = 1
  Faults = {"unversioned", "search", "put", "kill", "clear"}
  RecallTurns = 2   TailCount = 2   FewMoments = 1   MaxLength = 4   HugeLines = FALSE
  Nameless = {"system"}   MaxEntries = 4   MaxSlips = 1
  BashCommand <- Bash   Setting = {"", "warn", "1", "off"}   Classifiers = {"none", "llm"}
  Root = {r1}   FullDay = 2   MaxHour = 3   MaxFires = 2
  Server = {y1}   Shell = {y2}   EnvCap = 3   CapMax = 2   MaxSaves = 2
  Outer = {"wrapper"}   SubOf <- Subs   BaseName <- Names   Reserved = {"__root__"}   Model = {"m1", "m2"}
  Command = {x1, x2}   MaxRegistrySaves = 2   MaxRuns = 2
  Prompter = {r1}   Threshold = 2   MaxPrompts = 5   MaxCalls = 2   MaxSecond = 3   NagFaults = {}
  Noter = {x1, x2}   NoteKey = {r1}   NoteWindow = 2   MaxTick = 4
  Ender = {x1, x2}   Starter = {y1, y2}   MaxAge = 1   MaxDay = 2   MaxReviews = 2
  Changer = {x1, x2}   UserCmd = {r1}   MaxChanges = 3   MaxEdits = 1
  Searcher = {x1, x2}   ChunkId = {"c1", "t1", "t2"}   SourceType <- Types   Likeness <- Likenesses
  TopK = 2   MaxContextTokens = 3   ActiveDays = 1   ArchiveDays = 2   MaxChunks = 1
  MaxToday = 4   MaxSearches = 2   MaxUpserts = 1
  Texts <- Files
  MaxChunkSize = 3
SYMMETRY Symmetry
INVARIANT FreshAnswer
INVARIANT CapOvershoot
INVARIANT RecordsTypeOK
INVARIANT SessionIsReadFairly
INVARIANT ChunksCover
INVARIANT VerdictsHold
INVARIANT RunsAreFoundAgain
PROPERTY OnlyStaleCopiesUndo
PROPERTY EntriesLeaveOnlyByOverlap
PROPERTY NagExactly
PROPERTY NoteOncePerWindow
PROPERTY ReviewShownOnce
PROPERTY ChangesUndoNothing
PROPERTY UsedIsKept
CHECK_DEADLOCK FALSE
