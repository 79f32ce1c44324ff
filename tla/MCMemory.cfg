SPECIFICATION FairSpec
CONSTANTS
  a = a   b = b   c = c   w1 = w1   w2 = w2   s1 = s1
  NoRow = NoRow   NoText = NoText   NoSkill = NoSkill   NoCache = NoCache
  Text = {a, b, c}   Near <- Chain
  Writer = {w1, w2}
  Skill = {s1}   File <- Files   MaxParts = 2   Summary <- Summaries
  SemanticCap = 2   MaxCalls = 2
  Faults = {"write", "import"}
INVARIANT OneMemoryPerText
PROPERTY RememberedKept
PROPERTY SkillsConverge
