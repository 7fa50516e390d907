SPECIFICATION Spec
CONSTANTS
  p1 = p1
  p2 = p2
  NoPod = NoPod
  Free = Free
  Cli = Cli
  Gone = Gone
  Pod <- MCPod
  Bg <- MCNoBg
  Requires <- MCRequires
  NumFiles = 2
  Children = {TRUE}
  Slices = 1
  Slots = 1
  Concurrency = 1
  MaxStalls = 1
  MaxTries = 2
  MaxRetries = 0
  MaxRounds = 1
  MaxSpawns = 1
  MaxTrouble = 2
  OneAtATime = FALSE
  ConvergeAfter = TRUE
  MaxCalls = 2
SYMMETRY MCSymmetry
INVARIANTS PrefixApplied ConvergesLast
CHECK_DEADLOCK FALSE
