SPECIFICATION FairSpec
CONSTANTS
  p1 = p1
  p2 = p2
  NoPod = NoPod
  Free = Free
  Cli = Cli
  Gone = Gone
  Pod <- MCOnePod
  Bg <- MCBg
  Requires <- MCRequires
  NumFiles = 2
  Children = {TRUE, FALSE}
  Slices = 1
  Slots = 1
  Concurrency = 1
  MaxStalls = 1
  MaxTries = 2
  MaxRetries = 0
  MaxRounds = 6
  MaxSpawns = 3
  MaxTrouble = 1
  OneAtATime = TRUE
  ConvergeAfter = FALSE
  MaxCalls = 0
INVARIANTS TypeOK RoundsApart
PROPERTIES AllDone
CHECK_DEADLOCK FALSE
