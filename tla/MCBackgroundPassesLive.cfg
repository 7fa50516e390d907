SPECIFICATION FairSpec
CONSTANTS
  Coord = {c1, c2}
  Lane = {l1}
  Doc = {1, 2}
  Bracket <- MCBracket
  Poison = {2}
  Budgets = {0}
  Reversible = {TRUE}
  MaxPasses = 2
  None = None
  MaxPlans = 5
  MaxFaults = 1
  MaxWrites = 1
  MaxControls = 0
INVARIANT CompletedClean
PROPERTY EndsClean
CHECK_DEADLOCK FALSE
