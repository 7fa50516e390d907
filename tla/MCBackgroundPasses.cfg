SPECIFICATION Spec
CONSTANTS
  Coord = {c1}
  Lane = {l1}
  Doc = {1, 2}
  Bracket <- MCBracket
  Poison = {2}
  Budgets = {0}
  Reversible = {TRUE, FALSE}
  MaxPasses = 2
  None = None
  MaxPlans = 2
  MaxFaults = 1
  MaxWrites = 0
  MaxControls = 1
INVARIANTS TypeOK TotalsKept CompletedClean
PROPERTIES WithdrawnUnwritten
CHECK_DEADLOCK FALSE
