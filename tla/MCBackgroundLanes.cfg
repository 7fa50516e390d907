SPECIFICATION FairSpec
CONSTANTS
  Lane = {l1, l2}
  Part = {1, 2}
  Doc = {1, 2}
  Scope <- MCScope
  Poison = {2}
  Token = {t1, t2}
  Modes = {TRUE, FALSE}
  MaxParallel = 1
  BatchSize = 2
  MaxRetries = 1
  MaxSliceFailures = 2
  MaxDocErrors = 0
  NoToken = NoToken
  MaxWrites = 1
  MaxFaults = 1
INVARIANTS LanesApart NothingSkipped CountedOnce
PROPERTIES RewritesAtomic MovedForward WorkEnds LanesDrain
CHECK_DEADLOCK FALSE
