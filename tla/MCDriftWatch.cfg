SPECIFICATION Spec
CONSTANTS
  Doc = {d1}
  old = old
  new = new
  Client = {old, new}
  Release <- MCRelease
  Oldest = 1
  Keeps <- MCKeeps
  Top = 3
  MaxWrites = 2
  Watcher = {w1, w2}
  Nobody = Nobody
  Begins <- MCBegins
  Settings <- MCSettings
  MaxLog = 3
  MaxTrouble = 1
SYMMETRY MCSymmetry
INVARIANT DriftServed
PROPERTY NoLostUpdate
CHECK_DEADLOCK FALSE
