SPECIFICATION Spec
CONSTANTS
  Run = {"ops", "pod"}
  Waits = {"pod"}
  Order <- MCOrder
  Def <- MCDef
  Starts <- MCStarts
  Options <- MCOptions
  Backing <- MCBacking
  ReadsShardKeys = FALSE
  DbaIndex <- MCDbaIndex
  MaxFaults = 1
  MaxMeddle = 1
  Text = {"t", "u"}
  CanConvert = TRUE
  CanAddTtl = FALSE
  Unset = Unset
  Nobody = Nobody
PROPERTIES FixedPoint LossReported ReviewedOnly ReadyServes
CHECK_DEADLOCK FALSE
