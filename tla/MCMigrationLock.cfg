SPECIFICATION Spec
CONSTANTS
  Run = {r1, r2}
  Nonce = {n1, n2, n3, n4}
  SharedOwner = owner
  OwnerOf <- MCOwnerOf
  NoNonce = NoNonce
  NoDoc = NoDoc
  Ttl = 6
  MarginCap = 5
  Latency = 1
  Operators = TRUE
SYMMETRY MCSymmetry
INVARIANTS TypeOK HolderExclusive DeadlineBeatsReclaim HealthyKeepsLock
PROPERTIES FreshLockUntouched ImplementsLease
