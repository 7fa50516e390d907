SPECIFICATION FairSpec
CONSTANTS
  Run = {r1}
  Nonce = {n1, n2, n3, n4}
  SharedOwner = owner
  OwnerOf <- MCOwnerOf
  NoNonce = NoNonce
  NoDoc = NoDoc
  Ttl = 3
  MarginCap = 5
  Latency = 1
  Operators = TRUE
PROPERTIES LossIsTold OrphanReclaimed
