SPECIFICATION FairSpec
CONSTANTS
  c1 = c1
  NONE = NONE
  BADNONCE = BADNONCE
  Threads = {t1}
  Clients = {c1}
  ClientOf <- OneClient
  Keys = {k1, k2}
  Nonces = {n1, n2}
  NumPcrs = 3
  MaxBoots = 2
INVARIANTS TypeOK EvidenceBound CollectedInOrder PostureClaims
PROPERTY CollectReturns
