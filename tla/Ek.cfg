SPECIFICATION Spec
CONSTANTS
  e1 = e1  e2 = e2
  EKPUB = EKPUB  JUNK = JUNK  CUT = CUT  NONE = NONE
  BodySize = 3
  EkCerts = {e1, e2}
  CaCerts = {a, b, c}
  MaxStore = 2
  MAX_INTERMEDIATES = 2
  Stores <- AnyStores
SYMMETRY CaSymmetry
INVARIANTS TypeOK ChainMerged CachedIdResolves FetchedIsServed
