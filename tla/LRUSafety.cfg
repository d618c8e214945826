SPECIFICATION Spec
CONSTANTS
  k1 = k1
  k2 = k2
  k3 = k3
  f1 = f1
  f2 = f2
  p1 = p1
  p2 = p2
  NoItem = NoItem
  Keys <- ThreeKeys
  Flags <- TwoFlags
  Procs <- TwoProcs
  Ids <- ThreeIds
  MaxSize = 2
  TTL = 2
SYMMETRY Symmetric3
INVARIANTS
  TypeOK
  ListMatchesMap
  CapacityRespected
PROPERTIES
  ExpiryDropsOnlyExpired
  ImplementsLRU
