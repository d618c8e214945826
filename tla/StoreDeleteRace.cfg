SPECIFICATION Spec
CONSTANTS
  k1 = k1
  k2 = k2
  c1 = c1
  c2 = c2
  g1 = g1
  g2 = g2
  g3 = g3
  NoFlag = NoFlag
  Keys <- OneKey
  Clients <- OneClient
  Callers <- TwoCallers
  Owner <- SharedOwner
  Backend = "memory"
  TTL = 0
  MaxWrites = 2
INVARIANTS
  DeleteReachesCache
