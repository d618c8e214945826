SPECIFICATION FairSpec
CONSTANTS
  k1 = k1
  k2 = k2
  c1 = c1
  c2 = c2
  g1 = g1
  g2 = g2
  BadKey = BadKey
  Nobody = Nobody
  Backend = "redis"
  Keys <- OneKey
  Clients <- OneClient
  Callers <- TwoCallers
  Owner <- SharedOwner
  Defaults <- OneDefault
INVARIANTS
  CloseReturnsClosed
  ClosesOnce
PROPERTIES
  CallsReturn
