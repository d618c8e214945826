SPECIFICATION FairSpec
CONSTANTS
  k1 = k1
  k2 = k2
  c1 = c1
  c2 = c2
  g1 = g1
  g2 = g2
  g3 = g3
  NoFlag = NoFlag
  Keys <- OneKey
  Clients <- TwoClients
  Callers <- ThreeCallers
  Owner <- MixedOwners
  Backend = "postgres"
  TTL = 1
  MaxWrites = 3
INVARIANTS
  StaleNoLongerThanTTL
PROPERTIES
  EventuallyCoherent
