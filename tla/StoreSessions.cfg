SPECIFICATION Spec
CONSTANTS
  k1 = k1
  k2 = k2
  c1 = c1
  c2 = c2
  g1 = g1
  g2 = g2
  g3 = g3
  NoFlag = NoFlag
  Keys <- TwoKeys
  Clients <- TwoClients
  Callers <- TwoCallers
  Owner <- SeparateOwners
  Backend = "redis"
  TTL = 0
  MaxWrites = 4
SYMMETRY Symmetry
INVARIANTS
  TypeOK
  ReadYourWrites
  WriteThrough
PROPERTIES
  NothingOldEnters
