SPECIFICATION Spec
CONSTANTS
  k1 = k1
  k2 = k2
  c1 = c1
  c2 = c2
  g1 = g1
  g2 = g2
  BadKey = BadKey
  Nobody = Nobody
  Backend = "postgres"
  Keys <- OneKey
  Clients <- TwoClients
  Callers <- OneCaller
  Owner <- SoleOwner
  Defaults <- OneDefault
PROPERTIES
  DefaultsOnlyCreate
