SPECIFICATION FairSpec
CONSTANTS
  k1 = k1
  k2 = k2
  k3 = k3
  f1 = f1
  f2 = f2
  p1 = p1
  p2 = p2
  NoItem = NoItem
  Keys <- TwoKeys
  Flags <- OneFlag
  Procs <- TwoProcs
  Ids <- ThreeIds
  MaxSize = 1
  TTL = 4
PROPERTIES
  CallsReturn
  ExpiredSwept
  SweeperStops
