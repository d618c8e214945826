SPECIFICATION Spec
CONSTANTS
  k1 = k1
  k2 = k2
  v1 = v1
  v2 = v2
  m1 = m1
  m2 = m2
  NoFlag = NoFlag
  Keys <- TwoKeys
  Vars <- TwoVars
  Maps <- TwoMaps
SYMMETRY Symmetry
INVARIANTS
  TypeOK
  EnabledIsStored
PROPERTY ImplementsFlagMap
