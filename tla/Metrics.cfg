SPECIFICATION Spec
CONSTANTS
  g1 = g1
  g2 = g2
  Callers <- TwoCallers
  Window = 2
  MaxCalls = 3
  MaxEvictions = 1
SYMMETRY CallerSymmetry
INVARIANTS
  TypeOK
  FailuresAreCounted
  WindowIsRecent
  ErrorsCountTrouble
