SPECIFICATION Spec
CONSTANTS
  NoFile = NoFile
  Unreadable = Unreadable
  Unset = Unset
  Unparsable = Unparsable
  Files <- AllFiles
  Envs <- AllEnvs
CHECK_DEADLOCK FALSE
INVARIANTS
  TypeOK
  PrecedenceKept
  ZeroIsSkipped
  SwitchedOnByEnvOnly
  AcceptedWhenWhole
