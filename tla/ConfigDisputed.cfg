SPECIFICATION Spec
CONSTANTS
  NoFile = NoFile
  Unreadable = Unreadable
  Unset = Unset
  Unparsable = Unparsable
  Files <- DisputedFiles
  Envs <- DisputedEnvs
CHECK_DEADLOCK FALSE
INVARIANTS
  PrecedenceFollowed
