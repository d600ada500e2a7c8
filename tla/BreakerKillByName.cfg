\* commands_kill.py:79, for a tool of a compiled manifest killed by its name.
SPECIFICATION Spec
CONSTANTS
  FailureThreshold = 2
  SuccessThreshold = 2
  RecoveryTimeout = 1
  t1 = t1
  t2 = t2
  Tools <- Names
  Keys <- AllKeys
  CallKey <- BySignature
  CliKey <- ByName
  Calls = {c1}
  NoTool = NoTool
  Operators = {p1}
  Server = Server
  Offline = TRUE
PROPERTY KilledToolsDoNotStart
