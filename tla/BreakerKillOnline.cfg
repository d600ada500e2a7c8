\* commands_kill.py:79, while the server runs.
SPECIFICATION Spec
CONSTANTS
  FailureThreshold = 2
  SuccessThreshold = 2
  RecoveryTimeout = 1
  t1 = t1
  t2 = t2
  Tools <- Names
  Keys <- Names
  CallKey <- ByName
  CliKey <- ByName
  Calls = {c1}
  NoTool = NoTool
  Operators = {p1}
  Server = Server
  Offline = FALSE
PROPERTY KilledToolsDoNotStart
