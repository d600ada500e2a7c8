\* Operators stop the server before they kill or enable.
SPECIFICATION Spec
CONSTANTS
  FailureThreshold = 3
  SuccessThreshold = 2
  RecoveryTimeout = 2
  t1 = t1
  t2 = t2
  Tools <- Names
  Keys <- Names
  CallKey <- ByName
  CliKey <- ByName
  Calls = {c1, c2}
  NoTool = NoTool
  Operators = {p1}
  Server = Server
  Offline = TRUE
INVARIANT TypeOK
INVARIANT FileIsCurrent
INVARIANT KillIsOnFile
PROPERTY ImplementsKillSwitch
