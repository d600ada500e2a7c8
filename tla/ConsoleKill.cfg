\* docs/user-guide.md:730 against an item that another handler dismissed.
SPECIFICATION Spec
CONSTANTS
  FailureThreshold = 2
  SuccessThreshold = 2
  RecoveryTimeout = 1
  Tools = {t1}
  Called = {t1}
  Probed = {}
  Calls = {c1}
  NoTool = NoTool
  Transports = {"http"}
INVARIANT AnsweredKillRecorded
