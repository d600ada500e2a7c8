\* docs/user-guide.md:522 against the calls HALF_OPEN admits.
SPECIFICATION ObservedSpec
CONSTANTS
  FailureThreshold = 2
  SuccessThreshold = 2
  RecoveryTimeout = 1
  Tools = {t1}
  Called = {t1}
  Probed = {}
  Calls = {c1, c2}
  NoTool = NoTool
  Transports = {"stdio"}
INVARIANT OneProbeAtATime
