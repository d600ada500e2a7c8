\* Over HTTP, where the console kills and enables, or over stdio with --watch,
\* where the reconcile loop records what its probes find.
SPECIFICATION LiveSpec
CONSTANTS
  FailureThreshold = 3
  SuccessThreshold = 2
  RecoveryTimeout = 1
  Tools = {t1, t2}
  Called = {t1}
  Probed = {t2}
  Calls = {c1, c2}
  NoTool = NoTool
  Transports = {"http", "stdio"}
INVARIANT TypeOK
INVARIANT KilledIsOpen
INVARIANT AckedKillRecorded
INVARIANT FailureStreakBlocks
PROPERTY TripsOnlyOnStreak
PROPERTY ClosesOnlyOnProof
PROPERTY StartsOnlyRested
PROPERTY ImplementsKillSwitch
PROPERTY Recovers
