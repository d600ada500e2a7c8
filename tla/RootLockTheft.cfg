\* utils/locks.py:106 against a lock that is cleared by path: no command dies,
\* and no operator unlocks.
SPECIFICATION LockSpec
CONSTANTS
  Procs = {p1, p2, p3}
  MayCrash = {}
  Unlocking = FALSE
INVARIANT NeverTwoInside
