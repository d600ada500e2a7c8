SPECIFICATION Spec
CONSTANTS
  c1 = c1
  c2 = c2
  k1 = k1
  a1 = a1
  read = read
  write = write
  Torn = Torn
  Callers <- MCCallers
  Tools <- MCTools
  Tokens <- MCTokens
  Args <- MCArgs
  Always <- MCAlways
  StateChanging <- MCStateChanging
  PolicyRules <- MCPolicyRules
  DefaultAllow = FALSE
  Window = 2
  RuleFiles <- MCRuleFiles
  Lockfiles <- MCLockfiles
  Trips <- MCTrips
  HistoryCap = 2
  MaxTime = 4
  MaxReloads = 1
  MaxStarts = 3
INVARIANTS
  TypeOK
  StartsAreConfirmed
  BudgetHolds
  RateHolds
PROPERTIES
  RulesHold
  ImplementsApprovalToken
CONSTRAINT
  Bounds
SYMMETRY
  MCSymmetry
