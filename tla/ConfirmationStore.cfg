\* Two tokens, two calls of the store at a time, a clock that outlives the ttl.
SPECIFICATION Spec
CONSTANTS
  t1 = t1
  t2 = t2
  Tokens <- TwoTokens
  Bindings <- TwoTokens
  Bound <- Own
  Clients = {c1, c2}
  TTL = 2
  MaxTime = 3
SYMMETRY Symmetry
INVARIANT TypeOK
INVARIANT SingleUse
INVARIANT DenialsHold
PROPERTY UsesWhatWasGranted
PROPERTY ImplementsApprovalToken
