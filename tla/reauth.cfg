SPECIFICATION Spec
CONSTANTS
  Users <- MCUsers
  Workers <- MCWorkers
  Tokens <- MCTokens
  Issuers = {owner}
  Deployments <- MCDeployments
  TTL = 1
  Patience = 1
  MaxDraws = 2
  MaxUses = 3
  None = None
  owner = owner
  stranger = stranger
  w1 = w1
  w2 = w2
  t1 = t1
  t2 = t2
SYMMETRY Interchangeable
INVARIANTS TypeOK TokenIsNeverLost
PROPERTIES OneFreshUse CommittedInvalidationIsFinal ImplementsStepUp
CHECK_DEADLOCK FALSE
