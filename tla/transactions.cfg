SPECIFICATION Spec
CONSTANTS
  Workers <- MCWorkers
  Rows <- MCRows
  Permissions <- MCPermissions
  Delegable <- MCDelegable
  Edits <- MCEdits
  InitPerms <- MCPerms
  MaxEvents = 4
  None = None
  w1 = w1
  w2 = w2
  a1 = a1
  a2 = a2
  low = low
  high = high
INVARIANTS TypeOK InstanceIsHonest NobodyWaitsInACircle
PROPERTIES ImplementsLifecycle DelegationHolds EveryCallEnds
CHECK_DEADLOCK FALSE
