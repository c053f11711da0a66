SPECIFICATION Spec
CONSTANTS
  Users <- MCUsers
  Validity = valid
  MaxVersion = 3
  MaxDepth = 4
  u1 = u1
  u2 = u2
  valid = valid
INVARIANTS TypeOK NoStaleAnswer
