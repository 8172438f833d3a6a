SPECIFICATION Spec
CONSTANTS
  Orders = {1}
  Entries = {1}
  Sessions = {s1, s2}
  MaxCancels = 1
  MaxEpoch = 2
  MaxPolicy = 1
INVARIANTS HandoffsCounted
PROPERTIES HandoffAuthorized ImplementsDelivery
CHECK_DEADLOCK FALSE
