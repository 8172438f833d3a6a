SPECIFICATION FairSpec
CONSTANTS
  Orders = {1}
  Entries = {1}
  Sessions = {s1}
  MaxCancels = 1
  MaxEpoch = 1
  MaxPolicy = 1
PROPERTIES QueuedSettles
CHECK_DEADLOCK FALSE
