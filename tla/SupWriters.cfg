SPECIFICATION Spec
CONSTANTS
  Procs = {a, b, c}
  MaxLosses = 0
  Reuse = FALSE
  None = None
CHECK_DEADLOCK FALSE
INVARIANTS OneWriter
