SPECIFICATION Spec
CONSTANTS
  Orders = {1, 2, 3, 4, 5, 6}
  Qty <- DeskQty
  Side <- DeskSide
  ReduceOnly <- DeskReduceOnly
  Owner <- DeskOwner
  Replaces <- DeskReplaces
  NoOwner = NoOwner
  Workloads <- EveryLoad
INVARIANTS ReserveCoversExposure  ExitsWithinPosition
PROPERTIES RecordsAgree OutboxNeverRefuses
CHECK_DEADLOCK FALSE
