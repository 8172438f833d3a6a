SPECIFICATION FairSpec
CONSTANTS
  Orders = {1}
  Qty <- DeskQty
  Side <- DeskSide
  ReduceOnly <- DeskReduceOnly
  Owner <- DeskOwner
  Replaces <- DeskReplaces
  NoOwner = NoOwner
  Workloads <- OneOrder
PROPERTIES Settles
CHECK_DEADLOCK FALSE
