CONSTANTS
  num_io_queues = 2
  Vectors = {1, 2}
  MaxRoutes = 2
SPECIFICATION Spec
INVARIANTS
  SqListsExact
  NoQueueUnserved
  ResetLeavesNothing
CHECK_DEADLOCK FALSE
