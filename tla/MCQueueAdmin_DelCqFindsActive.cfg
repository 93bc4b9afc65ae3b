CONSTANTS
  num_io_queues = 2
  Vectors = {1, 2}
  MaxRoutes = 2
SPECIFICATION Spec
INVARIANT DelCqFindsActive
CHECK_DEADLOCK FALSE
