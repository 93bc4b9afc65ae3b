CONSTANTS
  Producers = {p1, p2}
  Consumers = {c1}
  size = 4
  IndexMod = 8
  Starts = {0, 6}
  MaxBurst = 2
  MaxObjects = 5
  single_prod = FALSE
  single_cons = TRUE
SPECIFICATION Spec
INVARIANTS
  IndicesOrdered
  CountMeansDequeue
PROPERTIES
  ImplementsFifo
  CallsReturn
CHECK_DEADLOCK FALSE
