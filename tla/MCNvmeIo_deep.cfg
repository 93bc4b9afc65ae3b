CONSTANTS
  Configs <- DeepDevice
  ring_size = 3
  Lats = {0, 1}
  Success = {TRUE}
SPECIFICATION Spec
INVARIANTS
  
  
  PhaseTellsNew
CHECK_DEADLOCK FALSE
