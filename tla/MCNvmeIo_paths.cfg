CONSTANTS
  Configs <- PathDevices
  ring_size = 4
  Lats = {0, 1}
  Success = {TRUE, FALSE}
SPECIFICATION Spec
INVARIANTS
  RequestAlwaysAvailable
PROPERTIES
  NoCqeOverwritten
  
