CONSTANTS
  NPollers = 1
  SB2Q_SZ = 1
  Q2SB_SZ = 5
  D2H_SZ = 1
  Burst = 2
  MaxMmio = 2
  MaxRounds = 2
SPECIFICATION Spec
INVARIANTS
  OpAliveWhenUsed
  ReadSeesWrites
  InterruptAfterData
  SlotsApart
PROPERTIES
  AllAnswered
CHECK_DEADLOCK FALSE
