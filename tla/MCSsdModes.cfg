CONSTANTS
  NsBlks = 8
  Vals = {1}
  MaxPrpEnts = 2
  ReadLat = 2
  WriteLat = 3
  EraseLat = 4
  MaxChips = 4
  SecsPerPg = 1
  PgsPerBlk = 2
  NumCh = 2
  NumLun = 1
  NumPln = 1
  Times = {0, 1}
  MwCunits = 1
  CmdMaxLbas = 3
  EarlyReset = FALSE
  ResetFailLines <- MCResetFailLines
  Vectors <- MCVectors
  HostDescs <- MCHostDescs
  MaxWear = 1
  MaxSecPerRq = 4
  PpaLists <- MCPpaLists
  Oobs = {"x"}
  BbtValues = {1}
  LbaSizes = {1, 2}
  InitLba = 1
  Oncs <- MCOncs
  MaxData = 8
  Slbas = {0, 3}
  Nlbs = {1, 5}
  MaxPages = 2
  MaxBusy = 5
  Modes = {"ocssd12", "ocssd20", "nossd", "bbssd"}
SPECIFICATION Spec
INVARIANTS
  
  DescriptorsTrue
  
PROPERTIES
  ChipNeverRewinds
  RequestWaitsForLuns
