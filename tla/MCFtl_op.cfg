CONSTANTS
  nchs = 2
  luns_per_ch = 1
  pgs_per_blk = 1
  tt_lines = 4
  gc_thres_lines = 2
  gc_thres_lines_high = 1
  victim_div = 2
  nlpns = 4
  max_req_pgs = 2
  UNMAPPED_PPA = UNMAPPED_PPA
  INVALID_LPN = INVALID_LPN
SPECIFICATION Spec
INVARIANTS
  LinesPartition
  VictimsWorthCleaning
  NoAbort
PROPERTIES
  RemapOnlyToErased
