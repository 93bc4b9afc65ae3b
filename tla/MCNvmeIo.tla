------------------------------ MODULE MCNvmeIo ------------------------------
(* Three devices: one queue of three entries with aborts, whose rings wrap; *)
(* two queues served by one poller through the FTL; and two queues with a  *)
(* poller each and no FTL.                                                 *)
EXTENDS NvmeIo

Device(n, size, bb, multi, cmds, aborts) ==
  [num_io_queues |-> n, qsize |-> size, BBSSD |-> bb, multipoller_enabled |-> multi,
   MaxCmds |-> cmds, MaxAborts |-> aborts]

DeepDevice  == {Device(1, 3, TRUE, FALSE, 4, 2)}
PathDevices == {Device(2, 2, TRUE, FALSE, 3, 0), Device(2, 2, FALSE, TRUE, 3, 0)}
=============================================================================
