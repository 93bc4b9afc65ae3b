----------------------------- MODULE MCSsdModes -----------------------------
(* Instances of the controller's modes for TLC: a drive of eight sectors,  *)
(* two channels of one chip, four chunks of two sectors.                   *)
EXTENDS SsdModes

\* Lists inside one chunk, across chunks of one and of two channels, out of order, with
\* a sector twice, too long for a command, and with an address beyond the drive.
MCVectors == {<<0>>, <<1>>, <<1, 2>>, <<4, 5>>, <<0, 1, 4>>, <<1, 0>>, <<9>>,
              <<0, 1, 2, 3, 4>>}
MCPpaLists == {<<3, 1, 3>>, <<5, 0, 7, 6>>, <<0, 1, 2, 3, 4>>, <<9>>}

MCResetFailLines == {<<1, 0, 0>>}

\* All optional commands in one mode, what is shipped in the others.
MCOncs == [m \in Modes |-> IF m = "nossd" THEN ONCS ELSE {"DSM"}]

MCHostDescs ==
    {<<1, [state |-> "OPEN", type |-> "RAN", wp |-> 0, cnlb |-> 2, wear_index |-> 0]>>}
=============================================================================
