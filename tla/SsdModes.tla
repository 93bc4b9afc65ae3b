------------------------------ MODULE SsdModes ------------------------------
(***************************************************************************)
(* The controller in one of its modes: nvme_register_extensions installs   *)
(* the handlers of the mode the femu_mode and lver properties name, which  *)
(* share the DRAM backend, the PRP walk and the NAND timing.  (The zoned   *)
(* mode is the module Zns.)                                                *)
(***************************************************************************)
EXTENDS Oc12, Oc20, BlockIo, BbTiming

CONSTANTS Modes,   \* the modes of the instance, of "ocssd12", "ocssd20", "nossd", "bbssd"
          Oncs     \* mode -> the optional commands the oncs property switches on

VARIABLE mode     \* n->femu_mode and n->lver: never changes

vars == <<mode, backendVars, timingVars, oc12vars, oc20vars, blockVars, bbVars>>

ASSUME ModesAssumption ==
    /\ Modes \subseteq {"ocssd12", "ocssd20", "nossd", "bbssd"}
    /\ Oncs \in [Modes -> SUBSET ONCS]

\* The handlers ext_ops.io_cmd and ext_ops.admin_cmd point to.  (The host of an
\* open-channel drive keeps its sector size.)  bb_io_cmd and nop_io_cmd pass commands on
\* to the same functions: the data is followed in the mode "nossd", the FTL thread's
\* time in the mode "bbssd".
nvme_register_extensions(m) ==
    CASE m = "ocssd12" -> Oc12Next /\ UNCHANGED <<oc20vars, blockVars, bbVars>>
      [] m = "ocssd20" -> Oc20Next /\ UNCHANGED <<oc12vars, blockVars, bbVars>>
      [] m = "nossd"   -> BlockNext /\ UNCHANGED <<oc12vars, oc20vars, bbVars>>
      [] m = "bbssd"   -> BbNext /\ UNCHANGED <<backendVars, oc12vars, oc20vars, blockVars>>

\* The open-channel modes have sectors of a page, 2.0 an address space of its own.
Init ==
    /\ mode \in Modes
    /\ BackendInit /\ TimingInit
    /\ Oc12Init /\ Oc20Init /\ BbInit
    /\ CASE mode = "ocssd12" -> BlockInit(PageSize, NsBlks)
         [] mode = "ocssd20" -> BlockInit(PageSize, oc20_nsze)
         [] mode \in {"nossd", "bbssd"} -> BlockInit(InitLba, ns_blks(InitLba))

\* A command the controller knows in every mode, or one for the mode's handlers.
Next ==
    /\ \/ /\ mode # "bbssd"
          /\ nvme_io_cmd(Oncs[mode]) /\ UNCHANGED <<oc12vars, oc20vars, bbVars>>
       \/ nvme_register_extensions(mode)
    /\ UNCHANGED mode

Spec == Init /\ [][Next]_vars
=============================================================================
