------------------------------ MODULE BlockIo -------------------------------
(***************************************************************************)
(* The block commands of the black-box and the no-SSD mode (nvme-io.c,     *)
(* bbssd/bb.c, nossd/nop.c) and Format NVM (nvme-admin.c): reads and       *)
(* writes of ranges of sectors, the sectors marked uncorrectable, and the  *)
(* namespace's size, which changes with the sector size.                   *)
(*                                                                         *)
(* A sector is lba_ds half pages.  The rings, the pollers and the FTL      *)
(* behind these commands are the modules NvmeIo, RteRing and Ftl.          *)
(***************************************************************************)
EXTENDS Naturals, Sequences, PrpBackend, NandTiming

CONSTANTS LbaSizes,    \* the sizes of the LBA formats, in half pages
          InitLba,     \* the size of the format lba_index selects
          MaxData,     \* the transfer limit mdts sets, in half pages
          Slbas, Nlbs  \* the ranges hosts send

VARIABLES lba_ds,         \* the sector size of the current format
          nsze,           \* id_ns.nsze: sectors of the namespace
          uncorrectable   \* the bitmap of sectors marked by Write Uncorrectable

blockVars == <<lba_ds, nsze, uncorrectable>>

ns_size == PageSize * NsBlks
ns_blks(size) == ns_size \div size

\* The optional commands that bits of the oncs property switch on.
ONCS == {"DSM", "COMPARE", "WRITE_ZEROS", "WRITE_UNCORR"}

\* The bitmaps are allocated once, by nvme_init_namespace.
BitmapBits == ns_blks(InitLba)

ASSUME BlockAssumption ==
    /\ LbaSizes \subseteq 1 .. PageSize /\ InitLba \in LbaSizes
    /\ MaxData \in Nat \ {0} /\ Slbas \subseteq Nat /\ Nlbs \subseteq Nat \ {0}

\* nvme_init_namespace, or what the mode puts in place of its sector size and count.
BlockInit(size, blks) ==
    /\ lba_ds = size
    /\ nsze = blks
    /\ uncorrectable = {}
-----------------------------------------------------------------------------
\* The checks of a read or a write, in order.  (No format has metadata and no command
\* asks for protection information here.)
femu_nvme_rw_check_req(slba, nlb, is_write) ==
    CASE slba + nlb > nsze -> "LBA_RANGE"
      [] slba + nlb <= nsze /\ nlb * lba_ds > MaxData -> "INVALID_FIELD"
      [] OTHER -> IF ~is_write /\ uncorrectable \cap (slba .. slba + nlb - 1) # {}
                  THEN "UNRECOVERED_READ" ELSE "SUCCESS"

Answered(answer) ==
    /\ status' = answer
    /\ UNCHANGED <<blockVars, chip_next_avail_time, expire_time>>

\* nvme_rw: the buffer may start inside a page.
nvme_rw(slba, nlb, is_write, v, off, prp_ok) ==
    LET err  == femu_nvme_rw_check_req(slba, nlb, is_write)
        len  == nlb * lba_ds
        data_offset == <<slba * lba_ds>>
    IN  \/ err # "SUCCESS" /\ Answered(err) /\ UNCHANGED backendVars
        \/ /\ err = "SUCCESS" /\ ~Mapped(v, len, off, prp_ok).ok
           /\ Answered("INVALID_FIELD") /\ UNCHANGED backendVars
        \/ /\ err = "SUCCESS" /\ Mapped(v, len, off, prp_ok).ok
           /\ Answered("SUCCESS")
           /\ IF is_write THEN WriteData(data_offset, len, v, off, FALSE)
                          ELSE ReadData(data_offset, len, off, FALSE)

\* nvme_dsm only clears bits of ns->util, which nothing reads: the data stays.  A list
\* is worked off until the first range beyond the end.
nvme_dsm(slba, nlb, prp_ok) ==
    /\ Answered(IF ~prp_ok THEN "INVALID_FIELD"
                ELSE IF slba + nlb > nsze THEN "LBA_RANGE" ELSE "SUCCESS")
    /\ UNCHANGED backendVars

\* nvme_compare compares the host's data with a buffer it never fills: once the command
\* is past its checks either outcome is possible.
nvme_compare(slba, nlb, prp_ok) ==
    /\ \E answer \in
           IF slba + nlb > nsze THEN {"LBA_RANGE"}
           ELSE IF nlb * lba_ds > MaxData \/ ~prp_ok THEN {"INVALID_FIELD"}
           ELSE IF uncorrectable \cap (slba .. slba + nlb - 1) # {} THEN {"UNRECOVERED_READ"}
           ELSE {"SUCCESS", "CMP_FAILURE"} : Answered(answer)
    /\ UNCHANGED backendVars

\* Flush answers at once, and Write Zeroes changes nothing.
nvme_flush == Answered("SUCCESS") /\ UNCHANGED backendVars

nvme_write_zeros(slba, nlb) ==
    /\ Answered(IF slba + nlb > nsze THEN "LBA_RANGE" ELSE "SUCCESS")
    /\ UNCHANGED backendVars

\* Marks sectors as unreadable.  Nothing ever clears a mark, not even a later write.
nvme_write_uncor(slba, nlb) ==
    LET ok == slba + nlb <= nsze
    IN  /\ uncorrectable' = IF ok THEN uncorrectable \cup (slba .. slba + nlb - 1)
                            ELSE uncorrectable
        /\ status' = (IF ok THEN "SUCCESS" ELSE "LBA_RANGE")
        /\ UNCHANGED <<lba_ds, nsze, chip_next_avail_time, expire_time, backendVars>>

\* A bug: the number of sectors stays what it was.
nvme_format_namespace_KeepsSize(size) == lba_ds' = size /\ UNCHANGED nsze

\* Format NVM selects a sector size and recomputes the size of the namespace.  It erases
\* nothing, and keeps the bitmaps as they are.
nvme_format_namespace(size) ==
    /\ lba_ds' = size
    /\ nsze' = ns_blks(size)

nvme_format(size) ==
    /\ nvme_format_namespace(size)
    /\ status' = "SUCCESS"
    /\ UNCHANGED <<uncorrectable, chip_next_avail_time, expire_time, backendVars>>

\* The commands every mode has, for the optional commands that are switched on.
nvme_io_cmd(oncs) ==
    \/ \E slba \in Slbas, nlb \in Nlbs, prp_ok \in BOOLEAN :
             \/ "DSM" \in oncs /\ nvme_dsm(slba, nlb, prp_ok)
             \/ "COMPARE" \in oncs /\ nvme_compare(slba, nlb, prp_ok)
    \/ \E slba \in Slbas, nlb \in Nlbs :
             \/ "WRITE_ZEROS" \in oncs /\ nvme_write_zeros(slba, nlb)
             \/ "WRITE_UNCORR" \in oncs /\ nvme_write_uncor(slba, nlb)
    \/ nvme_flush
    \/ oncs # ONCS /\ Answered("INVALID_OPCODE") /\ UNCHANGED backendVars

\* bb_io_cmd and nop_io_cmd pass reads and writes on; the host may format the drive.
BlockNext ==
    \/ \E slba \in Slbas, nlb \in Nlbs, is_write \in BOOLEAN, v \in Vals,
          off \in 0 .. PageSize - 1, prp_ok \in BOOLEAN :
             nvme_rw(slba, nlb, is_write, v, off, prp_ok)
    \/ \E size \in LbaSizes : nvme_format(size)
-----------------------------------------------------------------------------
(* Properties. *)

\* Whatever formats a host selects, every range the commands accept lies inside the
\* backend's memory and inside the bitmap that was allocated for the first format.
FormatKeepsBounds ==
    /\ nsze * lba_ds <= ns_size
    /\ nsze <= BitmapBits
    /\ \A b \in uncorrectable : b < BitmapBits
=============================================================================
