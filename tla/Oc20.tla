-------------------------------- MODULE Oc20 --------------------------------
(***************************************************************************)
(* Open-channel SSD 2.0 (ocssd/oc20.c): chunks with a write pointer, the   *)
(* checks of vector reads and writes against the chunk descriptors, vector *)
(* reset, and the chunk information log page, which the host may read and  *)
(* overwrite.  Every handler runs to completion in the poller's thread.    *)
(*                                                                         *)
(* A logical block address is an integer of four bit fields, group, unit,  *)
(* chunk and sector; the geometry follows from the drive's parameters the  *)
(* way femu_oc20_init_id_ctrl derives it.                                  *)
(***************************************************************************)
EXTENDS Integers, Sequences, FiniteSets, PrpBackend, NandTiming

CONSTANTS MwCunits,        \* 24 in the code: cached sectors that cannot be read yet
          CmdMaxLbas,      \* OC20_CMD_MAX_LBAS
          EarlyReset,      \* params.early_reset: FALSE unless the build sets it
          ResetFailLines,  \* lines <<grp, pu, chk>> of the resetfail file, probability > 0
          Vectors,         \* the address lists hosts send
          HostDescs,       \* the <<chunk, descriptor>> pairs hosts write with Set Log Page
          MaxWear          \* bound on resets of a chunk

VARIABLES chunk_info,  \* chunk index -> [state, type, wp, cnlb, wear_index]
          programmed,  \* chunk index -> sector -> programs since the last reset, up to 2
          loose        \* chunks whose descriptor was not made by their own writes

oc20vars == <<chunk_info, programmed, loose>>
-----------------------------------------------------------------------------
(* Geometry. *)

num_grp == NumCh
num_lun == NumLun
num_chk == NsBlks \div (SecsPerPg * PgsPerBlk * NumCh * NumLun * NumPln)
clba    == SecsPerPg * PgsPerBlk * NumPln

chk_offset == bit_len(clba)
lun_offset == chk_offset + bit_len(num_chk)
grp_offset == lun_offset + bit_len(num_lun)

chks_per_grp == num_chk * num_lun
chks_total   == chks_per_grp * num_grp
Chunks       == 0 .. chks_total - 1
oc20_nsze    == 2 ^ (grp_offset + bit_len(num_grp))

GET_SECTR(lba) == lba % 2 ^ chk_offset
GET_CHUNK(lba) == (lba \div 2 ^ chk_offset) % 2 ^ bit_len(num_chk)
GET_PUNIT(lba) == (lba \div 2 ^ lun_offset) % 2 ^ bit_len(num_lun)
GET_GROUP(lba) == lba \div 2 ^ grp_offset

oc20_lba_valid(lba) ==
    /\ GET_SECTR(lba) < clba
    /\ GET_CHUNK(lba) < num_chk
    /\ GET_PUNIT(lba) < num_lun
    /\ GET_GROUP(lba) < num_grp

oc20_lba_to_chunk_index(lba) ==
    GET_CHUNK(lba) + GET_PUNIT(lba) * num_chk + GET_GROUP(lba) * chks_per_grp

oc20_lunid(lba) == GET_GROUP(lba) * num_lun + GET_PUNIT(lba)

\* -1: the line names no chunk of the drive, and the drive does not come up.
get_chunk_meta_index(grp, lun, chk) ==
    IF chk < num_chk /\ lun < num_lun /\ grp < num_grp
    THEN num_chk * (grp * num_lun + lun) + chk ELSE -1

\* The chunks whose resets may fail.
oc20_resetfail_load == {get_chunk_meta_index(l[1], l[2], l[3]) : l \in ResetFailLines}

ASSUME Oc20Assumption ==
    /\ CmdMaxLbas \in Nat \ {0} /\ num_chk > 0 /\ MwCunits \in Nat /\ MaxWear \in Nat
    /\ EarlyReset \in BOOLEAN /\ oc20_resetfail_load \subseteq Chunks
    /\ \A v \in Vectors : v \in Seq(Nat) /\ v # <<>>
-----------------------------------------------------------------------------
(* Checks. *)

CHUNK_STATES == {"FREE", "OPEN", "CLOSED", "OFFLINE"}

\* A bug: the write pointer is a lower bound instead of the next sector.
oc20_rw_check_chunk_write_Gap(lba, ws) ==
    LET c     == chunk_info[oc20_lba_to_chunk_index(lba)]
        start == GET_SECTR(lba)
    IN  IF ~oc20_lba_valid(lba) \/ c.state \in {"OFFLINE", "CLOSED"} THEN "WRITE_FAULT"
        ELSE IF start + ws > c.cnlb THEN "WRITE_FAULT"
        ELSE IF start < c.wp THEN "OUT_OF_ORDER_WRITE"
        ELSE "SUCCESS"

\* A write of ws sectors from lba on, all in one chunk.
oc20_rw_check_chunk_write(lba, ws) ==
    LET c     == chunk_info[oc20_lba_to_chunk_index(lba)]
        start == GET_SECTR(lba)
    IN  CASE ~oc20_lba_valid(lba)                       -> "WRITE_FAULT"
          [] oc20_lba_valid(lba) /\ c.state \in {"OFFLINE", "CLOSED"} -> "WRITE_FAULT"
          [] oc20_lba_valid(lba) /\ c.state \in {"FREE", "OPEN"} ->
                 IF start + ws > c.cnlb THEN "WRITE_FAULT"
                 ELSE IF c.type = "RAN"
                      THEN IF c.state = "OPEN" THEN "SUCCESS" ELSE "WRITE_FAULT"
                 ELSE IF start # c.wp THEN "OUT_OF_ORDER_WRITE"
                 ELSE "SUCCESS"

\* The runs of a list that fall in one chunk: <<first index, last index>> pairs.
ChunkRuns(lbas) ==
    LET starts == RunStarts([k \in DOMAIN lbas |-> oc20_lba_to_chunk_index(lbas[k])])
    IN  {run \in starts \X DOMAIN lbas :
            /\ run[1] <= run[2] /\ starts \cap (run[1] + 1 .. run[2]) = {}
            /\ run[2] = Len(lbas) \/ run[2] + 1 \in starts}

\* A run is in order when each sector follows the one before.
InOrder(lbas, run) ==
    \A i \in run[1] + 1 .. run[2] : GET_SECTR(lbas[i]) = GET_SECTR(lbas[i - 1]) + 1

\* The first error met walking the list: a gap inside a run is met before the run's
\* own check, which happens when the next run starts.
oc20_rw_check_write_req(lbas) ==
    LET res(run) == IF ~InOrder(lbas, run) THEN "OUT_OF_ORDER_WRITE"
                    ELSE oc20_rw_check_chunk_write(lbas[run[1]], run[2] - run[1] + 1)
        bad == {run \in ChunkRuns(lbas) : res(run) # "SUCCESS"}
    IN  IF bad = {} THEN "SUCCESS"
        ELSE res(CHOOSE run \in bad : \A other \in bad : run[1] <= other[1])

\* Whether a sector may be read: the last MwCunits sectors of an open chunk are still
\* in the write cache.  Other reads are answered, with the sector's "predef" bit set.
oc20_rw_check_chunk_read(lba) ==
    LET c == chunk_info[oc20_lba_to_chunk_index(lba)]
    IN  /\ oc20_lba_valid(lba)
        /\ \/ c.type = "RAN" /\ c.state = "OPEN" /\ GET_SECTR(lba) < c.cnlb
           \/ c.type = "SEQ" /\ c.state = "CLOSED" /\ GET_SECTR(lba) < c.wp
           \/ c.type = "SEQ" /\ c.state = "OPEN" /\ c.wp >= MwCunits /\ GET_SECTR(lba) < c.wp - MwCunits
-----------------------------------------------------------------------------
(* State changes. *)

Free == [state |-> "FREE", type |-> "SEQ", wp |-> 0, cnlb |-> clba, wear_index |-> 0]

Oc20Init ==                               \* oc20_init_chunk_info
    /\ chunk_info = [c \in Chunks |-> Free]
    /\ programmed = [c \in Chunks |-> [s \in 0 .. clba - 1 |-> 0]]
    /\ loose = {}

\* The descriptor after a write of nlb sectors.
oc20_advance_wp(c, nlb) ==
    LET d == chunk_info[c]
    IN  IF d.type = "RAN" \/ d.state \notin {"FREE", "OPEN"} THEN d
        ELSE [d EXCEPT !.wp = @ + nlb,
                       !.state = IF d.wp + nlb = d.cnlb THEN "CLOSED" ELSE "OPEN"]

\* One NAND operation for each run of sectors that differ only in the sector field.
oc20_advance_status(lbas, now, op) ==
    ChargeChips(chip_next_avail_time, [k \in DOMAIN lbas |-> lbas[k] \div 2 ^ chk_offset],
                [k \in DOMAIN lbas |-> oc20_lunid(lbas[k])], now, op)

\* oc20_rw refuses a command before it changes anything.
Refused(answer, now) ==
    /\ Completed(answer, now)
    /\ UNCHANGED <<chunk_info, programmed, loose, chip_next_avail_time, backendVars>>

\* How often a list writes to a sector, and the count of programs that is kept.
SectorWrites(lbas, c, s) ==
    {i \in DOMAIN lbas : oc20_lba_to_chunk_index(lbas[i]) = c /\ GET_SECTR(lbas[i]) = s}
Programs(n) == IF n < 2 THEN n ELSE 2

\* oc20_rw for a write.  The data reaches the backend before the pointer moves, and
\* the pointer that moves, by the whole length, is the one of the first address's chunk.
oc20_write(lbas, now, v, prp_ok) ==
    LET nlb   == Len(lbas)
        err   == oc20_rw_check_write_req(lbas)
        first == oc20_lba_to_chunk_index(lbas[1])
        cs    == {oc20_lba_to_chunk_index(lbas[i]) : i \in 1 .. nlb}
        t     == oc20_advance_status(lbas, now, "write")
    IN  \/ nlb > CmdMaxLbas /\ Refused("INVALID_FIELD", now)
        \/ nlb <= CmdMaxLbas /\ err # "SUCCESS" /\ Refused(err, now)
        \/ /\ nlb <= CmdMaxLbas /\ err = "SUCCESS" /\ ~Mapped(v, PageSize * nlb, 0, prp_ok).ok
           /\ Refused("INVALID_FIELD", now)
        \/ /\ nlb <= CmdMaxLbas /\ err = "SUCCESS" /\ Mapped(v, PageSize * nlb, 0, prp_ok).ok
           /\ WriteData(SectorOffsets(lbas), PageSize * nlb, v, 0, TRUE)
           /\ programmed' = [c \in Chunks |-> [s \in 0 .. clba - 1 |->
                                Programs(programmed[c][s] + Cardinality(SectorWrites(lbas, c, s)))]]
           /\ chunk_info' = [chunk_info EXCEPT ![first] = oc20_advance_wp(first, nlb)]
           /\ loose' = IF Cardinality(cs) > 1 THEN loose \cup cs ELSE loose
           /\ chip_next_avail_time' = t.avail
           /\ Completed("SUCCESS", t.expire)

\* oc20_rw for a read: sectors that may not be read are only flagged.
oc20_read(lbas, now, prp_ok) ==
    LET nlb == Len(lbas)
        t   == oc20_advance_status(lbas, now, "read")
    IN  \/ /\ nlb > CmdMaxLbas \/ ~Mapped(0, PageSize * nlb, 0, prp_ok).ok
           /\ Refused("INVALID_FIELD", now)
        \/ /\ nlb <= CmdMaxLbas /\ Mapped(0, PageSize * nlb, 0, prp_ok).ok
           /\ ReadData(SectorOffsets(lbas), PageSize * nlb, 0, TRUE)
           /\ chip_next_avail_time' = t.avail
           /\ Completed("SUCCESS", t.expire)
           /\ UNCHANGED <<chunk_info, programmed, loose>>

\* The descriptor after a reset and the status: one outcome, or two where a reset may
\* fail at random.
oc20_chunk_set_free(d, c) ==
    LET refused == \/ d.state = "FREE"                  \* mccap has no MULTIPLE_RESETS
                   \/ d.state = "OPEN" /\ ~EarlyReset
        normal == CASE d.state = "OFFLINE" -> <<d, "OFFLINE_CHUNK">>
                    [] d.state # "OFFLINE" /\ refused -> <<d, "INVALID_RESET">>
                    [] d.state # "OFFLINE" /\ ~refused ->
                           <<[d EXCEPT !.state = "FREE", !.wp = 0,
                                       !.wear_index = (@ + 1) % 256], "SUCCESS">>
        failed == <<[d EXCEPT !.state = "OFFLINE", !.wp = 65535], "INVALID_RESET">>
    IN  {normal} \cup (IF c \in oc20_resetfail_load THEN {failed} ELSE {})

\* Resetting the addresses of a list in order, stopping at the first error: the
\* possible results [info, freed, status].
ResetResults(lbas) ==
    LET after[k \in 0 .. Len(lbas)] ==
            LET a == lbas[k]
                c == oc20_lba_to_chunk_index(a)
            IN  IF k = 0 THEN {[info |-> chunk_info, freed |-> {}, status |-> "SUCCESS"]}
                ELSE UNION {IF r.status # "SUCCESS" THEN {r}
                            ELSE IF ~oc20_lba_valid(a) THEN {[r EXCEPT !.status = "INVALID_RESET"]}
                            ELSE {[info   |-> [r.info EXCEPT ![c] = o[1]],
                                   freed  |-> IF o[2] = "SUCCESS" THEN r.freed \cup {c}
                                              ELSE r.freed,
                                   status |-> o[2]] : o \in oc20_chunk_set_free(r.info[c], c)}
                           : r \in after[k - 1]}
    IN  after[Len(lbas)]

\* A vector reset takes no NAND time: the handler never calls oc20_advance_status.
oc20_erase(lbas, now) ==
    \E r \in ResetResults(lbas) :
        /\ \A c \in Chunks : r.info[c].wear_index <= MaxWear
        /\ chunk_info' = r.info
        /\ programmed' = [c \in Chunks |-> IF c \in r.freed THEN [s \in 0 .. clba - 1 |-> 0]
                                           ELSE programmed[c]]
        /\ loose' = loose \ r.freed
        /\ Completed(r.status, now)
        /\ UNCHANGED <<chip_next_avail_time, backendVars>>

\* Set Log Page overwrites descriptors with the host's bytes.  (Get Log Page and a
\* range outside the table do not change the state: the first reads it, the second
\* ends the process.)
oc20_set_log(c, d) ==
    /\ chunk_info' = [chunk_info EXCEPT ![c] = d]
    /\ loose' = loose \cup {c}
    /\ Completed("SUCCESS", expire_time)
    /\ UNCHANGED <<programmed, chip_next_avail_time, backendVars>>

ReadableVectors == {v \in Vectors : \A i \in DOMAIN v : v[i] < oc20_nsze}

\* oc20_io_cmd and oc20_admin_cmd; Identify and other opcodes change nothing.
Oc20Next ==
    \/ \E lbas \in Vectors, now \in Times, v \in Vals, prp_ok \in BOOLEAN :
          oc20_write(lbas, now, v, prp_ok)
    \/ \E lbas \in ReadableVectors, now \in Times, prp_ok \in BOOLEAN :
          oc20_read(lbas, now, prp_ok)
    \/ \E lbas \in Vectors, now \in Times : oc20_erase(lbas, now)
    \/ \E cd \in HostDescs : oc20_set_log(cd[1], cd[2])
-----------------------------------------------------------------------------
(* Properties. *)

\* A chunk that only ever took writes of its own has a truthful descriptor: exactly the
\* sectors below its write pointer were programmed, each once since the last reset, its
\* state says whether it is empty, partly written or full, and the sectors a read does
\* not flag as predefined were programmed.  This is what lets the host trust the chunk
\* information page and what oc20_rw_check_chunk_write is for.
DescriptorsTrue ==
    \A c \in Chunks \ loose :
        LET d == chunk_info[c]
        IN  d.state # "OFFLINE" =>
              /\ \A s \in 0 .. clba - 1 : programmed[c][s] = (IF s < d.wp THEN 1 ELSE 0)
              /\ d.state = (IF d.wp = 0 THEN "FREE" ELSE IF d.wp < clba THEN "OPEN" ELSE "CLOSED")
              /\ \A lba \in 0 .. oc20_nsze - 1 :
                   oc20_lba_to_chunk_index(lba) = c /\ oc20_rw_check_chunk_read(lba)
                       => programmed[c][GET_SECTR(lba)] > 0
=============================================================================
