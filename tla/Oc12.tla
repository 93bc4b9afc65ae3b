-------------------------------- MODULE Oc12 --------------------------------
(***************************************************************************)
(* Open-channel SSD 1.2 (ocssd/oc12.c): vector reads, writes and erases by *)
(* physical page address, the out-of-band metadata kept for every sector,  *)
(* and the bad block tables.                                               *)
(*                                                                         *)
(* A physical address is an integer of six bit fields: channel, lun,       *)
(* block, page, plane, sector.                                             *)
(***************************************************************************)
EXTENDS Naturals, Sequences, PrpBackend, NandTiming

CONSTANTS MaxSecPerRq,     \* oc_params.max_sec_per_rq
          PpaLists,        \* the address lists hosts send
          Oobs,            \* the metadata hosts attach
          BbtValues        \* the marks hosts set in a bad block table

VARIABLES meta_buf,        \* sector index -> [state, oob]
          bbtbl            \* chip -> block -> mark

oc12vars == <<meta_buf, bbtbl>>
-----------------------------------------------------------------------------
(* Geometry: oc12_init_more, oc12_init_id_ctrl. *)

num_blk == (NsBlks \div (SecsPerPg * PgsPerBlk * NumCh)) \div (NumLun * NumPln)
num_pg  == PgsPerBlk

sec_per_pl == SecsPerPg * NumPln
total_secs == sec_per_pl * PgsPerBlk * num_blk * NumLun * NumCh

pln_offset == bit_len(SecsPerPg)
pg_offset  == pln_offset + bit_len(NumPln)
blk_offset == pg_offset + bit_len(PgsPerBlk)
oc12_lun_offset == blk_offset + bit_len(num_blk)
ch_offset  == oc12_lun_offset + bit_len(NumLun)

PPA_SEC(ppa) == ppa % 2 ^ pln_offset
PPA_PLN(ppa) == (ppa \div 2 ^ pln_offset) % 2 ^ bit_len(NumPln)
PPA_PG(ppa)  == (ppa \div 2 ^ pg_offset) % 2 ^ bit_len(PgsPerBlk)
PPA_BLK(ppa) == (ppa \div 2 ^ blk_offset) % 2 ^ bit_len(num_blk)
PPA_LUN(ppa) == (ppa \div 2 ^ oc12_lun_offset) % 2 ^ bit_len(NumLun)
PPA_CH(ppa)  == (ppa \div 2 ^ ch_offset) % 2 ^ bit_len(NumCh)

\* The metadata slot of a sector.  Each coordinate is weighted by the number of values
\* it takes itself, not by the sectors below it.
ppa2secidx(ppa) ==
    PPA_SEC(ppa) + PPA_CH(ppa) * NumCh + PPA_LUN(ppa) * NumLun + PPA_PLN(ppa) * NumPln
        + PPA_BLK(ppa) * num_blk + PPA_PG(ppa) * num_pg

oc12_lunid(ppa) == PPA_CH(ppa) * NumLun + PPA_LUN(ppa)

\* The assertions on meta_buf hold for every sector of this geometry.
ASSUME Oc12Assumption ==
    /\ MaxSecPerRq \in Nat \ {0} /\ num_blk > 0 /\ NumPln \in {1, 2, 4}
    /\ \A n \in {NumCh, NumLun} : 2 ^ bit_len(n) = n
    /\ \A c \in 0 .. NumCh - 1, l \in 0 .. NumLun - 1 : c * NumCh + l < MaxChips
    /\ \A v \in PpaLists : v \in Seq(Nat) /\ v # <<>>
    /\ \A ppa \in 0 .. total_secs - 1 : ppa2secidx(ppa) < total_secs - 1
-----------------------------------------------------------------------------
Oc12Init ==      \* oc12_init_meta, oc12_init_bbtbl: zeroed
    /\ meta_buf = [i \in 0 .. total_secs - 1 |-> [state |-> "UNKNOWN", oob |-> "none"]]
    /\ bbtbl = [l \in 0 .. NumCh * NumLun - 1 |-> [b \in 0 .. num_blk - 1 |-> 0]]

\* The checks of a read or a write, in order.  (The PPA "unmapped", the metadata size
\* and the transfer size limit are zero or off in this configuration.)
oc12_rw_check_req(psl, is_write) ==
    IF Len(psl) > MaxSecPerRq THEN "INVALID_FIELD"
    ELSE IF is_write /\ Len(psl) < sec_per_pl THEN "INVALID_FIELD"
    ELSE IF \E i \in DOMAIN psl : psl[i] > NsBlks THEN "LBA_RANGE"
    ELSE "SUCCESS"

\* One NAND operation per run of addresses that agree outside the sector and plane
\* fields.  By now oc12_read and oc12_write have turned the list, in place, into byte
\* offsets, so the fields are cut out of the shifted addresses.
oc12_advance_status(psl, now, op) ==
    LET list == SectorOffsets(psl)
    IN  ChargeChips(chip_next_avail_time, [k \in DOMAIN list |-> list[k] \div 2 ^ pg_offset],
                    [k \in DOMAIN list |-> oc12_lunid(list[k])], now, op)

oc12_refused(answer, now) ==
    /\ Completed(answer, now)
    /\ UNCHANGED <<chip_next_avail_time, backendVars>>

\* Metadata slots after a write of the list with metadata oob ("none": no metadata).
MetaWritten(psl, oob) ==
    [i \in DOMAIN meta_buf |->
        IF \E k \in DOMAIN psl : ppa2secidx(psl[k]) = i
        THEN [state |-> "WRITTEN", oob |-> IF oob = "none" THEN meta_buf[i].oob ELSE oob]
        ELSE meta_buf[i]]

\* oc12_write.  The metadata is updated before the PRP entries are looked at, so a
\* command that fails there has changed it already.
oc12_write(psl, now, v, oob, prp_ok) ==
    LET err == oc12_rw_check_req(psl, TRUE)
        t   == oc12_advance_status(psl, now, "write")
    IN  /\ UNCHANGED bbtbl
        /\ \/ /\ err # "SUCCESS"
              /\ oc12_refused(err, now)
              /\ UNCHANGED meta_buf
           \/ /\ err = "SUCCESS"
              /\ meta_buf' = MetaWritten(psl, oob)
              /\ \/ /\ ~Mapped(v, PageSize * Len(psl), 0, prp_ok).ok
                    /\ oc12_refused("INVALID_FIELD", now)
                 \/ /\ Mapped(v, PageSize * Len(psl), 0, prp_ok).ok
                    /\ WriteData(SectorOffsets(psl), PageSize * Len(psl), v, 0, TRUE)
                    /\ chip_next_avail_time' = t.avail
                    /\ Completed("SUCCESS", t.expire)

\* oc12_read.  The metadata of the sectors is delivered first, when the host asks for
\* it, which changes nothing here.
oc12_read(psl, now, prp_ok) ==
    LET err == oc12_rw_check_req(psl, FALSE)
        t   == oc12_advance_status(psl, now, "read")
    IN  /\ UNCHANGED oc12vars
        /\ \/ /\ err # "SUCCESS"
              /\ oc12_refused(err, now)
           \/ /\ err = "SUCCESS"
              /\ \/ /\ ~Mapped(0, PageSize * Len(psl), 0, prp_ok).ok
                    /\ oc12_refused("INVALID_FIELD", now)
                 \/ /\ Mapped(0, PageSize * Len(psl), 0, prp_ok).ok
                    /\ ReadData(SectorOffsets(psl), PageSize * Len(psl), 0, TRUE)
                    /\ chip_next_avail_time' = t.avail
                    /\ Completed("SUCCESS", t.expire)

\* oc12_erase_async.  Erase tracking is switched off, and the address the time is charged
\* to is the request's slba, which this handler does not set: whatever an earlier use of
\* the request structure left there selects the chip.
oc12_erase_async(now) ==
    \E ch \in 0 .. NumCh - 1, lun \in 0 .. NumLun - 1 :
        LET l == ch * NumCh + lun
            after == advance_chip_timestamp(chip_next_avail_time, l, now, "erase")
        IN  /\ chip_next_avail_time' = after
            /\ Completed("SUCCESS", after[l])
            /\ UNCHANGED <<oc12vars, backendVars>>

\* oc12_bbt_set: one address in the command, or a list read through the PRP entries.
oc12_bbt_set(psl, value, prp_ok) ==
    \/ /\ Len(psl) > 1 /\ ~prp_ok
       /\ oc12_refused("INVALID_FIELD", expire_time)
       /\ UNCHANGED oc12vars
    \/ /\ Len(psl) = 1 \/ prp_ok
       /\ bbtbl' = [l \in DOMAIN bbtbl |-> [b \in DOMAIN bbtbl[l] |->
                       IF \E k \in DOMAIN psl : oc12_lunid(psl[k]) = l /\ PPA_BLK(psl[k]) = b
                       THEN value ELSE bbtbl[l][b]]]
       /\ Completed("SUCCESS", expire_time)
       /\ UNCHANGED <<meta_buf, chip_next_avail_time, backendVars>>

\* Lists of sectors the namespace has: the range check lets one address more through,
\* which a host that keeps to the reported geometry does not send.
Sendable == {v \in PpaLists : Len(v) <= MaxSecPerRq /\ \A k \in DOMAIN v : v[k] < NsBlks}
Refusable == {v \in PpaLists : Len(v) > MaxSecPerRq \/ \E k \in DOMAIN v : v[k] > NsBlks}

\* oc12_io_cmd and oc12_admin_cmd.  Other opcodes return an error, and the commands that
\* read the identity, the translation table or a bad block table change nothing.
Oc12Next ==
    \/ \E psl \in Sendable \cup Refusable, now \in Times, v \in Vals,
          oob \in Oobs \cup {"none"}, prp_ok \in BOOLEAN : oc12_write(psl, now, v, oob, prp_ok)
    \/ \E psl \in Sendable \cup Refusable, now \in Times, prp_ok \in BOOLEAN :
          oc12_read(psl, now, prp_ok)
    \/ \E now \in Times : oc12_erase_async(now)
    \/ \E psl \in Sendable, value \in BbtValues, prp_ok \in BOOLEAN :
          oc12_bbt_set(psl, value, prp_ok)
=============================================================================
