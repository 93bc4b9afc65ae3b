------------------------------ MODULE BbTiming ------------------------------
(***************************************************************************)
(* The time the black-box mode charges (bbssd/ftl.c, bbssd/bb.c): busy     *)
(* times of LUNs, the latency the FTL thread adds to a request, and the    *)
(* FLIP command that switches the delays while the thread works.           *)
(*                                                                         *)
(* Where pages lie is the business of module Ftl; here a page of a request *)
(* or of a collection may lie on any LUN.  A command comes to the thread   *)
(* once its handler (module BlockIo) has succeeded.                        *)
(***************************************************************************)
EXTENDS Naturals, Sequences, NandTiming

CONSTANTS MaxPages,    \* bound: pages of one request
          MaxBusy      \* bound: time up to which LUNs are charged

VARIABLES next_lun_avail_time,  \* LUN -> time
          cur,                  \* the request in hand: pages charged, longest latency
          lat,                  \* ftl_thread's variable, which outlives a request
          slow,                 \* the operations that take time now (sp.pg_rd_lat ...)
          flip,                 \* operations a FLIP command has still to change, in order
          enable_gc_delay

ASSUME BbAssumption == MaxPages \in Nat \ {0} /\ MaxBusy \in Nat

bbVars == <<next_lun_avail_time, cur, lat, slow, flip, enable_gc_delay>>

Luns == 0 .. NumCh * NumLun - 1
Idle == [op |-> "none", stime |-> 0, pages |-> 0, maxlat |-> 0, luns |-> {}]

\* ssd_init: every LUN is free and all delays are on.
BbInit ==
    /\ next_lun_avail_time = [l \in Luns |-> 0]
    /\ cur = Idle
    /\ lat = 0
    /\ slow = NandOps /\ flip = <<>>
    /\ enable_gc_delay = TRUE
-----------------------------------------------------------------------------
(* ftl_thread *)

\* An operation starts when its LUN is free, and takes the time sp has for it now.
ssd_advance_status(l, op, stime) ==
    LET start == IF next_lun_avail_time[l] < stime THEN stime ELSE next_lun_avail_time[l]
        end   == start + (IF op \in slow THEN init_nand_flash_timing[op] ELSE 0)
    IN  /\ end <= MaxBusy
        /\ next_lun_avail_time' = [next_lun_avail_time EXCEPT ![l] = end]

\* A request leaves the ring; its issue time was taken by the poller.
FtlDequeue(op, stime) ==
    /\ cur = Idle
    /\ cur' = [Idle EXCEPT !.op = op, !.stime = stime]
    /\ UNCHANGED <<next_lun_avail_time, lat, slow, flip, enable_gc_delay, timingVars>>

\* A bug: the latency of the last page counts, not the longest one.
ChargePage_Last(l) ==
    /\ cur.op \in {"read", "write"} /\ cur.pages < MaxPages
    /\ ssd_advance_status(l, cur.op, cur.stime)
    /\ cur' = [cur EXCEPT !.pages = @ + 1, !.luns = @ \cup {l},
                          !.maxlat = next_lun_avail_time'[l] - cur.stime]
    /\ UNCHANGED <<lat, slow, flip, enable_gc_delay, timingVars>>

\* One page of ssd_read or ssd_write.
ChargePage(l) ==
    /\ cur.op \in {"read", "write"} /\ cur.pages < MaxPages
    /\ ssd_advance_status(l, cur.op, cur.stime)
    /\ LET sublat == next_lun_avail_time'[l] - cur.stime
       IN  cur' = [cur EXCEPT !.pages = @ + 1, !.luns = @ \cup {l},
                              !.maxlat = IF sublat > @ THEN sublat ELSE @]
    /\ UNCHANGED <<lat, slow, flip, enable_gc_delay, timingVars>>

\* The request goes to the poller.  A read of unmapped pages has charged none, and for
\* an opcode the thread does not know lat is what the request before was given.
FtlDone ==
    /\ cur.op # "none"
    /\ cur.op = "write" => cur.pages > 0
    /\ lat' = CASE cur.op \in {"read", "write"} -> cur.maxlat
                [] cur.op = "dsm" -> 0
                [] OTHER -> lat
    /\ Completed("SUCCESS", cur.stime + lat')
    /\ cur' = Idle
    /\ UNCHANGED <<next_lun_avail_time, slow, flip, enable_gc_delay, chip_next_avail_time>>

\* gc_read_page, gc_write_page and the erase of do_gc, at the time the clock shows:
\* before the first page of a write, or between two requests.
GcCommand(l, op, clock) ==
    /\ \/ cur = Idle
       \/ cur.op = "write" /\ cur.pages = 0 /\ clock >= cur.stime
    /\ enable_gc_delay
    /\ ssd_advance_status(l, op, clock)
    /\ UNCHANGED <<cur, lat, slow, flip, enable_gc_delay, timingVars>>
-----------------------------------------------------------------------------
(* bb_flip, on the main thread: FTL requests and collections go on meanwhile. *)

FlipGcDelay(on) ==
    /\ flip = <<>>
    /\ enable_gc_delay' = on
    /\ UNCHANGED <<next_lun_avail_time, cur, lat, slow, flip, timingVars>>

\* Delay emulation is switched on or off by one assignment for each operation; the
\* switch it already has changes nothing.
FlipDelayEmu ==
    /\ flip = <<>>
    /\ flip' = <<"read", "write", "erase">>
    /\ UNCHANGED <<next_lun_avail_time, cur, lat, slow, enable_gc_delay, timingVars>>

FlipAssign ==
    /\ flip # <<>>
    /\ slow' = IF Head(flip) \in slow THEN slow \ {Head(flip)} ELSE slow \cup {Head(flip)}
    /\ flip' = Tail(flip)
    /\ UNCHANGED <<next_lun_avail_time, cur, lat, enable_gc_delay, timingVars>>

BbNext ==
    \/ \E op \in {"read", "write", "dsm", "other"}, stime \in Times : FtlDequeue(op, stime)
    \/ \E l \in Luns : ChargePage(l)
    \/ FtlDone
    \/ \E l \in Luns, op \in NandOps, clock \in Times : GcCommand(l, op, clock)
    \/ \E on \in BOOLEAN : FlipGcDelay(on)
    \/ FlipDelayEmu \/ FlipAssign
-----------------------------------------------------------------------------
(* Properties. *)

\* A LUN's busy time never moves back, whatever collections and FLIP commands come in
\* between and in whatever order issue times arrive; and a read or write is completed
\* when the last of the LUNs it used is done, neither before nor after.
RequestWaitsForLuns ==
    [][/\ \A l \in Luns : next_lun_avail_time'[l] >= next_lun_avail_time[l]
       /\ cur' = Idle /\ cur.op \in {"read", "write"} =>
            /\ \A l \in cur.luns : expire_time' >= next_lun_avail_time[l]
            /\ expire_time' \in {cur.stime} \cup {next_lun_avail_time[l] : l \in cur.luns}
      ]_<<bbVars, timingVars>>
=============================================================================
