----------------------------- MODULE NandTiming -----------------------------
(***************************************************************************)
(* The NAND timing model the two open-channel modes share: per-chip        *)
(* next-available times, advanced by one NAND operation per group of       *)
(* sectors of a request; and the parameters and the completion record the  *)
(* two modes have in common.                                               *)
(***************************************************************************)
EXTENDS Naturals, Sequences

CONSTANTS ReadLat, WriteLat, EraseLat,  \* nanosecond figures, scaled down
          MaxChips,                     \* FEMU_MAX_NUM_CHIPS
          SecsPerPg, PgsPerBlk, NumCh, NumLun, NumPln,  \* oc_params, the drive's shape
          Times                         \* the issue times requests carry, in any order

VARIABLES chip_next_avail_time,  \* chip -> time
          expire_time,           \* when the last command may be completed
          status                 \* what the last command was answered

ASSUME NandAssumption ==
    /\ {ReadLat, WriteLat, EraseLat, MaxChips} \subseteq Nat \ {0}
    /\ {SecsPerPg, PgsPerBlk, NumCh, NumLun, NumPln} \subseteq Nat \ {0}
    /\ Times \subseteq Nat /\ Times # {}

timingVars == <<chip_next_avail_time, expire_time, status>>

TimingInit ==                            \* oc12_init_misc, oc20_init_misc
    /\ chip_next_avail_time = [l \in 0 .. MaxChips - 1 |-> 0]
    /\ expire_time = 0 /\ status = "SUCCESS"

\* 32 - clz32(n - 1): the bits that number n things.
bit_len(n) == CHOOSE b \in 0 .. n : 2 ^ b >= n /\ (b = 0 \/ 2 ^ (b - 1) < n)

\* A command is answered; the poller holds its completion back until expire.
Completed(answer, expire) == status' = answer /\ expire_time' = expire

NandOps == {"read", "write", "erase"}

\* init_nand_flash_timing fills the table of the object file it is compiled in.
init_nand_flash_timing ==
    [op \in NandOps |-> CASE op = "read"  -> ReadLat
                          [] op = "write" -> WriteLat
                          [] op = "erase" -> EraseLat]

\* The table is declared static in nand.h, so every object file has a copy of its
\* own, and only the one of nand.o is ever initialised.
nand_flash_timing(unit) ==
    IF unit = "nand.o" THEN init_nand_flash_timing ELSE [op \in NandOps |-> 0]

\* get_page_read_latency and its siblings are inlined into their caller's object
\* file.  The page type selects a column: all page types have one latency here.
get_latency(unit, op) == nand_flash_timing(unit)[op]

\* The channel is not modelled by the code either: it returns before its lock.
advance_channel_timestamp(now) == now

\* A bug: the operation starts at once, whatever the chip is doing.
advance_chip_timestamp_NoQueueing(avail, lunid, now, op) ==
    [avail EXCEPT ![lunid] = now + get_latency("timing.o", op)]

\* One NAND operation on a chip: it starts when the chip is free.
advance_chip_timestamp(avail, lunid, now, op) ==
    [avail EXCEPT ![lunid] = (IF now < @ THEN @ ELSE now) + get_latency("timing.o", op)]

\* The sectors of a request, grouped into runs that lie in one page, for the sequence of
\* their pages: the indices at which a run starts.
RunStarts(pages) == {i \in DOMAIN pages : i = 1 \/ pages[i] # pages[i - 1]}

\* One operation per run, in order; the request expires when the last one is done.
\* Writes cross the channel first and reads last, which costs nothing (see above).
ChargeChips(avail, pages, chips, now, op) ==
    LET charged[k \in 0 .. Len(pages)] ==
            IF k = 0 THEN [avail |-> avail, expire |-> now]
            ELSE IF k \notin RunStarts(pages) THEN charged[k - 1]
            ELSE LET after == advance_chip_timestamp(charged[k - 1].avail, chips[k],
                                  advance_channel_timestamp(now), op)
                     done  == after[chips[k]]
                 IN  [avail  |-> after,
                      expire |-> IF done > charged[k - 1].expire THEN done
                                 ELSE charged[k - 1].expire]
    IN  charged[Len(pages)]
-----------------------------------------------------------------------------
(* Properties. *)

\* A chip's next-available time never moves back, although requests of several queues
\* reach advance_chip_timestamp with issue times in any order, and a command that kept
\* chips busy is not completed before the last of them is done.
ChipNeverRewinds ==
    [][\A l \in DOMAIN chip_next_avail_time :
           /\ chip_next_avail_time'[l] >= chip_next_avail_time[l]
           /\ chip_next_avail_time'[l] # chip_next_avail_time[l]
                  => expire_time' >= chip_next_avail_time'[l]]_timingVars
=============================================================================
