--------------------------------- MODULE Ftl ---------------------------------
(***************************************************************************)
(* The page-mapping flash translation layer of the black-box SSD           *)
(* (femu/bbssd/ftl.c): the mapping table and its reverse, the status of    *)
(* every NAND page, the lines (super-blocks: block i of every LUN) and the *)
(* lists they move between, the write pointer, and garbage collection.     *)
(*                                                                         *)
(* All of it belongs to one thread, ftl_thread, modelled as a program      *)
(* counter `pc' that walks through ssd_write, do_gc and the background GC. *)
(* A write or a collection is many steps, so an invariant is checked also  *)
(* in the middle of a request, which is where abort() would end it.        *)
(*                                                                         *)
(* Left out: nand_block.erase_cnt and .wp, which no code reads, sector     *)
(* states (never changed), planes (pls_per_lun is 1), and the LUN busy     *)
(* times of ssd_advance_status, which no branch below depends on.          *)
(***************************************************************************)
EXTENDS Integers, Sequences, FiniteSets

CONSTANTS
  nchs, luns_per_ch, pgs_per_blk, \* geometry (struct ssdparams)
  tt_lines,                       \* blocks per plane: one line per block id
  gc_thres_lines,                 \* background GC at or below this many free
  gc_thres_lines_high,            \* forced GC at or below this many free
  victim_div,                     \* 8 in the code: share of invalid pages a
                                  \* line needs for background GC
  nlpns,                          \* logical pages the namespace exposes
  max_req_pgs,                    \* longest write request, in pages
  UNMAPPED_PPA, INVALID_LPN       \* the two ~0 markers

Lpns  == 0 .. nlpns - 1
Lines == 0 .. tt_lines - 1
Ppa   == [ch : 0 .. nchs - 1, lun : 0 .. luns_per_ch - 1,
          blk : Lines, pg : 0 .. pgs_per_blk - 1]
Block == [ch : 0 .. nchs - 1, lun : 0 .. luns_per_ch - 1, blk : Lines]

pgs_per_lun  == pgs_per_blk * tt_lines
pgs_per_ch   == pgs_per_lun * luns_per_ch
tt_pgs       == pgs_per_ch * nchs
pgs_per_line == nchs * luns_per_ch * pgs_per_blk

ASSUME GeometryAssumption ==
  /\ nchs \in Nat \ {0}
  /\ luns_per_ch \in Nat \ {0}
  /\ pgs_per_blk \in Nat \ {0}
  /\ tt_lines \in Nat \ {0}
  /\ nlpns \in Nat \ {0}
  /\ max_req_pgs \in Nat \ {0}
  /\ gc_thres_lines \in Nat
  /\ gc_thres_lines_high \in Nat
  /\ victim_div \in Nat \ {0}

ASSUME MarkerAssumption ==
  /\ UNMAPPED_PPA \notin Ppa
  /\ INVALID_LPN \notin Lpns

VARIABLES
  maptbl,           \* logical page -> physical page
  rmap,             \* index of a physical page -> logical page
  status,           \* nand_page.status
  blkcnt,           \* nand_block.{ipc, vpc}
  line,             \* struct line: ipc, vpc, and pos (0: not in the heap)
  free_line_list,   \* FIFO
  victim_line_pq,   \* lines in the priority queue (key: vpc)
  full_line_list,   \* its order is never read, so a set
  free_line_cnt, victim_line_cnt, full_line_cnt,
  wp,               \* write_pointer: ch, lun, pg, blk, curline
  lpn, end_lpn,     \* loop variables of ssd_write
  gc,               \* do_gc: caller, victim line, ch, lun and pg reached
  pc                \* where ftl_thread is

mapVars  == <<maptbl, rmap>>
nandVars == <<status, blkcnt>>
listVars == <<free_line_list, victim_line_pq, full_line_list,
              free_line_cnt, victim_line_cnt, full_line_cnt>>
reqVars  == <<lpn, end_lpn>>
vars     == <<mapVars, nandVars, line, listVars, wp, reqVars, gc, pc>>

-----------------------------------------------------------------------------
(* Addressing *)

\* Mutant: LUNs spaced by a block instead of a LUN.
ppa2pgidx_ShortLun(ppa) == ppa.ch * pgs_per_ch + ppa.lun * pgs_per_blk
                           + ppa.blk * pgs_per_blk + ppa.pg

ppa2pgidx(ppa) == ppa.ch * pgs_per_ch + ppa.lun * pgs_per_lun
                  + ppa.blk * pgs_per_blk + ppa.pg

get_blk(ppa) == [ch |-> ppa.ch, lun |-> ppa.lun, blk |-> ppa.blk]

mapped_ppa(ppa) == ppa # UNMAPPED_PPA

\* Mutant: the channel is not copied.
get_new_page_NoCh == [ch |-> 0, lun |-> wp.lun, blk |-> wp.blk, pg |-> wp.pg]

get_new_page == [ch |-> wp.ch, lun |-> wp.lun, blk |-> wp.blk, pg |-> wp.pg]

should_gc      == free_line_cnt <= gc_thres_lines
\* Mutant: strictly below the watermark.
should_gc_high_Late == free_line_cnt < gc_thres_lines_high

should_gc_high == free_line_cnt <= gc_thres_lines_high

-----------------------------------------------------------------------------
(* ssd_init: everything free, line 0 taken as the first line to write. *)

NoGc == [caller |-> "none", line |-> 0, ch |-> 0, lun |-> 0, pg |-> 0]

Init ==
  /\ maptbl = [l \in Lpns |-> UNMAPPED_PPA]
  /\ rmap = [i \in 0 .. tt_pgs - 1 |-> INVALID_LPN]
  /\ status = [p \in Ppa |-> "PG_FREE"]
  /\ blkcnt = [b \in Block |-> [ipc |-> 0, vpc |-> 0]]
  /\ line = [i \in Lines |-> [ipc |-> 0, vpc |-> 0, pos |-> 0]]
  /\ free_line_list = [i \in 1 .. tt_lines - 1 |-> i]
  /\ free_line_cnt = tt_lines - 1
  /\ victim_line_pq = {} /\ victim_line_cnt = 0
  /\ full_line_list = {} /\ full_line_cnt = 0
  /\ wp = [ch |-> 0, lun |-> 0, pg |-> 0, blk |-> 0, curline |-> 0]
  /\ lpn = 0 /\ end_lpn = 0
  /\ gc = NoGc
  /\ pc = "dequeue"

-----------------------------------------------------------------------------
(* ftl_thread takes a request. Only a write changes FTL state; a read, a   *)
(* DSM and any other opcode go straight to the background GC check that    *)
(* follows every request.                                                  *)

DequeueWrite(s, e) ==
  /\ pc = "dequeue"
  /\ s <= e /\ e - s < max_req_pgs
  /\ lpn' = s /\ end_lpn' = e
  /\ pc' = "gc_high"
  /\ UNCHANGED <<mapVars, nandVars, line, listVars, wp, gc>>

DequeueOther ==
  /\ pc = "dequeue"
  /\ pc' = "bg_gc"
  /\ UNCHANGED <<mapVars, nandVars, line, listVars, wp, reqVars, gc>>

-----------------------------------------------------------------------------
(* do_gc: pick a victim, then clean it block by block, page by page. *)

\* pqueue_peek: some line with the fewest valid pages.
Peek(v) ==
  /\ v \in victim_line_pq
  /\ \A u \in victim_line_pq : line[v].vpc <= line[u].vpc

\* Mutant: victim_line->pos = 0 is missing.
select_victim_line_KeepPos(v, force) ==
  /\ Peek(v)
  /\ force \/ line[v].ipc >= pgs_per_line \div victim_div
  /\ victim_line_pq' = victim_line_pq \ {v}
  /\ victim_line_cnt' = victim_line_cnt - 1
  /\ UNCHANGED <<line, free_line_list, full_line_list,
                 free_line_cnt, full_line_cnt>>

select_victim_line(v, force) ==
  /\ Peek(v)
  /\ force \/ line[v].ipc >= pgs_per_line \div victim_div
  /\ victim_line_pq' = victim_line_pq \ {v}
  /\ line' = [line EXCEPT ![v].pos = 0]
  /\ victim_line_cnt' = victim_line_cnt - 1
  /\ UNCHANGED <<free_line_list, full_line_list, free_line_cnt, full_line_cnt>>

StartGc(v, caller) ==
  /\ select_victim_line(v, caller = "gc_high")
  /\ gc' = [NoGc EXCEPT !.caller = caller, !.line = v]
  /\ pc' = "clean"
  /\ UNCHANGED <<mapVars, nandVars, wp, reqVars>>

\* The loop at the head of ssd_write.
ForcedGc(v) ==
  /\ pc = "gc_high"
  /\ should_gc_high
  /\ StartGc(v, "gc_high")

ForcedGcDone ==
  /\ pc = "gc_high"
  /\ ~should_gc_high \/ victim_line_pq = {}
  /\ pc' = "lpn"
  /\ UNCHANGED <<mapVars, nandVars, line, listVars, wp, reqVars, gc>>

\* One call after each request.
BackgroundGc(v) ==
  /\ pc = "bg_gc"
  /\ should_gc
  /\ StartGc(v, "bg_gc")

NoBackgroundGc ==
  /\ pc = "bg_gc"
  /\ \/ ~should_gc
     \/ victim_line_pq = {}
     \/ \E v \in victim_line_pq :
          Peek(v) /\ line[v].ipc < pgs_per_line \div victim_div
  /\ pc' = "dequeue"
  /\ UNCHANGED <<mapVars, nandVars, line, listVars, wp, reqVars, gc>>

GcPage == [ch |-> gc.ch, lun |-> gc.lun, blk |-> gc.line, pg |-> gc.pg]

mark_page_valid(ppa) ==
  /\ status' = [status EXCEPT ![ppa] = "PG_VALID"]
  /\ blkcnt' = [blkcnt EXCEPT ![get_blk(ppa)].vpc = @ + 1]
  /\ line' = [line EXCEPT ![ppa.blk].vpc = @ + 1]

\* set_maptbl_ent, set_rmap_ent, mark_page_valid on the page the write
\* pointer is at; the caller's next step is ssd_advance_write_pointer.
Program(l) ==
  /\ maptbl' = [maptbl EXCEPT ![l] = get_new_page]
  /\ rmap' = [rmap EXCEPT ![ppa2pgidx(get_new_page)] = l]
  /\ mark_page_valid(get_new_page)
  /\ pc' = "advance"
  /\ UNCHANGED <<listVars, wp, reqVars, gc>>

\* The page keeps its status and its rmap entry until its block is erased.
gc_write_page ==
  /\ pc = "clean"
  /\ gc.ch < nchs /\ gc.pg < pgs_per_blk
  /\ status[GcPage] = "PG_VALID"
  /\ Program(rmap[ppa2pgidx(GcPage)])

\* Mutant: the page index moves on only after a copy.
SkipPage_Stuck ==
  /\ pc = "clean"
  /\ gc.ch < nchs /\ gc.pg < pgs_per_blk
  /\ status[GcPage] # "PG_VALID"
  /\ UNCHANGED vars

SkipPage ==
  /\ pc = "clean"
  /\ gc.ch < nchs /\ gc.pg < pgs_per_blk
  /\ status[GcPage] # "PG_VALID"
  /\ gc' = [gc EXCEPT !.pg = @ + 1]
  /\ UNCHANGED <<mapVars, nandVars, line, listVars, wp, reqVars, pc>>

\* Mutant: the loop over LUNs stops one short.
mark_block_free_FewLuns ==
  LET b == [ch |-> gc.ch, lun |-> gc.lun, blk |-> gc.line]
  IN
  /\ pc = "clean"
  /\ gc.ch < nchs /\ gc.pg = pgs_per_blk
  /\ status' = [p \in Ppa |-> IF get_blk(p) = b THEN "PG_FREE" ELSE status[p]]
  /\ blkcnt' = [blkcnt EXCEPT ![b] = [ipc |-> 0, vpc |-> 0]]
  /\ gc' = IF gc.lun + 2 < luns_per_ch
           THEN [gc EXCEPT !.lun = @ + 1, !.pg = 0]
           ELSE [gc EXCEPT !.ch = @ + 1, !.lun = 0, !.pg = 0]
  /\ UNCHANGED <<mapVars, line, listVars, wp, reqVars, pc>>

\* Erase the block and go to the next: LUNs within channels.
mark_block_free ==
  LET b == [ch |-> gc.ch, lun |-> gc.lun, blk |-> gc.line]
  IN
  /\ pc = "clean"
  /\ gc.ch < nchs /\ gc.pg = pgs_per_blk
  /\ status' = [p \in Ppa |-> IF get_blk(p) = b THEN "PG_FREE" ELSE status[p]]
  /\ blkcnt' = [blkcnt EXCEPT ![b] = [ipc |-> 0, vpc |-> 0]]
  /\ gc' = IF gc.lun + 1 < luns_per_ch
           THEN [gc EXCEPT !.lun = @ + 1, !.pg = 0]
           ELSE [gc EXCEPT !.ch = @ + 1, !.lun = 0, !.pg = 0]
  /\ UNCHANGED <<mapVars, line, listVars, wp, reqVars, pc>>

\* Mutant: line->ipc and line->vpc keep the counts of the erased pages.
mark_line_free_KeepCounts ==
  /\ pc = "clean"
  /\ gc.ch = nchs
  /\ free_line_list' = Append(free_line_list, gc.line)
  /\ free_line_cnt' = free_line_cnt + 1
  /\ gc' = NoGc
  /\ pc' = IF gc.caller = "gc_high" THEN "gc_high" ELSE "dequeue"
  /\ UNCHANGED <<mapVars, nandVars, line, victim_line_pq, full_line_list,
                 victim_line_cnt, full_line_cnt, wp, reqVars>>

\* Mutant: free_line_cnt++ is missing.
mark_line_free_NotCounted ==
  /\ pc = "clean"
  /\ gc.ch = nchs
  /\ line' = [line EXCEPT ![gc.line] = [ipc |-> 0, vpc |-> 0, pos |-> @.pos]]
  /\ free_line_list' = Append(free_line_list, gc.line)
  /\ gc' = NoGc
  /\ pc' = IF gc.caller = "gc_high" THEN "gc_high" ELSE "dequeue"
  /\ UNCHANGED <<mapVars, nandVars, victim_line_pq, full_line_list,
                 free_line_cnt, victim_line_cnt, full_line_cnt, wp, reqVars>>

mark_line_free ==
  /\ pc = "clean"
  /\ gc.ch = nchs
  /\ line' = [line EXCEPT ![gc.line] = [ipc |-> 0, vpc |-> 0, pos |-> @.pos]]
  /\ free_line_list' = Append(free_line_list, gc.line)
  /\ free_line_cnt' = free_line_cnt + 1
  /\ gc' = NoGc
  /\ pc' = IF gc.caller = "gc_high" THEN "gc_high" ELSE "dequeue"
  /\ UNCHANGED <<mapVars, nandVars, victim_line_pq, full_line_list,
                 victim_line_cnt, full_line_cnt, wp, reqVars>>

-----------------------------------------------------------------------------
(* The loop of ssd_write over the pages of the request. *)

\* Mutant: was_full_line is tested after the decrement, so never true.
mark_page_invalid_LateTest(ppa) ==
  /\ status' = [status EXCEPT ![ppa] = "PG_INVALID"]
  /\ blkcnt' = [blkcnt EXCEPT ![get_blk(ppa)] =
                  [ipc |-> @.ipc + 1, vpc |-> @.vpc - 1]]
  /\ line' = [line EXCEPT ![ppa.blk] =
                [ipc |-> @.ipc + 1, vpc |-> @.vpc - 1, pos |-> @.pos]]
  /\ UNCHANGED listVars

mark_page_invalid(ppa) ==
  LET l == ppa.blk
      was_full_line == line[l].vpc = pgs_per_line
  IN
  /\ status' = [status EXCEPT ![ppa] = "PG_INVALID"]
  /\ blkcnt' = [blkcnt EXCEPT ![get_blk(ppa)] =
                  [ipc |-> @.ipc + 1, vpc |-> @.vpc - 1]]
  \* pqueue_change_priority and line->vpc-- both leave vpc - 1
  /\ line' = [line EXCEPT ![l] =
                [ipc |-> @.ipc + 1, vpc |-> @.vpc - 1,
                 pos |-> IF was_full_line THEN 1 ELSE @.pos]]
  /\ IF was_full_line
     THEN /\ full_line_list' = full_line_list \ {l}
          /\ full_line_cnt' = full_line_cnt - 1
          /\ victim_line_pq' = victim_line_pq \cup {l}
          /\ victim_line_cnt' = victim_line_cnt + 1
     ELSE UNCHANGED <<full_line_list, full_line_cnt,
                      victim_line_pq, victim_line_cnt>>
  /\ UNCHANGED <<free_line_list, free_line_cnt>>

InvalidateOld ==
  /\ pc = "lpn"
  /\ lpn <= end_lpn
  /\ mapped_ppa(maptbl[lpn])
  /\ mark_page_invalid(maptbl[lpn])
  /\ rmap' = [rmap EXCEPT ![ppa2pgidx(maptbl[lpn])] = INVALID_LPN]
  /\ pc' = "program"
  /\ UNCHANGED <<maptbl, wp, reqVars, gc>>

FirstWrite ==
  /\ pc = "lpn"
  /\ lpn <= end_lpn
  /\ ~mapped_ppa(maptbl[lpn])
  /\ pc' = "program"
  /\ UNCHANGED <<mapVars, nandVars, line, listVars, wp, reqVars, gc>>

WritePage ==
  /\ pc = "program"
  /\ Program(lpn)

WriteDone ==
  /\ pc = "lpn"
  /\ lpn > end_lpn
  /\ pc' = "bg_gc"
  /\ UNCHANGED <<mapVars, nandVars, line, listVars, wp, reqVars, gc>>

-----------------------------------------------------------------------------
(* ssd_advance_write_pointer: channel first, then LUN, then page. *)

\* Back in the caller: the next page of the victim, or of the request.
Continue ==
  IF gc.caller # "none"
  THEN /\ gc' = [gc EXCEPT !.pg = @ + 1]
       /\ pc' = "clean"
       /\ UNCHANGED reqVars
  ELSE /\ lpn' = lpn + 1
       /\ pc' = "lpn"
       /\ UNCHANGED <<end_lpn, gc>>

LastPageOfLine ==
  wp.ch + 1 = nchs /\ wp.lun + 1 = luns_per_ch /\ wp.pg + 1 = pgs_per_blk

AdvanceInLine ==
  /\ pc = "advance"
  /\ ~LastPageOfLine
  /\ wp' = IF wp.ch + 1 < nchs
           THEN [wp EXCEPT !.ch = @ + 1]
           ELSE IF wp.lun + 1 < luns_per_ch
                THEN [wp EXCEPT !.ch = 0, !.lun = @ + 1]
                ELSE [wp EXCEPT !.ch = 0, !.lun = 0, !.pg = @ + 1]
  /\ Continue
  /\ UNCHANGED <<mapVars, nandVars, line, listVars>>

\* The line is used up: to the full list or to the heap, and on to the
\* first free line.
AdvanceToNextLine ==
  LET l == wp.curline
      next == Head(free_line_list)
  IN
  /\ pc = "advance"
  /\ LastPageOfLine
  /\ free_line_list # <<>>
  /\ IF line[l].vpc = pgs_per_line
     THEN /\ full_line_list' = full_line_list \cup {l}
          /\ full_line_cnt' = full_line_cnt + 1
          /\ UNCHANGED <<line, victim_line_pq, victim_line_cnt>>
     ELSE /\ victim_line_pq' = victim_line_pq \cup {l}
          /\ victim_line_cnt' = victim_line_cnt + 1
          /\ line' = [line EXCEPT ![l].pos = 1]
          /\ UNCHANGED <<full_line_list, full_line_cnt>>
  /\ free_line_list' = Tail(free_line_list)
  /\ free_line_cnt' = free_line_cnt - 1
  /\ wp' = [ch |-> 0, lun |-> 0, pg |-> 0, blk |-> next, curline |-> next]
  /\ Continue
  /\ UNCHANGED <<mapVars, nandVars>>

\* get_next_free_line returned NULL: abort() ends the process.
AdvanceAbort ==
  /\ pc = "advance"
  /\ LastPageOfLine
  /\ free_line_list = <<>>
  /\ pc' = "abort"
  /\ UNCHANGED <<mapVars, nandVars, line, listVars, wp, reqVars, gc>>

-----------------------------------------------------------------------------

CollectStep ==
  \/ \E v \in victim_line_pq : ForcedGc(v) \/ BackgroundGc(v)
  \/ ForcedGcDone \/ NoBackgroundGc
  \/ gc_write_page \/ SkipPage \/ mark_block_free \/ mark_line_free

WriteStep == InvalidateOld \/ FirstWrite \/ WritePage \/ WriteDone

AdvanceStep == AdvanceInLine \/ AdvanceToNextLine \/ AdvanceAbort

\* Everything ftl_thread does between two requests' dequeues.
Step == CollectStep \/ WriteStep \/ AdvanceStep

Next ==
  \/ \E s, e \in Lpns : DequeueWrite(s, e)
  \/ DequeueOther
  \/ Step

\* The thread is a polling loop that never blocks; requests need not come.
Spec == Init /\ [][Next]_vars /\ WF_vars(Step)

-----------------------------------------------------------------------------
(* Correctness *)

PcTypes == {"dequeue", "gc_high", "lpn", "program", "advance", "clean",
            "bg_gc", "abort"}

LineState == [ipc : Int, vpc : Int, pos : {0, 1}]

WpState == [ch : 0 .. nchs - 1, lun : 0 .. luns_per_ch - 1,
            pg : 0 .. pgs_per_blk - 1, blk : Lines, curline : Lines]

GcState == [caller : {"none", "gc_high", "bg_gc"}, line : Lines,
            ch : 0 .. nchs, lun : 0 .. luns_per_ch - 1,
            pg : 0 .. pgs_per_blk]

(* Types: every address is inside the geometry, every LPN inside the       *)
(* namespace, and do_gc's loop variables stay within their loop bounds.    *)
TypeOK ==
  /\ maptbl \in [Lpns -> Ppa \cup {UNMAPPED_PPA}]
  /\ rmap \in [0 .. tt_pgs - 1 -> Lpns \cup {INVALID_LPN}]
  /\ status \in [Ppa -> {"PG_FREE", "PG_INVALID", "PG_VALID"}]
  /\ blkcnt \in [Block -> [ipc : Int, vpc : Int]]
  /\ line \in [Lines -> LineState]
  /\ free_line_list \in Seq(Lines)
  /\ victim_line_pq \in SUBSET Lines
  /\ full_line_list \in SUBSET Lines
  /\ free_line_cnt \in Int
  /\ victim_line_cnt \in Int
  /\ full_line_cnt \in Int
  /\ wp \in WpState
  /\ lpn \in 0 .. nlpns
  /\ end_lpn \in Lpns
  /\ gc \in GcState
  /\ pc \in PcTypes

InGc == gc.caller # "none"

\* The LPN whose old page was just invalidated and whose new one is not
\* programmed yet.
InFlight(l) == pc = "program" /\ l = lpn

\* The page under the write pointer is written, the pointer not yet advanced.
Programmed == pc \in {"advance", "abort"}

\* Pages of the victim line do_gc has already copied (their rmap entries are
\* stale until the page is written again) and blocks it has erased.
ErasedByGc(p) ==
  /\ InGc
  /\ p.blk = gc.line
  /\ p.ch < gc.ch \/ (p.ch = gc.ch /\ p.lun < gc.lun)

CopiedByGc(p) ==
  /\ InGc
  /\ p.blk = gc.line /\ p.ch = gc.ch /\ p.lun = gc.lun
  /\ p.pg < gc.pg \/ (p.pg = gc.pg /\ Programmed)

(* The forward and the reverse map agree in the middle of requests and     *)
(* collections alike. A mapped LPN (other than the one being rewritten)    *)
(* sits on a valid page whose rmap entry is that LPN, so that no two LPNs  *)
(* share a page; and a valid page that GC has not copied yet is the page   *)
(* of the LPN in its rmap entry, so that gc_write_page never moves an LPN  *)
(* to which the page no longer belongs.                                    *)
MapForward ==
  \A l \in Lpns :
    mapped_ppa(maptbl[l]) /\ ~InFlight(l) =>
      /\ status[maptbl[l]] = "PG_VALID"
      /\ rmap[ppa2pgidx(maptbl[l])] = l
MapReverse ==
  \A p \in Ppa :
    status[p] = "PG_VALID" /\ ~CopiedByGc(p) =>
      /\ rmap[ppa2pgidx(p)] \in Lpns
      /\ maptbl[rmap[ppa2pgidx(p)]] = p
MapConsistent == MapForward /\ MapReverse

\* Pages of the current line the write pointer has passed (the page under
\* it too while the pointer is about to advance).
Written(p) ==
  \/ p.pg < wp.pg
  \/ p.pg = wp.pg /\ p.lun < wp.lun
  \/ p.pg = wp.pg /\ p.lun = wp.lun /\ p.ch < wp.ch
  \/ p.pg = wp.pg /\ p.lun = wp.lun /\ p.ch = wp.ch /\ Programmed

FreeLines == {free_line_list[i] : i \in DOMAIN free_line_list}

(* Exactly the pages of free lines, the unwritten rest of the current line *)
(* and the blocks GC has erased are PG_FREE: the write pointer always      *)
(* stands on an erased page (mark_page_valid's assertion) and GC meets no  *)
(* free page in a victim (clean_one_block's).                              *)
ErasedExactly ==
  \A p \in Ppa :
    status[p] = "PG_FREE" <=>
      \/ p.blk \in FreeLines
      \/ p.blk = wp.curline /\ ~Written(p)
      \/ ErasedByGc(p)

(* Every line is in exactly one place: the free list (once), the victim    *)
(* heap, the full list, under the write pointer, or being collected; the   *)
(* three counters are the sizes of the three lists, and line->pos is set   *)
(* exactly for the lines in the heap.                                      *)
LinesPartition ==
  /\ \A i, j \in DOMAIN free_line_list :
       free_line_list[i] = free_line_list[j] => i = j
  /\ FreeLines \cap victim_line_pq = {}
  /\ FreeLines \cap full_line_list = {}
  /\ victim_line_pq \cap full_line_list = {}
  /\ wp.curline \notin FreeLines \cup victim_line_pq \cup full_line_list
  /\ wp.blk = wp.curline
  /\ InGc => /\ gc.line \notin FreeLines \cup victim_line_pq \cup full_line_list
             /\ gc.line # wp.curline
  /\ Lines = FreeLines \cup victim_line_pq \cup full_line_list
             \cup {wp.curline} \cup (IF InGc THEN {gc.line} ELSE {})
  /\ \A l \in Lines : line[l].pos = 1 <=> l \in victim_line_pq

CountersMatchLists ==
  /\ free_line_cnt = Len(free_line_list)
  /\ victim_line_cnt = Cardinality(victim_line_pq)
  /\ full_line_cnt = Cardinality(full_line_list)

Pages(st, l) == {p \in Ppa : p.blk = l /\ status[p] = st}

(* The cached page counts are the true ones: of every block at all times,  *)
(* of every line but the victim being cleaned. They decide where a line    *)
(* goes and which victim GC takes.                                         *)
CountsExact ==
  /\ \A l \in Lines :
       ~(InGc /\ l = gc.line) =>
         /\ line[l].vpc = Cardinality(Pages("PG_VALID", l))
         /\ line[l].ipc = Cardinality(Pages("PG_INVALID", l))
  /\ \A b \in Block :
       /\ blkcnt[b].vpc =
            Cardinality({p \in Pages("PG_VALID", b.blk) : get_blk(p) = b})
       /\ blkcnt[b].ipc =
            Cardinality({p \in Pages("PG_INVALID", b.blk) : get_blk(p) = b})

(* A full line has only valid pages and every line in the victim heap at   *)
(* least one invalid page: mark_page_invalid recognises a full line by     *)
(* vpc = pgs_per_line alone, and a forced GC of a victim always gains a    *)
(* page.                                                                   *)
VictimsWorthCleaning ==
  /\ \A l \in full_line_list : line[l].ipc = 0 /\ line[l].vpc = pgs_per_line
  /\ \A l \in victim_line_pq :
       line[l].ipc > 0 /\ line[l].ipc + line[l].vpc = pgs_per_line

(* ssd_advance_write_pointer never runs out of free lines, provided that   *)
(* the spare area is at least the high watermark and one more line, a      *)
(* request is at most a line long and the high watermark at least a line.  *)
NoAbort == pc # "abort"

(* Out-of-place update: a logical page moves only to an erased page, and   *)
(* while GC runs only logical pages of the victim line move.               *)
RemapOnlyToErased ==
  [][\A l \in Lpns : maptbl'[l] # maptbl[l] =>
       /\ maptbl'[l] \in Ppa
       /\ status[maptbl'[l]] = "PG_FREE"
       /\ InGc => maptbl[l] # UNMAPPED_PPA /\ maptbl[l].blk = gc.line]_vars

(* Every request ftl_thread takes is finished, unless the process aborts:  *)
(* the forced-GC loop at the head of ssd_write ends, as does every         *)
(* collection.                                                             *)
RequestCompletes == pc # "dequeue" ~> pc \in {"dequeue", "abort"}

-----------------------------------------------------------------------------
(* The inductive invariant: the properties above, and what links them. *)

\* Pages written in the current line so far.
WpIndex == (wp.pg * luns_per_ch + wp.lun) * nchs + wp.ch

\* Invalid and valid pages of a line always add up to its written pages.
LineSums ==
  /\ \A l \in FreeLines : line[l].ipc = 0 /\ line[l].vpc = 0
  /\ line[wp.curline].ipc >= 0
  /\ line[wp.curline].ipc + line[wp.curline].vpc =
       WpIndex + (IF Programmed THEN 1 ELSE 0)
  /\ VictimsWorthCleaning

\* Where the thread is, and what it holds there.
Control ==
  /\ pc = "clean" => InGc
  /\ pc \in {"dequeue", "gc_high", "lpn", "program", "bg_gc"} => ~InGc
  /\ pc = "program" => lpn <= end_lpn
  /\ Programmed /\ ~InGc => lpn <= end_lpn
  /\ Programmed /\ InGc => gc.ch < nchs /\ gc.pg < pgs_per_blk
  /\ ~InGc => gc = NoGc

\* The in-flight LPN has left its old page; nothing GC copied is mapped.
Moved ==
  /\ \A l \in Lpns : InFlight(l) /\ mapped_ppa(maptbl[l]) =>
       status[maptbl[l]] = "PG_INVALID"
  /\ \A l \in Lpns : mapped_ppa(maptbl[l]) => ~CopiedByGc(maptbl[l])

(* The facts above together are preserved by every step of ftl_thread.     *)
FtlInv ==
  /\ TypeOK /\ Control
  /\ MapConsistent /\ Moved
  /\ ErasedExactly
  /\ LinesPartition /\ CountersMatchLists /\ LineSums

=============================================================================
