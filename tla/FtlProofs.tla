------------------------------ MODULE FtlProofs ------------------------------
(***************************************************************************)
(* Proofs that the FTL keeps its maps, its page states and its line lists  *)
(* consistent, for every geometry, threshold and namespace size. The       *)
(* argument is the inductive invariant FtlInv of module Ftl, shown to be   *)
(* preserved action by action. From FtlInv, that the page counts are       *)
(* exact; and from both, with the invariant Room, that a device with       *)
(* enough spare area never runs out of free lines.                         *)
(***************************************************************************)
EXTENDS Ftl, FiniteSetTheorems, TLAPS

-----------------------------------------------------------------------------
(* Arithmetic of addresses *)

(* One digit of a mixed-radix number is determined by the number.          *)
LEMMA DigitUnique ==
  ASSUME NEW n \in Nat \ {0}, NEW a \in Int, NEW b \in Int,
         NEW r \in 0 .. n - 1, NEW s \in 0 .. n - 1,
         a * n + r = b * n + s
  PROVE  a = b /\ r = s
<1>1. CASE a < b
  <2>1. b = a + 1 + (b - a - 1) /\ b - a - 1 \in Nat
    BY <1>1
  <2>2. PICK k \in Nat : b = a + 1 + k
    BY <2>1
  <2>3. b * n = a * n + n + k * n
    BY <2>2
  <2>4. k * n >= 0
    OBVIOUS
  <2>. QED
    BY <2>3, <2>4
<1>2. CASE b < a
  <2>1. a = b + 1 + (a - b - 1) /\ a - b - 1 \in Nat
    BY <1>2
  <2>2. PICK k \in Nat : a = b + 1 + k
    BY <2>1
  <2>3. a * n = b * n + n + k * n
    BY <2>2
  <2>4. k * n >= 0
    OBVIOUS
  <2>. QED
    BY <2>3, <2>4
<1>3. CASE a = b
  BY <1>3
<1>. QED
  BY <1>1, <1>2, <1>3

(* Appending a digit r < n to a number a < m gives a number below m * n.   *)
LEMMA DigitRange ==
  ASSUME NEW n \in Nat \ {0}, NEW m \in Nat \ {0},
         NEW a \in 0 .. m - 1, NEW r \in 0 .. n - 1
  PROVE  a * n + r \in 0 .. m * n - 1
<1>1. PICK k \in Nat : m = a + 1 + k
  <2>1. m - a - 1 \in Nat /\ m = a + 1 + (m - a - 1)
    OBVIOUS
  <2>. QED BY <2>1
<1>2. m * n = a * n + n + k * n
  BY <1>1
<1>3. k * n >= 0 /\ a * n >= 0 /\ k * n \in Int /\ a * n \in Int
  OBVIOUS
<1>. QED
  BY <1>2, <1>3

(* ppa2pgidx maps the physical pages one to one into the reverse map.      *)
LEMMA PgidxInjective ==
  /\ \A p \in Ppa : ppa2pgidx(p) \in 0 .. tt_pgs - 1
  /\ \A p, q \in Ppa : ppa2pgidx(p) = ppa2pgidx(q) => p = q
<1> DEFINE D1(p) == p.ch * luns_per_ch + p.lun
           D2(p) == D1(p) * tt_lines + p.blk
           D3(p) == D2(p) * pgs_per_blk + p.pg
<1> USE GeometryAssumption
<1>1. ASSUME NEW p \in Ppa
      PROVE  /\ p.ch \in 0 .. nchs - 1 /\ p.lun \in 0 .. luns_per_ch - 1
             /\ p.blk \in 0 .. tt_lines - 1 /\ p.pg \in 0 .. pgs_per_blk - 1
             /\ D1(p) \in 0 .. nchs * luns_per_ch - 1
             /\ D2(p) \in 0 .. (nchs * luns_per_ch) * tt_lines - 1
             /\ D3(p) \in 0 .. ((nchs * luns_per_ch) * tt_lines) * pgs_per_blk - 1
             /\ ppa2pgidx(p) = D3(p)
  <2>1. /\ p.ch \in 0 .. nchs - 1 /\ p.lun \in 0 .. luns_per_ch - 1
        /\ p.blk \in 0 .. tt_lines - 1 /\ p.pg \in 0 .. pgs_per_blk - 1
    BY DEF Ppa, Lines
  <2>2. nchs * luns_per_ch \in Nat \ {0}
    OBVIOUS
  <2>3. (nchs * luns_per_ch) * tt_lines \in Nat \ {0}
    BY <2>2
  <2>4. D1(p) \in 0 .. nchs * luns_per_ch - 1
    BY <2>1, DigitRange
  <2>5. D2(p) \in 0 .. (nchs * luns_per_ch) * tt_lines - 1
    BY <2>1, <2>2, <2>4, DigitRange
  <2>6. D3(p) \in 0 .. ((nchs * luns_per_ch) * tt_lines) * pgs_per_blk - 1
    BY <2>1, <2>3, <2>5, DigitRange
  <2>7. ppa2pgidx(p) = D3(p)
    <3>1. D3(p) = p.ch * luns_per_ch * tt_lines * pgs_per_blk
                  + p.lun * tt_lines * pgs_per_blk
                  + p.blk * pgs_per_blk + p.pg
      BY <2>1
    <3>2. /\ p.ch * pgs_per_ch = p.ch * luns_per_ch * tt_lines * pgs_per_blk
          /\ p.lun * pgs_per_lun = p.lun * tt_lines * pgs_per_blk
      BY <2>1 DEF pgs_per_ch, pgs_per_lun
    <3>. QED
      BY <3>1, <3>2 DEF ppa2pgidx
  <2>. QED
    BY <2>1, <2>4, <2>5, <2>6, <2>7
<1>2. tt_pgs = ((nchs * luns_per_ch) * tt_lines) * pgs_per_blk
  BY DEF tt_pgs, pgs_per_ch, pgs_per_lun
<1>3. ASSUME NEW p \in Ppa PROVE ppa2pgidx(p) \in 0 .. tt_pgs - 1
  BY <1>1, <1>2
<1>4. ASSUME NEW p \in Ppa, NEW q \in Ppa, ppa2pgidx(p) = ppa2pgidx(q)
      PROVE  p = q
  <2>1. D3(p) = D3(q)
    BY <1>1, <1>4
  <2>2. /\ p.ch \in Int /\ q.ch \in Int
        /\ p.lun \in 0 .. luns_per_ch - 1 /\ q.lun \in 0 .. luns_per_ch - 1
        /\ p.blk \in 0 .. tt_lines - 1 /\ q.blk \in 0 .. tt_lines - 1
        /\ p.pg \in 0 .. pgs_per_blk - 1 /\ q.pg \in 0 .. pgs_per_blk - 1
    BY <1>1
  <2>3. PICK x \in Int : x = D1(p)
    BY <2>2
  <2>4. PICK y \in Int : y = D1(q)
    BY <2>2
  <2>5. PICK u \in Int : u = D2(p)
    BY <2>2, <2>3
  <2>6. PICK v \in Int : v = D2(q)
    BY <2>2, <2>4
  <2> HIDE DEF D1, D2
  <2>7. u * pgs_per_blk + p.pg = v * pgs_per_blk + q.pg
    BY <2>1, <2>5, <2>6
  <2>8. u = v /\ p.pg = q.pg
    BY ONLY GeometryAssumption, <2>2, u \in Int, v \in Int, <2>7, DigitUnique
  <2>9. x * tt_lines + p.blk = y * tt_lines + q.blk
    BY <2>3, <2>4, <2>5, <2>6, <2>8 DEF D2
  <2>10. x = y /\ p.blk = q.blk
    BY ONLY GeometryAssumption, <2>2, x \in Int, y \in Int, <2>9, DigitUnique
  <2>11. p.ch * luns_per_ch + p.lun = q.ch * luns_per_ch + q.lun
    BY <2>3, <2>4, <2>10 DEF D1
  <2>12. p.ch = q.ch /\ p.lun = q.lun
    <3>1. PICK c \in Int : c = p.ch
      BY <2>2
    <3>2. PICK d \in Int : d = q.ch
      BY <2>2
    <3>3. c * luns_per_ch + p.lun = d * luns_per_ch + q.lun
      BY <2>11, <3>1, <3>2
    <3>4. c = d /\ p.lun = q.lun
      <4>1. /\ luns_per_ch \in Nat \ {0}
            /\ p.lun \in 0 .. luns_per_ch - 1 /\ q.lun \in 0 .. luns_per_ch - 1
        BY <2>2
      <4>. QED
        BY ONLY <4>1, c \in Int, d \in Int, <3>3, DigitUnique
    <3>. QED
      BY <3>1, <3>2, <3>4
  <2>. QED
    BY <2>8, <2>10, <2>12 DEF Ppa
<1>. QED
  BY <1>3, <1>4

-----------------------------------------------------------------------------
(* Lines *)

(* There are finitely many lines, so the list counters can be sizes of     *)
(* sets.                                                                   *)
LEMMA LinesFinite == \A S \in SUBSET Lines : IsFiniteSet(S)
<1>1. IsFiniteSet(Lines)
  BY FS_Interval, GeometryAssumption DEF Lines
<1>. QED
  BY <1>1, FS_Subset

(* Taking the head of a free list without repetitions.                     *)
LEMMA FreeListTail ==
  ASSUME NEW s \in Seq(Lines), s # <<>>,
         \A i, j \in DOMAIN s : s[i] = s[j] => i = j
  PROVE  /\ Tail(s) \in Seq(Lines)
         /\ Len(Tail(s)) = Len(s) - 1
         /\ Head(s) \in Lines
         /\ Head(s) \in {s[i] : i \in DOMAIN s}
         /\ {Tail(s)[i] : i \in DOMAIN Tail(s)}
              = {s[i] : i \in DOMAIN s} \ {Head(s)}
         /\ \A i, j \in DOMAIN Tail(s) : Tail(s)[i] = Tail(s)[j] => i = j
<1>1. /\ Len(s) \in Nat /\ Len(s) > 0 /\ DOMAIN s = 1 .. Len(s)
      /\ Head(s) = s[1]
      /\ Tail(s) \in Seq(Lines) /\ Len(Tail(s)) = Len(s) - 1
      /\ DOMAIN Tail(s) = 1 .. Len(s) - 1
      /\ \A i \in 1 .. Len(s) - 1 : Tail(s)[i] = s[i + 1]
  OBVIOUS
<1>2. \A i \in DOMAIN s : s[i] # Head(s) => i - 1 \in DOMAIN Tail(s) /\ s[i] = Tail(s)[i - 1]
  BY <1>1
<1>3. \A i \in DOMAIN Tail(s) : i + 1 \in DOMAIN s /\ Tail(s)[i] = s[i + 1] /\ s[i + 1] # Head(s)
  BY <1>1
<1>4. {Tail(s)[i] : i \in DOMAIN Tail(s)} = {s[i] : i \in DOMAIN s} \ {Head(s)}
  <2>1. ASSUME NEW x \in {Tail(s)[i] : i \in DOMAIN Tail(s)}
        PROVE  x \in {s[i] : i \in DOMAIN s} /\ x # Head(s)
    <3>1. PICK i \in DOMAIN Tail(s) : x = Tail(s)[i]
      OBVIOUS
    <3>. QED
      BY <3>1, <1>3
  <2>2. ASSUME NEW x \in {s[i] : i \in DOMAIN s}, x # Head(s)
        PROVE  x \in {Tail(s)[i] : i \in DOMAIN Tail(s)}
    <3>1. PICK i \in DOMAIN s : x = s[i]
      OBVIOUS
    <3>. QED
      BY <2>2, <3>1, <1>2
  <2>. QED
    BY <2>1, <2>2
<1>5. \A i, j \in DOMAIN Tail(s) : Tail(s)[i] = Tail(s)[j] => i = j
  BY <1>1, <1>3
<1>6. 1 \in DOMAIN s /\ s[1] \in Lines
  BY <1>1
<1>7. Head(s) \in Lines /\ Head(s) \in {s[i] : i \in DOMAIN s}
  BY <1>1, <1>6
<1>. QED
  BY <1>1, <1>4, <1>5, <1>7

(* Appending a new line to the free list.                                  *)
LEMMA FreeListAppend ==
  ASSUME NEW s \in Seq(Lines), NEW l \in Lines,
         l \notin {s[i] : i \in DOMAIN s},
         \A i, j \in DOMAIN s : s[i] = s[j] => i = j
  PROVE  /\ Append(s, l) \in Seq(Lines)
         /\ Len(Append(s, l)) = Len(s) + 1
         /\ {Append(s, l)[i] : i \in DOMAIN Append(s, l)}
              = {s[i] : i \in DOMAIN s} \cup {l}
         /\ \A i, j \in DOMAIN Append(s, l) :
              Append(s, l)[i] = Append(s, l)[j] => i = j
<1>1. /\ Len(s) \in Nat /\ DOMAIN s = 1 .. Len(s)
      /\ Append(s, l) \in Seq(Lines) /\ Len(Append(s, l)) = Len(s) + 1
      /\ DOMAIN Append(s, l) = 1 .. Len(s) + 1
      /\ \A i \in 1 .. Len(s) : Append(s, l)[i] = s[i]
      /\ Append(s, l)[Len(s) + 1] = l
  OBVIOUS
<1>. QED
  BY <1>1

-----------------------------------------------------------------------------
(* Steps that only move the program counter or start a request *)

(* A step that changes at most the program counter and the loop variables  *)
(* of ssd_write keeps the invariant, provided that it neither programs a   *)
(* page nor moves past one.                                                *)
LEMMA ControlStep ==
  ASSUME FtlInv, pc # "program",
         UNCHANGED <<mapVars, nandVars, line, listVars, wp, gc>>,
         Programmed' <=> Programmed,
         TypeOK', Control',
         pc' = "program" => ~mapped_ppa(maptbl[lpn'])
  PROVE  FtlInv'
<1> USE DEF FtlInv
<1>1. UNCHANGED <<maptbl, rmap, status, blkcnt, line, wp, gc, free_line_list,
                  victim_line_pq, full_line_list, free_line_cnt,
                  victim_line_cnt, full_line_cnt>>
  BY DEF mapVars, nandVars, listVars
<1>2. /\ InGc' <=> InGc
      /\ FreeLines' = FreeLines
      /\ \A p : /\ CopiedByGc(p)' <=> CopiedByGc(p)
                /\ ErasedByGc(p)' <=> ErasedByGc(p)
                /\ Written(p)' <=> Written(p)
  BY <1>1 DEF InGc, FreeLines, CopiedByGc, ErasedByGc, Written
<1>3. MapConsistent'
  BY <1>1, <1>2 DEF MapConsistent, MapForward, MapReverse, InFlight, mapped_ppa, ppa2pgidx
<1>4. Moved'
  BY <1>1, <1>2 DEF Moved, InFlight, mapped_ppa
<1>5. ErasedExactly'
  BY <1>1, <1>2 DEF ErasedExactly
<1>6. LinesPartition' /\ CountersMatchLists'
  BY <1>1, <1>2 DEF LinesPartition, CountersMatchLists
<1>7. LineSums'
  BY <1>1, <1>2 DEF LineSums, WpIndex, VictimsWorthCleaning
<1>. QED
  BY <1>3, <1>4, <1>5, <1>6, <1>7

(* The steps of ftl_thread and ssd_write that have this form: taking a     *)
(* request, leaving the forced-GC loop, skipping the background GC, a      *)
(* first write, the end of a request.                                      *)
LEMMA ControlSteps ==
  ASSUME FtlInv,
         \/ \E s, e \in Lpns : DequeueWrite(s, e)
         \/ DequeueOther \/ ForcedGcDone \/ NoBackgroundGc
         \/ FirstWrite \/ WriteDone \/ AdvanceAbort
  PROVE  FtlInv'
<1> USE DEF Control, Programmed, InGc, PcTypes
<1>1. TypeOK /\ Control
  BY DEF FtlInv
<1>2. ASSUME UNCHANGED <<mapVars, nandVars, line, listVars, wp, gc>>,
             lpn' \in 0 .. nlpns, end_lpn' \in Lpns, pc' \in PcTypes
      PROVE  TypeOK'
  BY <1>1, <1>2 DEF TypeOK, mapVars, nandVars, listVars
<1>3. CASE \E s, e \in Lpns : DequeueWrite(s, e)
  <2>1. PICK s \in Lpns, e \in Lpns : DequeueWrite(s, e)
    BY <1>3
  <2>2. TypeOK'
    <3>1. lpn' \in 0 .. nlpns /\ end_lpn' \in Lpns /\ pc' \in PcTypes
      BY <2>1, GeometryAssumption DEF DequeueWrite, Lpns
    <3>. QED
      BY <1>2, <2>1, <3>1 DEF DequeueWrite
  <2>3. Control'
    BY <1>1, <2>1 DEF DequeueWrite, TypeOK
  <2>. QED
    BY <1>1, <2>1, <2>2, <2>3, ControlStep DEF DequeueWrite
<1>4. CASE DequeueOther
  BY <1>1, <1>2, <1>4, ControlStep DEF DequeueOther, reqVars, TypeOK
<1>5. CASE ForcedGcDone
  BY <1>1, <1>2, <1>5, ControlStep DEF ForcedGcDone, reqVars, TypeOK
<1>6. CASE NoBackgroundGc
  BY <1>1, <1>2, <1>6, ControlStep DEF NoBackgroundGc, reqVars, TypeOK
<1>7. CASE FirstWrite
  BY <1>1, <1>2, <1>7, ControlStep DEF FirstWrite, reqVars, TypeOK
<1>8. CASE WriteDone
  BY <1>1, <1>2, <1>8, ControlStep DEF WriteDone, reqVars, TypeOK
<1>9. CASE AdvanceAbort
  BY <1>1, <1>2, <1>9, ControlStep DEF AdvanceAbort, reqVars, TypeOK
<1>. QED
  BY <1>3, <1>4, <1>5, <1>6, <1>7, <1>8, <1>9

-----------------------------------------------------------------------------
(* The collector *)

(* select_victim_line: the victim leaves the heap, with its pos reset, and *)
(* do_gc starts on its first page.                                         *)
LEMMA StartGcStep ==
  ASSUME FtlInv, NEW v \in victim_line_pq, ForcedGc(v) \/ BackgroundGc(v)
  PROVE  FtlInv'
<1> USE DEF FtlInv
<1>1. PICK c \in {"gc_high", "bg_gc"} : pc = c /\ StartGc(v, c)
  BY DEF ForcedGc, BackgroundGc
<1>2. /\ pc \in {"gc_high", "bg_gc"} /\ pc' = "clean"
      /\ ~InGc
      /\ UNCHANGED <<maptbl, rmap, status, blkcnt, wp, lpn, end_lpn,
                     free_line_list, full_line_list, free_line_cnt, full_line_cnt>>
      /\ victim_line_pq' = victim_line_pq \ {v}
      /\ line' = [line EXCEPT ![v].pos = 0]
      /\ victim_line_cnt' = victim_line_cnt - 1
      /\ gc' = [caller |-> c, line |-> v, ch |-> 0, lun |-> 0, pg |-> 0]
      /\ v \in Lines
  BY <1>1 DEF StartGc, select_victim_line, mapVars, nandVars, reqVars, Control,
             TypeOK, NoGc
<1>3. /\ InGc' /\ ~Programmed /\ ~Programmed'
      /\ gc'.line = v /\ gc'.ch = 0 /\ gc'.lun = 0 /\ gc'.pg = 0
      /\ FreeLines' = FreeLines
      /\ \A p : Written(p)' <=> Written(p)
      /\ \A p \in Ppa : ~ErasedByGc(p)' /\ ~CopiedByGc(p)'
                        /\ ~ErasedByGc(p) /\ ~CopiedByGc(p)
  BY <1>2 DEF InGc, Programmed, FreeLines, Written, ErasedByGc, CopiedByGc, Ppa
<1>4. /\ \A l \in Lines : /\ line'[l].ipc = line[l].ipc
                          /\ line'[l].vpc = line[l].vpc
                          /\ l # v => line'[l] = line[l]
      /\ line'[v].pos = 0
      /\ line' \in [Lines -> LineState]
  BY <1>2 DEF TypeOK, LineState
<1>5. TypeOK'
  <2>1. gc' \in GcState
    BY <1>1, <1>2, GeometryAssumption DEF GcState
  <2>. QED
    BY <1>2, <1>4, <2>1 DEF TypeOK, PcTypes
<1>6. Control'
  BY <1>2, <1>3 DEF Control
<1>7. MapConsistent'
  BY <1>2, <1>3 DEF MapConsistent, MapForward, MapReverse, InFlight, mapped_ppa,
                    ppa2pgidx
<1>8. Moved'
  BY <1>2, <1>3 DEF Moved, InFlight, mapped_ppa, TypeOK
<1>9. ErasedExactly'
  BY <1>2, <1>3 DEF ErasedExactly
<1>10. LinesPartition'
  BY <1>2, <1>3, <1>4 DEF LinesPartition
<1>11. CountersMatchLists'
  <2>1. IsFiniteSet(victim_line_pq)
    BY LinesFinite DEF TypeOK
  <2>2. Cardinality(victim_line_pq \ {v}) = Cardinality(victim_line_pq) - 1
    BY <2>1, FS_RemoveElement
  <2>. QED
    BY <1>2, <2>2 DEF CountersMatchLists
<1>12. LineSums'
  <2>1. FreeLines \subseteq Lines /\ wp.curline \in Lines
        /\ full_line_list \subseteq Lines /\ victim_line_pq \subseteq Lines
    BY DEF TypeOK, FreeLines, WpState
  <2>2. WpIndex' = WpIndex
    BY <1>2 DEF WpIndex
  <2>. QED
    BY <1>2, <1>3, <1>4, <2>1, <2>2 DEF LineSums, VictimsWorthCleaning
<1>. QED
  BY <1>5, <1>6, <1>7, <1>8, <1>9, <1>10, <1>11, <1>12

(* clean_one_block passes over a page that is not valid.                   *)
LEMMA SkipPageStep ==
  ASSUME FtlInv, SkipPage
  PROVE  FtlInv'
<1> USE DEF FtlInv
<1>1. /\ pc = "clean" /\ pc' = "clean" /\ InGc
      /\ gc.ch < nchs /\ gc.pg < pgs_per_blk
      /\ status[GcPage] # "PG_VALID"
      /\ gc' = [gc EXCEPT !.pg = @ + 1]
      /\ UNCHANGED <<maptbl, rmap, status, blkcnt, line, wp, lpn, end_lpn,
                     free_line_list, victim_line_pq, full_line_list,
                     free_line_cnt, victim_line_cnt, full_line_cnt>>
  BY DEF SkipPage, mapVars, nandVars, listVars, reqVars, Control
<1>2. /\ gc \in GcState
      /\ gc.ch \in 0 .. nchs - 1 /\ gc.lun \in 0 .. luns_per_ch - 1
      /\ gc.pg \in 0 .. pgs_per_blk - 1 /\ gc.line \in Lines
  <2>1. gc \in GcState
    BY DEF TypeOK
  <2>. QED
    BY <1>1, <2>1, GeometryAssumption DEF GcState
<1>3. /\ gc'.caller = gc.caller /\ gc'.line = gc.line /\ gc'.ch = gc.ch
      /\ gc'.lun = gc.lun /\ gc'.pg = gc.pg + 1
      /\ gc' \in GcState
  BY <1>1, <1>2, GeometryAssumption DEF GcState
<1>4. /\ InGc' /\ ~Programmed /\ ~Programmed'
      /\ FreeLines' = FreeLines
      /\ \A p : Written(p)' <=> Written(p)
      /\ \A p \in Ppa : ErasedByGc(p)' <=> ErasedByGc(p)
  BY <1>1, <1>3 DEF InGc, Programmed, FreeLines, Written, ErasedByGc
<1>5. \A p \in Ppa : CopiedByGc(p)' <=> CopiedByGc(p) \/ p = GcPage
  <2> TAKE p \in Ppa
  <2>1. p.pg \in Int /\ gc.pg \in Int
    BY <1>2, GeometryAssumption DEF Ppa
  <2>2. p = GcPage <=> /\ p.blk = gc.line /\ p.ch = gc.ch
                       /\ p.lun = gc.lun /\ p.pg = gc.pg
    BY DEF GcPage, Ppa
  <2>. QED
    BY <1>1, <1>3, <1>4, <2>1, <2>2 DEF CopiedByGc
<1>6. GcPage \in Ppa
  BY <1>1, <1>2 DEF Ppa, GcPage
<1>7. TypeOK'
  BY <1>1, <1>3 DEF TypeOK
<1>8. Control'
  BY <1>1, <1>4 DEF Control
<1>9. MapConsistent'
  BY <1>1, <1>4, <1>5 DEF MapConsistent, MapForward, MapReverse, InFlight, mapped_ppa,
                          ppa2pgidx
<1>10. Moved'
  BY <1>1, <1>4, <1>5 DEF Moved, InFlight, MapConsistent, MapForward, mapped_ppa, TypeOK
<1>11. ErasedExactly'
  BY <1>1, <1>4 DEF ErasedExactly
<1>12. LinesPartition' /\ CountersMatchLists' /\ LineSums'
  BY <1>1, <1>3, <1>4 DEF LinesPartition, CountersMatchLists, LineSums, WpIndex,
                          VictimsWorthCleaning
<1>. QED
  BY <1>7, <1>8, <1>9, <1>10, <1>11, <1>12

(* mark_block_free: the block's pages, all of them copied or invalid, are  *)
(* erased and its counts reset.                                            *)
LEMMA EraseStep ==
  ASSUME FtlInv, mark_block_free
  PROVE  FtlInv'
<1> USE DEF FtlInv
<1> DEFINE b == [ch |-> gc.ch, lun |-> gc.lun, blk |-> gc.line]
<1>1. /\ pc = "clean" /\ pc' = "clean" /\ InGc
      /\ gc.ch < nchs /\ gc.pg = pgs_per_blk
      /\ status' = [p \in Ppa |-> IF get_blk(p) = b THEN "PG_FREE" ELSE status[p]]
      /\ blkcnt' = [blkcnt EXCEPT ![b] = [ipc |-> 0, vpc |-> 0]]
      /\ gc' = IF gc.lun + 1 < luns_per_ch
               THEN [gc EXCEPT !.lun = @ + 1, !.pg = 0]
               ELSE [gc EXCEPT !.ch = @ + 1, !.lun = 0, !.pg = 0]
      /\ UNCHANGED <<maptbl, rmap, line, wp, lpn, end_lpn,
                     free_line_list, victim_line_pq, full_line_list,
                     free_line_cnt, victim_line_cnt, full_line_cnt>>
  BY DEF mark_block_free, mapVars, nandVars, listVars, reqVars, Control
<1>2. gc \in GcState
  BY DEF TypeOK
<1>3. /\ gc.ch \in 0 .. nchs - 1 /\ gc.lun \in 0 .. luns_per_ch - 1
      /\ gc.line \in Lines
  BY <1>1, <1>2, GeometryAssumption DEF GcState
<1>4. /\ gc'.caller = gc.caller /\ gc'.line = gc.line /\ gc'.pg = 0
      /\ \/ gc.lun + 1 < luns_per_ch /\ gc'.ch = gc.ch /\ gc'.lun = gc.lun + 1
         \/ gc.lun + 1 = luns_per_ch /\ gc'.ch = gc.ch + 1 /\ gc'.lun = 0
      /\ gc' \in GcState
  <2>1. CASE gc.lun + 1 < luns_per_ch
    <3>1. gc' = [gc EXCEPT !.lun = gc.lun + 1, !.pg = 0]
      BY <1>1, <2>1
    <3>2. gc' = [caller |-> gc.caller, line |-> gc.line, ch |-> gc.ch, lun |-> gc.lun + 1, pg |-> 0]
      BY <1>2, <3>1 DEF GcState
    <3>3. gc.caller \in {"none", "gc_high", "bg_gc"}
      BY <1>2 DEF GcState
    <3>. QED
      BY <1>3, <2>1, <3>2, <3>3, GeometryAssumption DEF GcState
  <2>2. CASE gc.lun + 1 = luns_per_ch
    <3>1. gc' = [gc EXCEPT !.ch = gc.ch + 1, !.lun = 0, !.pg = 0]
      BY <1>1, <2>2, GeometryAssumption
    <3>2. gc' = [caller |-> gc.caller, line |-> gc.line, ch |-> gc.ch + 1, lun |-> 0, pg |-> 0]
      BY <1>2, <3>1 DEF GcState
    <3>3. gc.caller \in {"none", "gc_high", "bg_gc"}
      BY <1>2 DEF GcState
    <3>. QED
      BY <1>3, <2>2, <3>2, <3>3, GeometryAssumption DEF GcState
  <2>. QED
    BY <1>3, <2>1, <2>2, GeometryAssumption
<1>5. /\ InGc' /\ ~Programmed /\ ~Programmed'
      /\ FreeLines' = FreeLines
      /\ \A p : Written(p)' <=> Written(p)
  BY <1>1, <1>4 DEF InGc, Programmed, FreeLines, Written
<1>6. \A p \in Ppa :
        /\ get_blk(p) = b <=> p.blk = gc.line /\ p.ch = gc.ch /\ p.lun = gc.lun
        /\ ErasedByGc(p)' <=> ErasedByGc(p) \/ get_blk(p) = b
        /\ CopiedByGc(p) <=> get_blk(p) = b
        /\ ~CopiedByGc(p)'
  <2> TAKE p \in Ppa
  <2>1. /\ p.ch \in 0 .. nchs - 1 /\ p.lun \in 0 .. luns_per_ch - 1
        /\ p.pg \in 0 .. pgs_per_blk - 1
    BY DEF Ppa
  <2>2. get_blk(p) = b <=> p.blk = gc.line /\ p.ch = gc.ch /\ p.lun = gc.lun
    BY DEF get_blk
  <2>3. ErasedByGc(p)' <=> ErasedByGc(p) \/ get_blk(p) = b
    BY <1>1, <1>3, <1>4, <1>5, <2>1, <2>2, GeometryAssumption DEF ErasedByGc
  <2>4. CopiedByGc(p) <=> get_blk(p) = b
    BY <1>1, <1>5, <2>1, <2>2, GeometryAssumption DEF CopiedByGc
  <2>5. ~CopiedByGc(p)'
    BY <1>4, <1>5, <2>1, GeometryAssumption DEF CopiedByGc
  <2>. QED
    BY <2>2, <2>3, <2>4, <2>5
<1>7. TypeOK'
  <2>1. status' \in [Ppa -> {"PG_FREE", "PG_INVALID", "PG_VALID"}]
    BY <1>1 DEF TypeOK
  <2>2. blkcnt' \in [Block -> [ipc : Int, vpc : Int]]
    <3>1. b \in Block
      BY <1>3 DEF Block
    <3>. QED
      BY <1>1, <3>1 DEF TypeOK
  <2>. QED
    BY <1>1, <1>4, <2>1, <2>2 DEF TypeOK
<1>8. Control'
  BY <1>1, <1>5 DEF Control
<1>9. MapConsistent'
  <2>1. MapForward'
    <3> SUFFICES ASSUME NEW l \in Lpns, mapped_ppa(maptbl[l])
                 PROVE  /\ status'[maptbl[l]] = "PG_VALID"
                        /\ rmap[ppa2pgidx(maptbl[l])] = l
      BY <1>1 DEF MapForward, mapped_ppa, ppa2pgidx
    <3>1. maptbl[l] \in Ppa
      BY DEF TypeOK, mapped_ppa
    <3>2. get_blk(maptbl[l]) # b
      BY <1>6, <3>1 DEF Moved
    <3>3. status'[maptbl[l]] = status[maptbl[l]]
      BY <1>1, <3>1, <3>2
    <3>. QED
      BY <1>1, <3>3 DEF MapConsistent, MapForward, InFlight
  <2>2. MapReverse'
    BY <1>1, <1>6 DEF MapConsistent, MapReverse, ppa2pgidx
  <2>. QED
    BY <2>1, <2>2 DEF MapConsistent
<1>10. Moved'
  BY <1>1, <1>6 DEF Moved, InFlight, mapped_ppa, TypeOK
<1>11. ErasedExactly'
  <2>1. ASSUME NEW p \in Ppa, get_blk(p) = b
        PROVE  status'[p] = "PG_FREE" /\ ErasedByGc(p)'
    BY <1>1, <1>6, <2>1
  <2>2. ASSUME NEW p \in Ppa, get_blk(p) # b
        PROVE  status'[p] = status[p] /\ (ErasedByGc(p)' <=> ErasedByGc(p))
    BY <1>1, <1>6, <2>2
  <2>. QED
    BY <1>1, <1>5, <2>1, <2>2 DEF ErasedExactly
<1>12. LinesPartition' /\ CountersMatchLists' /\ LineSums'
  BY <1>1, <1>4, <1>5 DEF LinesPartition, CountersMatchLists, LineSums, WpIndex,
                          VictimsWorthCleaning
<1>. QED
  BY <1>7, <1>8, <1>9, <1>10, <1>11, <1>12

(* mark_line_free: the victim, every block of which is erased by now, goes *)
(* to the tail of the free list with its counts reset.                     *)
LEMMA FreeLineStep ==
  ASSUME FtlInv, mark_line_free
  PROVE  FtlInv'
<1> USE DEF FtlInv
<1> DEFINE v == gc.line
<1>1. /\ pc = "clean" /\ pc' \in {"gc_high", "dequeue"} /\ InGc
      /\ gc.ch = nchs
      /\ line' = [line EXCEPT ![v] = [ipc |-> 0, vpc |-> 0, pos |-> @.pos]]
      /\ free_line_list' = Append(free_line_list, v)
      /\ free_line_cnt' = free_line_cnt + 1
      /\ gc' = NoGc
      /\ UNCHANGED <<maptbl, rmap, status, blkcnt, wp, lpn, end_lpn,
                     victim_line_pq, full_line_list, victim_line_cnt, full_line_cnt>>
  BY DEF mark_line_free, mapVars, nandVars, reqVars, Control
<1>2. gc \in GcState /\ v \in Lines
  BY DEF TypeOK, GcState
<1>3. /\ ~InGc' /\ ~Programmed /\ ~Programmed'
      /\ \A p : Written(p)' <=> Written(p)
      /\ \A p : ~ErasedByGc(p)' /\ ~CopiedByGc(p)'
      /\ \A p \in Ppa : ~CopiedByGc(p)
      /\ \A p \in Ppa : ErasedByGc(p) <=> p.blk = v
  <2>1. ~InGc' /\ ~Programmed /\ ~Programmed'
    BY <1>1 DEF InGc, Programmed, NoGc
  <2>2. ASSUME NEW p \in Ppa PROVE ~CopiedByGc(p) /\ (ErasedByGc(p) <=> p.blk = v)
    <3>1. p.ch \in 0 .. nchs - 1 /\ p.lun \in 0 .. luns_per_ch - 1
      BY DEF Ppa
    <3>. QED
      BY <1>1, <3>1, GeometryAssumption DEF CopiedByGc, ErasedByGc
  <2>. QED
    BY <1>1, <2>1, <2>2 DEF Written, ErasedByGc, CopiedByGc
<1>4. /\ v \notin FreeLines \cup victim_line_pq \cup full_line_list
      /\ v # wp.curline
      /\ \A i, j \in DOMAIN free_line_list :
           free_line_list[i] = free_line_list[j] => i = j
  BY <1>1 DEF LinesPartition
<1>5. /\ free_line_list' \in Seq(Lines)
      /\ Len(free_line_list') = Len(free_line_list) + 1
      /\ FreeLines' = FreeLines \cup {v}
      /\ \A i, j \in DOMAIN free_line_list' :
           free_line_list'[i] = free_line_list'[j] => i = j
  <2> DEFINE s == free_line_list
  <2>1. s \in Seq(Lines) /\ v \in Lines /\ v \notin {s[i] : i \in DOMAIN s}
    BY <1>2, <1>4 DEF FreeLines, TypeOK
  <2>2. \A i, j \in DOMAIN s : s[i] = s[j] => i = j
    BY <1>4
  <2> HIDE DEF v, s
  <2>3. /\ Append(s, v) \in Seq(Lines)
        /\ Len(Append(s, v)) = Len(s) + 1
        /\ {Append(s, v)[i] : i \in DOMAIN Append(s, v)}
             = {s[i] : i \in DOMAIN s} \cup {v}
        /\ \A i, j \in DOMAIN Append(s, v) :
             Append(s, v)[i] = Append(s, v)[j] => i = j
    BY <2>1, <2>2, FreeListAppend
  <2>. QED
    BY <1>1, <2>3 DEF FreeLines, s
<1>6. /\ line' \in [Lines -> LineState]
      /\ line'[v].ipc = 0 /\ line'[v].vpc = 0 /\ line'[v].pos = line[v].pos
      /\ \A l \in Lines \ {v} : line'[l] = line[l]
  <2>1. line \in [Lines -> LineState]
    BY DEF TypeOK
  <2>2. line' = [line EXCEPT ![v] = [ipc |-> 0, vpc |-> 0, pos |-> line[v].pos]]
    BY <1>1
  <2>. QED
    BY <1>2, <2>1, <2>2 DEF LineState
<1>7. TypeOK'
  <2>1. NoGc \in GcState
    BY <1>2, GeometryAssumption DEF NoGc, GcState, Lines
  <2>. QED
    BY <1>1, <1>5, <1>6, <2>1 DEF TypeOK, PcTypes
<1>8. Control'
  BY <1>1, <1>3 DEF Control
<1>9. MapConsistent' /\ Moved'
  BY <1>1, <1>3 DEF MapConsistent, MapForward, MapReverse, Moved, InFlight,
                    mapped_ppa, ppa2pgidx, TypeOK
<1>10. ErasedExactly'
  BY <1>1, <1>3, <1>5 DEF ErasedExactly
<1>11. LinesPartition'
  BY <1>1, <1>2, <1>3, <1>4, <1>5, <1>6 DEF LinesPartition
<1>12. CountersMatchLists'
  BY <1>1, <1>5 DEF CountersMatchLists, TypeOK
<1>13. LineSums'
  <2>1. FreeLines \subseteq Lines /\ wp.curline \in Lines
        /\ full_line_list \subseteq Lines /\ victim_line_pq \subseteq Lines
    BY DEF TypeOK, FreeLines, WpState
  <2>2. WpIndex' = WpIndex
    BY <1>1 DEF WpIndex
  <2>. QED
    BY <1>1, <1>3, <1>4, <1>5, <1>6, <2>1, <2>2 DEF LineSums, VictimsWorthCleaning
<1>. QED
  BY <1>7, <1>8, <1>9, <1>10, <1>11, <1>12, <1>13

-----------------------------------------------------------------------------
(* Programming the page under the write pointer *)

(* Before a page is programmed the page under the write pointer is erased  *)
(* and belongs to the current line.                                        *)
LEMMA WpOnErasedPage ==
  ASSUME FtlInv, ~Programmed
  PROVE  /\ get_new_page \in Ppa
         /\ get_new_page.blk = wp.curline /\ wp.curline \in Lines
         /\ status[get_new_page] = "PG_FREE"
         /\ ~ErasedByGc(get_new_page) /\ ~CopiedByGc(get_new_page)
<1> USE DEF FtlInv
<1>1. wp \in WpState
  BY DEF TypeOK
<1>2. get_new_page \in Ppa /\ wp.curline \in Lines
  BY <1>1 DEF WpState, Ppa, get_new_page
<1>3. get_new_page.blk = wp.curline /\ (InGc => gc.line # wp.curline)
  BY DEF LinesPartition, get_new_page
<1>4. ~Written(get_new_page)
  BY <1>1, GeometryAssumption DEF Written, get_new_page, WpState
<1>. QED
  BY <1>2, <1>3, <1>4 DEF ErasedExactly, ErasedByGc, CopiedByGc

(* Programming that page, for the host or for GC: what holds of pages,     *)
(* lines and lists is the same after it, with the page counted as written. *)
LEMMA ProgramStep ==
  ASSUME FtlInv, NEW l \in Lpns, Program(l), pc \in {"program", "clean"},
         pc = "clean" => gc.ch < nchs /\ gc.pg < pgs_per_blk
  PROVE  /\ TypeOK' /\ Control' /\ ErasedExactly'
         /\ LinesPartition' /\ CountersMatchLists' /\ LineSums'
<1> USE DEF FtlInv
<1> DEFINE q == get_new_page
<1>1. /\ pc' = "advance" /\ ~Programmed /\ Programmed'
      /\ UNCHANGED <<wp, lpn, end_lpn, gc, free_line_list, victim_line_pq,
                     full_line_list, free_line_cnt, victim_line_cnt, full_line_cnt>>
      /\ maptbl' = [maptbl EXCEPT ![l] = q]
      /\ rmap' = [rmap EXCEPT ![ppa2pgidx(q)] = l]
      /\ status' = [status EXCEPT ![q] = "PG_VALID"]
      /\ blkcnt' = [blkcnt EXCEPT ![get_blk(q)].vpc = @ + 1]
      /\ line' = [line EXCEPT ![q.blk].vpc = @ + 1]
  BY DEF Program, mark_page_valid, listVars, reqVars, Programmed
<1>2. /\ q \in Ppa /\ q.blk = wp.curline /\ wp.curline \in Lines
      /\ status[q] = "PG_FREE"
  BY <1>1, WpOnErasedPage
<1>3. /\ InGc' <=> InGc
      /\ FreeLines' = FreeLines
      /\ \A p : ErasedByGc(p)' <=> ErasedByGc(p)
  BY <1>1 DEF InGc, FreeLines, ErasedByGc
<1>4. \A p \in Ppa : p.blk = wp.curline => (Written(p)' <=> Written(p) \/ p = q)
  <2> TAKE p \in Ppa
  <2>1. p = q <=> p.ch = wp.ch /\ p.lun = wp.lun /\ p.pg = wp.pg /\ p.blk = wp.blk
    BY DEF Ppa, get_new_page
  <2>2. wp.blk = wp.curline
    BY DEF LinesPartition
  <2>. QED
    BY <1>1, <2>1, <2>2 DEF Written
<1>5. line \in [Lines -> LineState]
  BY DEF TypeOK
<1>6. /\ line' \in [Lines -> LineState]
      /\ line'[wp.curline].vpc = line[wp.curline].vpc + 1
      /\ \A k \in Lines : line'[k].ipc = line[k].ipc /\ line'[k].pos = line[k].pos
      /\ \A k \in Lines \ {wp.curline} : line'[k] = line[k]
  BY <1>1, <1>2, <1>5 DEF LineState
<1>7. TypeOK'
  <2>1. maptbl' \in [Lpns -> Ppa \cup {UNMAPPED_PPA}]
    BY <1>1, <1>2 DEF TypeOK
  <2>2. rmap' \in [0 .. tt_pgs - 1 -> Lpns \cup {INVALID_LPN}]
    BY <1>1 DEF TypeOK
  <2>3. status' \in [Ppa -> {"PG_FREE", "PG_INVALID", "PG_VALID"}]
    BY <1>1 DEF TypeOK
  <2>4. blkcnt' \in [Block -> [ipc : Int, vpc : Int]]
    <3>1. get_blk(q) \in Block
      BY <1>2 DEF get_blk, Ppa, Block
    <3>2. blkcnt \in [Block -> [ipc : Int, vpc : Int]]
      BY DEF TypeOK
    <3>. QED
      BY <1>1, <3>1, <3>2
  <2>. QED
    BY <1>1, <1>6, <2>1, <2>2, <2>3, <2>4 DEF TypeOK, PcTypes
<1>8. Control'
  BY <1>1, <1>3 DEF Control
<1>9. ErasedExactly'
  <2> SUFFICES ASSUME NEW p \in Ppa
               PROVE  status'[p] = "PG_FREE" <=>
                        \/ p.blk \in FreeLines
                        \/ p.blk = wp.curline /\ ~Written(p)'
                        \/ ErasedByGc(p)
    BY <1>1, <1>3 DEF ErasedExactly
  <2>1. CASE p = q
    <3>1. status'[p] = "PG_VALID"
      BY <1>1, <1>2, <2>1 DEF TypeOK
    <3>2. Written(p)' /\ p.blk \notin FreeLines /\ ~ErasedByGc(p)
      BY <1>1, <1>2, <1>4, <2>1, WpOnErasedPage DEF LinesPartition
    <3>. QED
      BY <1>2, <2>1, <3>1, <3>2
  <2>2. CASE p # q
    <3>1. status'[p] = status[p]
      BY <1>1, <2>2 DEF TypeOK
    <3>. QED
      BY <1>4, <2>2, <3>1 DEF ErasedExactly
  <2>. QED
    BY <2>1, <2>2
<1>10. LinesPartition' /\ CountersMatchLists'
  BY <1>1, <1>3, <1>6 DEF LinesPartition, CountersMatchLists
<1>11. LineSums'
  <2>1. /\ wp.curline \notin FreeLines \cup victim_line_pq \cup full_line_list
        /\ FreeLines \subseteq Lines /\ full_line_list \subseteq Lines
        /\ victim_line_pq \subseteq Lines
    BY DEF LinesPartition, TypeOK, FreeLines
  <2>2. WpIndex' = WpIndex
    BY <1>1 DEF WpIndex
  <2>3. line[wp.curline].ipc \in Int /\ line[wp.curline].vpc \in Int
    BY <1>2, <1>5 DEF LineState
  <2>4. WpIndex \in Int
    BY GeometryAssumption DEF WpIndex, TypeOK, WpState
  <2>. QED
    BY <1>1, <1>2, <1>3, <1>6, <2>1, <2>2, <2>3, <2>4 DEF LineSums, VictimsWorthCleaning
<1>. QED
  BY <1>7, <1>8, <1>9, <1>10, <1>11

(* What programming the new page does to the maps: LPN l moves to page q,  *)
(* and, q having been erased, no other LPN or valid page is affected.      *)
LEMMA ProgramMaps ==
  ASSUME FtlInv, NEW l \in Lpns, Program(l), pc \in {"program", "clean"}
  PROVE  LET q == get_new_page
         IN  /\ q \in Ppa
             /\ maptbl'[l] = q /\ status'[q] = "PG_VALID"
             /\ rmap'[ppa2pgidx(q)] = l
             /\ \A k \in Lpns \ {l} : maptbl'[k] = maptbl[k]
             /\ \A p \in Ppa \ {q} :
                  /\ status'[p] = status[p]
                  /\ rmap'[ppa2pgidx(p)] = rmap[ppa2pgidx(p)]
<1> USE DEF FtlInv
<1> DEFINE q == get_new_page
<1>1. ~Programmed
  BY DEF Programmed
<1>2. q \in Ppa
  BY <1>1, WpOnErasedPage
<1>3. /\ maptbl' = [maptbl EXCEPT ![l] = q]
      /\ rmap' = [rmap EXCEPT ![ppa2pgidx(q)] = l]
      /\ status' = [status EXCEPT ![q] = "PG_VALID"]
  BY DEF Program, mark_page_valid
<1>4. /\ ppa2pgidx(q) \in 0 .. tt_pgs - 1
      /\ \A p \in Ppa \ {q} : ppa2pgidx(p) \in 0 .. tt_pgs - 1
                               /\ ppa2pgidx(p) # ppa2pgidx(q)
  BY <1>2, PgidxInjective
<1>5. /\ maptbl \in [Lpns -> Ppa \cup {UNMAPPED_PPA}]
      /\ rmap \in [0 .. tt_pgs - 1 -> Lpns \cup {INVALID_LPN}]
      /\ status \in [Ppa -> {"PG_FREE", "PG_INVALID", "PG_VALID"}]
  BY DEF TypeOK
<1> HIDE DEF q
<1>6. /\ maptbl'[l] = q /\ status'[q] = "PG_VALID" /\ rmap'[ppa2pgidx(q)] = l
      /\ \A k \in Lpns \ {l} : maptbl'[k] = maptbl[k]
      /\ \A p \in Ppa \ {q} :
           status'[p] = status[p] /\ rmap'[ppa2pgidx(p)] = rmap[ppa2pgidx(p)]
  BY <1>2, <1>3, <1>4, <1>5
<1>. QED
  BY <1>2, <1>6 DEF q

(* The host's page is programmed.                                          *)
LEMMA WritePageStep ==
  ASSUME FtlInv, WritePage
  PROVE  FtlInv'
<1> USE DEF FtlInv
<1> DEFINE q == get_new_page
<1>1. pc = "program" /\ pc' = "advance" /\ Program(lpn) /\ gc' = gc /\ lpn' = lpn
  BY DEF WritePage, Program, reqVars
<1>2. lpn \in Lpns /\ ~InGc /\ ~InGc'
  BY <1>1, GeometryAssumption DEF Control, TypeOK, Lpns, InGc
<1>3. /\ TypeOK' /\ Control' /\ ErasedExactly'
      /\ LinesPartition' /\ CountersMatchLists' /\ LineSums'
  BY <1>1, <1>2, ProgramStep
<1>4. /\ q \in Ppa /\ maptbl'[lpn] = q /\ status'[q] = "PG_VALID"
      /\ rmap'[ppa2pgidx(q)] = lpn
      /\ \A k \in Lpns \ {lpn} : maptbl'[k] = maptbl[k]
      /\ \A p \in Ppa \ {q} : /\ status'[p] = status[p]
                              /\ rmap'[ppa2pgidx(p)] = rmap[ppa2pgidx(p)]
  BY <1>1, <1>2, ProgramMaps
<1>5. status[q] = "PG_FREE"
  BY <1>1, WpOnErasedPage DEF Programmed
<1>6. \A p : ~CopiedByGc(p) /\ ~CopiedByGc(p)'
  BY <1>2 DEF CopiedByGc
<1> HIDE DEF q
<1>7. MapForward'
  <2> SUFFICES ASSUME NEW k \in Lpns, mapped_ppa(maptbl'[k])
               PROVE  /\ status'[maptbl'[k]] = "PG_VALID"
                      /\ rmap'[ppa2pgidx(maptbl'[k])] = k
    BY DEF MapForward, mapped_ppa, ppa2pgidx
  <2>1. CASE k = lpn
    BY <1>4, <2>1
  <2>2. CASE k # lpn
    <3>1. maptbl'[k] = maptbl[k] /\ maptbl[k] \in Ppa
      BY <1>4, <2>2 DEF mapped_ppa, TypeOK
    <3>2. status[maptbl[k]] = "PG_VALID" /\ rmap[ppa2pgidx(maptbl[k])] = k
      BY <2>2, <3>1 DEF MapConsistent, MapForward, InFlight, mapped_ppa
    <3>. QED
      BY <1>4, <1>5, <3>1, <3>2
  <2>. QED
    BY <2>1, <2>2
<1>8. MapReverse'
  <2> SUFFICES ASSUME NEW p \in Ppa, status'[p] = "PG_VALID"
               PROVE  /\ rmap'[ppa2pgidx(p)] \in Lpns
                      /\ maptbl'[rmap'[ppa2pgidx(p)]] = p
    BY DEF MapReverse, ppa2pgidx
  <2>1. CASE p = q
    BY <1>2, <1>4, <2>1
  <2>2. CASE p # q
    <3>1. status[p] = "PG_VALID" /\ rmap'[ppa2pgidx(p)] = rmap[ppa2pgidx(p)]
      BY <1>4, <2>2
    <3>2. /\ rmap[ppa2pgidx(p)] \in Lpns
          /\ maptbl[rmap[ppa2pgidx(p)]] = p
      BY <1>6, <3>1 DEF MapConsistent, MapReverse
    <3>3. rmap[ppa2pgidx(p)] # lpn
      <4>1. p # UNMAPPED_PPA
        BY MarkerAssumption
      <4>. QED
        BY <1>1, <1>2, <3>1, <3>2, <4>1 DEF Moved, InFlight, mapped_ppa
    <3>. QED
      BY <1>4, <3>1, <3>2, <3>3
  <2>. QED
    BY <2>1, <2>2
<1>9. Moved'
  BY <1>1, <1>6 DEF Moved, InFlight
<1>. QED
  BY <1>3, <1>7, <1>8, <1>9 DEF MapConsistent

(* gc_write_page: the LPN in the reverse map of the victim's page is the   *)
(* one that lives there, and it moves to the page under the write pointer. *)
LEMMA GcWritePageStep ==
  ASSUME FtlInv, gc_write_page
  PROVE  FtlInv'
<1> USE DEF FtlInv
<1> DEFINE q == get_new_page
           l == rmap[ppa2pgidx(GcPage)]
<1>1. /\ pc = "clean" /\ pc' = "advance" /\ InGc
      /\ gc.ch < nchs /\ gc.pg < pgs_per_blk
      /\ status[GcPage] = "PG_VALID"
      /\ Program(l) /\ gc' = gc
  BY DEF gc_write_page, Program, Control
<1>2. gc \in GcState
  BY DEF TypeOK
<1>3. GcPage \in Ppa
  BY <1>1, <1>2, GeometryAssumption DEF GcState, Ppa, GcPage
<1>4. ~CopiedByGc(GcPage)
  BY <1>1, <1>2, GeometryAssumption DEF CopiedByGc, GcPage, Programmed, GcState
<1>5. l \in Lpns /\ maptbl[l] = GcPage
  BY <1>1, <1>3, <1>4 DEF MapConsistent, MapReverse
<1>6. /\ TypeOK' /\ Control' /\ ErasedExactly'
      /\ LinesPartition' /\ CountersMatchLists' /\ LineSums'
  BY <1>1, <1>5, ProgramStep
<1>7. /\ q \in Ppa /\ maptbl'[l] = q /\ status'[q] = "PG_VALID"
      /\ rmap'[ppa2pgidx(q)] = l
      /\ \A k \in Lpns \ {l} : maptbl'[k] = maptbl[k]
      /\ \A p \in Ppa \ {q} : /\ status'[p] = status[p]
                              /\ rmap'[ppa2pgidx(p)] = rmap[ppa2pgidx(p)]
  BY <1>1, <1>5, ProgramMaps
<1>8. status[q] = "PG_FREE" /\ ~CopiedByGc(q) /\ q # GcPage
  BY <1>1, WpOnErasedPage DEF Programmed
<1>9. \A p \in Ppa : CopiedByGc(p)' <=> CopiedByGc(p) \/ p = GcPage
  <2> TAKE p \in Ppa
  <2>1. p = GcPage <=> /\ p.blk = gc.line /\ p.ch = gc.ch
                       /\ p.lun = gc.lun /\ p.pg = gc.pg
    BY DEF GcPage, Ppa
  <2>. QED
    BY <1>1, <2>1 DEF CopiedByGc, Programmed, InGc
<1> HIDE DEF q, l
<1>10. \A k \in Lpns : mapped_ppa(maptbl[k]) =>
          /\ maptbl[k] \in Ppa /\ status[maptbl[k]] = "PG_VALID"
          /\ rmap[ppa2pgidx(maptbl[k])] = k
          /\ ~CopiedByGc(maptbl[k])
  BY <1>1 DEF MapConsistent, MapForward, Moved, InFlight, mapped_ppa, TypeOK
<1>11. MapForward'
  <2> SUFFICES ASSUME NEW k \in Lpns, mapped_ppa(maptbl'[k])
               PROVE  /\ status'[maptbl'[k]] = "PG_VALID"
                      /\ rmap'[ppa2pgidx(maptbl'[k])] = k
    BY DEF MapForward, mapped_ppa, ppa2pgidx
  <2>1. CASE k = l
    BY <1>7, <2>1
  <2>2. CASE k # l
    BY <1>7, <1>8, <1>10, <2>2 DEF mapped_ppa
  <2>. QED
    BY <2>1, <2>2
<1>12. MapReverse'
  <2> SUFFICES ASSUME NEW p \in Ppa, status'[p] = "PG_VALID", ~CopiedByGc(p)'
               PROVE  /\ rmap'[ppa2pgidx(p)] \in Lpns
                      /\ maptbl'[rmap'[ppa2pgidx(p)]] = p
    BY DEF MapReverse, ppa2pgidx
  <2>1. CASE p = q
    BY <1>5, <1>7, <2>1
  <2>2. CASE p # q
    <3>1. /\ status[p] = "PG_VALID" /\ rmap'[ppa2pgidx(p)] = rmap[ppa2pgidx(p)]
          /\ ~CopiedByGc(p) /\ p # GcPage
      BY <1>7, <1>9, <2>2
    <3>2. /\ rmap[ppa2pgidx(p)] \in Lpns
          /\ maptbl[rmap[ppa2pgidx(p)]] = p
      BY <3>1 DEF MapConsistent, MapReverse
    <3>. QED
      BY <1>5, <1>7, <3>1, <3>2
  <2>. QED
    BY <2>1, <2>2
<1>13. Moved'
  <2>1. ASSUME NEW k \in Lpns, mapped_ppa(maptbl'[k])
        PROVE  \A p \in Ppa : p = maptbl'[k] => ~CopiedByGc(p)'
    <3>1. CASE k = l
      BY <1>7, <1>8, <1>9, <3>1
    <3>2. CASE k # l
      <4>1. maptbl'[k] = maptbl[k] /\ mapped_ppa(maptbl[k])
        BY <1>7, <2>1, <3>2 DEF mapped_ppa
      <4>2. maptbl[k] = GcPage => k = l
        BY <1>10, <4>1 DEF l
      <4>. QED
        BY <1>9, <1>10, <3>2, <4>1, <4>2
    <3>. QED
      BY <3>1, <3>2
  <2>2. \A k \in Lpns : mapped_ppa(maptbl'[k]) => maptbl'[k] \in Ppa
    BY <1>6 DEF TypeOK, mapped_ppa
  <2>. QED
    BY <1>1, <2>1, <2>2 DEF Moved, InFlight, mapped_ppa, CopiedByGc, InGc, Programmed
<1>. QED
  BY <1>6, <1>11, <1>12, <1>13 DEF MapConsistent

-----------------------------------------------------------------------------
(* Invalidating the old copy *)

(* The write pointer's index within the line is below pgs_per_line.        *)
LEMMA WpIndexRange ==
  ASSUME wp \in WpState
  PROVE  WpIndex \in 0 .. pgs_per_line - 1
<1> USE GeometryAssumption
<1>1. /\ wp.ch \in 0 .. nchs - 1 /\ wp.lun \in 0 .. luns_per_ch - 1
      /\ wp.pg \in 0 .. pgs_per_blk - 1
  BY DEF WpState
<1>2. PICK d \in 0 .. pgs_per_blk * luns_per_ch - 1 : d = wp.pg * luns_per_ch + wp.lun
  BY <1>1, DigitRange
<1>3. PICK m \in Nat \ {0} : m = pgs_per_blk * luns_per_ch
  OBVIOUS
<1>4. d * nchs + wp.ch \in 0 .. m * nchs - 1
  BY <1>1, <1>2, <1>3, DigitRange
<1>5. m * nchs = pgs_per_line
  BY <1>3 DEF pgs_per_line
<1>. QED
  BY <1>2, <1>4, <1>5 DEF WpIndex

(* The last page of the line.                                              *)
LEMMA LastWpIndex ==
  ASSUME wp \in WpState, LastPageOfLine
  PROVE  WpIndex + 1 = pgs_per_line
<1> USE GeometryAssumption
<1>1. /\ wp.ch = nchs - 1 /\ wp.lun = luns_per_ch - 1 /\ wp.pg = pgs_per_blk - 1
  BY DEF LastPageOfLine, WpState
<1>2. PICK x \in Int : x = pgs_per_blk * luns_per_ch
  OBVIOUS
<1>3. wp.pg * luns_per_ch + wp.lun = x - 1
  BY <1>1, <1>2
<1>4. WpIndex = (x - 1) * nchs + (nchs - 1)
  BY <1>1, <1>3 DEF WpIndex
<1>5. pgs_per_line = x * nchs
  BY <1>2 DEF pgs_per_line
<1>. QED
  BY <1>4, <1>5

(* mark_page_invalid: the old page of the LPN being rewritten becomes      *)
(* invalid, and a line that was full becomes a victim.                     *)
LEMMA InvalidateStep ==
  ASSUME FtlInv, InvalidateOld
  PROVE  FtlInv'
<1> USE DEF FtlInv
<1> DEFINE q == maptbl[lpn]
           l == maptbl[lpn].blk
           was_full == line[l].vpc = pgs_per_line
<1>1. /\ pc = "lpn" /\ pc' = "program" /\ lpn <= end_lpn /\ mapped_ppa(q)
      /\ status' = [status EXCEPT ![q] = "PG_INVALID"]
      /\ blkcnt' = [blkcnt EXCEPT ![get_blk(q)] =
                      [ipc |-> @.ipc + 1, vpc |-> @.vpc - 1]]
      /\ line' = [line EXCEPT ![l] = [ipc |-> @.ipc + 1, vpc |-> @.vpc - 1,
                                      pos |-> IF was_full THEN 1 ELSE @.pos]]
      /\ rmap' = [rmap EXCEPT ![ppa2pgidx(q)] = INVALID_LPN]
      /\ was_full => /\ full_line_list' = full_line_list \ {l}
                     /\ full_line_cnt' = full_line_cnt - 1
                     /\ victim_line_pq' = victim_line_pq \cup {l}
                     /\ victim_line_cnt' = victim_line_cnt + 1
      /\ ~was_full => UNCHANGED <<full_line_list, full_line_cnt,
                                  victim_line_pq, victim_line_cnt>>
      /\ UNCHANGED <<free_line_list, free_line_cnt, maptbl, wp, lpn, end_lpn, gc>>
  BY DEF InvalidateOld, mark_page_invalid, reqVars
<1>2. lpn \in Lpns
  BY <1>1, GeometryAssumption DEF TypeOK, Lpns
<1>3. /\ q \in Ppa /\ l \in Lines /\ ~InGc /\ ~InGc'
      /\ ~Programmed /\ ~Programmed'
      /\ status[q] = "PG_VALID" /\ rmap[ppa2pgidx(q)] = lpn
  <2>1. q \in Ppa /\ ~InGc
    BY <1>1, <1>2 DEF TypeOK, mapped_ppa, Control
  <2>2. l \in Lines
    BY <2>1 DEF Ppa
  <2>3. status[q] = "PG_VALID" /\ rmap[ppa2pgidx(q)] = lpn
    BY <1>1, <1>2 DEF MapConsistent, MapForward, InFlight
  <2>. QED
    BY <1>1, <2>1, <2>2, <2>3 DEF InGc, Programmed
<1>4. /\ FreeLines' = FreeLines
      /\ \A p : /\ ~CopiedByGc(p) /\ ~CopiedByGc(p)'
                /\ ~ErasedByGc(p) /\ ~ErasedByGc(p)'
                /\ Written(p)' <=> Written(p)
  BY <1>1, <1>3 DEF FreeLines, CopiedByGc, ErasedByGc, Written
<1>5. /\ status'[q] = "PG_INVALID" /\ rmap'[ppa2pgidx(q)] = INVALID_LPN
      /\ \A p \in Ppa \ {q} : /\ status'[p] = status[p]
                              /\ rmap'[ppa2pgidx(p)] = rmap[ppa2pgidx(p)]
  <2>1. /\ ppa2pgidx(q) \in 0 .. tt_pgs - 1
        /\ \A p \in Ppa \ {q} : ppa2pgidx(p) \in 0 .. tt_pgs - 1
                                 /\ ppa2pgidx(p) # ppa2pgidx(q)
    BY <1>3, PgidxInjective
  <2>2. /\ rmap \in [0 .. tt_pgs - 1 -> Lpns \cup {INVALID_LPN}]
        /\ status \in [Ppa -> {"PG_FREE", "PG_INVALID", "PG_VALID"}]
    BY DEF TypeOK
  <2> HIDE DEF q
  <2>. QED
    BY <1>1, <1>3, <2>1, <2>2
<1>6. line \in [Lines -> LineState]
  BY DEF TypeOK
<1>7. /\ line' \in [Lines -> LineState]
      /\ line'[l].ipc = line[l].ipc + 1 /\ line'[l].vpc = line[l].vpc - 1
      /\ was_full => line'[l].pos = 1
      /\ ~was_full => line'[l].pos = line[l].pos
      /\ \A k \in Lines \ {l} : line'[k] = line[k]
      /\ line[l].ipc \in Int /\ line[l].vpc \in Int
  <2>1. line[l] \in LineState
    BY <1>3, <1>6
  <2>2. /\ line[l].ipc \in Int /\ line[l].vpc \in Int /\ line[l].pos \in {0, 1}
    BY <2>1 DEF LineState
  <2>3. [ipc |-> line[l].ipc + 1, vpc |-> line[l].vpc - 1,
         pos |-> IF was_full THEN 1 ELSE line[l].pos] \in LineState
    BY <2>2 DEF LineState
  <2> HIDE DEF l, was_full
  <2>. QED
    BY <1>1, <1>3, <1>6, <2>2, <2>3
<1>8. l \notin FreeLines
  BY <1>3 DEF ErasedExactly
<1>9. pgs_per_line \in Int /\ wp.curline \in Lines /\ WpIndex \in Int
      /\ WpIndex < pgs_per_line
  BY WpIndexRange, GeometryAssumption DEF TypeOK, WpState, pgs_per_line
<1>10. was_full <=> l \in full_line_list
  <2>1. l \in victim_line_pq \cup full_line_list \cup {wp.curline}
    BY <1>3, <1>8 DEF LinesPartition
  <2>2. l = wp.curline => ~was_full
    BY <1>3, <1>7, <1>9 DEF LineSums
  <2>3. l \in victim_line_pq => ~was_full
    BY <1>7, <1>9 DEF LineSums, VictimsWorthCleaning
  <2>4. l \in full_line_list => was_full
    BY DEF LineSums, VictimsWorthCleaning
  <2>. QED
    BY <2>1, <2>2, <2>3, <2>4
<1> HIDE DEF was_full
<1>11. TypeOK'
  <2>1. rmap' \in [0 .. tt_pgs - 1 -> Lpns \cup {INVALID_LPN}]
    BY <1>1 DEF TypeOK
  <2>2. status' \in [Ppa -> {"PG_FREE", "PG_INVALID", "PG_VALID"}]
    BY <1>1 DEF TypeOK
  <2>3. blkcnt' \in [Block -> [ipc : Int, vpc : Int]]
    <3>1. get_blk(q) \in Block
      BY <1>3 DEF get_blk, Ppa, Block
    <3>2. blkcnt \in [Block -> [ipc : Int, vpc : Int]]
      BY DEF TypeOK
    <3>. QED
      BY <1>1, <3>1, <3>2
  <2>4. /\ victim_line_pq' \in SUBSET Lines /\ full_line_list' \in SUBSET Lines
        /\ victim_line_cnt' \in Int /\ full_line_cnt' \in Int
    BY <1>1, <1>3 DEF TypeOK
  <2>. QED
    BY <1>1, <1>7, <2>1, <2>2, <2>3, <2>4 DEF TypeOK, PcTypes
<1>12. Control'
  BY <1>1, <1>3 DEF Control
<1>13. MapConsistent'
  <2>1. MapForward'
    <3> SUFFICES ASSUME NEW k \in Lpns, mapped_ppa(maptbl[k]), k # lpn
                 PROVE  /\ status'[maptbl[k]] = "PG_VALID"
                        /\ rmap'[ppa2pgidx(maptbl[k])] = k
      BY <1>1 DEF MapForward, mapped_ppa, ppa2pgidx, InFlight
    <3>1. maptbl[k] \in Ppa
      BY DEF TypeOK, mapped_ppa
    <3>2. status[maptbl[k]] = "PG_VALID" /\ rmap[ppa2pgidx(maptbl[k])] = k
      BY <1>1 DEF MapConsistent, MapForward, InFlight
    <3>3. maptbl[k] # q
      BY <1>3, <3>2
    <3>. QED
      BY <1>5, <3>1, <3>2, <3>3
  <2>2. MapReverse'
    <3> SUFFICES ASSUME NEW p \in Ppa, status'[p] = "PG_VALID"
                 PROVE  /\ rmap'[ppa2pgidx(p)] \in Lpns
                        /\ maptbl[rmap'[ppa2pgidx(p)]] = p
      BY <1>1 DEF MapReverse, ppa2pgidx
    <3>1. p # q
      BY <1>5
    <3>. QED
      BY <1>4, <1>5, <3>1 DEF MapConsistent, MapReverse
  <2>. QED
    BY <2>1, <2>2 DEF MapConsistent
<1>14. Moved'
  <2>1. ASSUME NEW k \in Lpns, InFlight(k)'
        PROVE  status'[maptbl'[k]] = "PG_INVALID"
    BY <1>1, <1>5, <2>1 DEF InFlight
  <2>. QED
    BY <1>3, <2>1 DEF Moved, CopiedByGc
<1>15. ErasedExactly'
  <2>1. \A p \in Ppa : status'[p] = "PG_FREE" <=> status[p] = "PG_FREE"
    BY <1>3, <1>5
  <2>. QED
    BY <1>1, <1>4, <2>1 DEF ErasedExactly
<1>16. LinesPartition'
  <2>1. CASE was_full
    BY <1>1, <1>3, <1>4, <1>7, <1>8, <1>10, <2>1 DEF LinesPartition
  <2>2. CASE ~was_full
    BY <1>1, <1>3, <1>4, <1>7, <1>8, <1>10, <2>2 DEF LinesPartition
  <2>. QED
    BY <2>1, <2>2
<1>17. CountersMatchLists'
  <2>1. IsFiniteSet(victim_line_pq) /\ IsFiniteSet(full_line_list)
    BY LinesFinite DEF TypeOK
  <2>2. CASE was_full
    <3>1. l \in full_line_list /\ l \notin victim_line_pq
      BY <1>10, <2>2 DEF LinesPartition
    <3>2. Cardinality(full_line_list \ {l}) = Cardinality(full_line_list) - 1
      BY <2>1, <3>1, FS_RemoveElement
    <3>3. Cardinality(victim_line_pq \cup {l}) = Cardinality(victim_line_pq) + 1
      BY <2>1, <3>1, FS_AddElement
    <3>. QED
      BY <1>1, <2>2, <3>2, <3>3 DEF CountersMatchLists
  <2>3. CASE ~was_full
    BY <1>1, <2>3 DEF CountersMatchLists
  <2>. QED
    BY <2>2, <2>3
<1>18. LineSums'
  <2>1. FreeLines \subseteq Lines /\ full_line_list \subseteq Lines
        /\ victim_line_pq \subseteq Lines
    BY DEF TypeOK, FreeLines
  <2>2. WpIndex' = WpIndex
    BY <1>1 DEF WpIndex
  <2>3. wp.curline \notin FreeLines \cup victim_line_pq \cup full_line_list
    BY DEF LinesPartition
  <2>4. /\ line'[wp.curline].ipc >= 0
        /\ line'[wp.curline].ipc + line'[wp.curline].vpc = WpIndex
    <3>1. CASE l = wp.curline
      BY <1>3, <1>7, <1>9, <3>1 DEF LineSums
    <3>2. CASE l # wp.curline
      BY <1>3, <1>7, <1>9, <3>2 DEF LineSums
    <3>. QED
      BY <3>1, <3>2
  <2>5. \A k \in FreeLines : line'[k].ipc = 0 /\ line'[k].vpc = 0
    BY <1>7, <1>8, <2>1 DEF LineSums
  <2>6. VictimsWorthCleaning'
    <3>1. ASSUME NEW k \in full_line_list'
          PROVE  line'[k].ipc = 0 /\ line'[k].vpc = pgs_per_line
      <4>1. k \in full_line_list /\ k # l
        BY <1>1, <1>10, <3>1
      <4>. QED
        BY <1>7, <2>1, <4>1 DEF LineSums, VictimsWorthCleaning
    <3>2. ASSUME NEW k \in victim_line_pq'
          PROVE  line'[k].ipc > 0 /\ line'[k].ipc + line'[k].vpc = pgs_per_line
      <4>1. CASE k = l
        <5>1. line[l].ipc >= 0 /\ line[l].ipc + line[l].vpc = pgs_per_line
          <6>1. l \in full_line_list \/ l \in victim_line_pq
            BY <1>1, <1>10, <3>2, <4>1
          <6>. QED
            BY <1>7, <1>9, <6>1 DEF LineSums, VictimsWorthCleaning
        <5>. QED
          BY <1>7, <1>9, <4>1, <5>1
      <4>2. CASE k # l
        <5>1. k \in victim_line_pq
          BY <1>1, <1>10, <3>2, <4>2
        <5>. QED
          BY <1>7, <2>1, <4>2, <5>1 DEF LineSums, VictimsWorthCleaning
      <4>. QED
        BY <4>1, <4>2
    <3>. QED
      BY <3>1, <3>2 DEF VictimsWorthCleaning
  <2>. QED
    BY <1>1, <1>3, <1>4, <1>9, <2>2, <2>4, <2>5, <2>6 DEF LineSums
<1>. QED
  BY <1>11, <1>12, <1>13, <1>14, <1>15, <1>16, <1>17, <1>18

-----------------------------------------------------------------------------
(* Advancing the write pointer *)

(* What both forms of the advance do to the caller's loop variables.       *)
LEMMA ContinueStep ==
  ASSUME FtlInv, pc = "advance", Continue
  PROVE  /\ pc' \in {"clean", "lpn"} /\ Programmed /\ ~Programmed'
         /\ InGc' <=> InGc
         /\ pc' = "clean" <=> InGc
         /\ gc' \in GcState /\ lpn' \in 0 .. nlpns /\ end_lpn' \in Lpns
         /\ gc'.line = gc.line
         /\ ~InGc => gc' = gc
         /\ \A p \in Ppa : /\ ErasedByGc(p)' <=> ErasedByGc(p)
                           /\ CopiedByGc(p)' <=> CopiedByGc(p)
         /\ Control'
<1> USE DEF FtlInv
<1>1. gc \in GcState /\ lpn \in 0 .. nlpns /\ end_lpn \in Lpns
  BY DEF TypeOK
<1>2. Programmed /\ (InGc => gc.pg < pgs_per_blk) /\ (~InGc => lpn <= end_lpn)
      /\ (~InGc => gc = NoGc)
  BY DEF Control, Programmed
<1>3. CASE InGc
  <2>1. /\ pc' = "clean" /\ gc' = [gc EXCEPT !.pg = gc.pg + 1]
        /\ lpn' = lpn /\ end_lpn' = end_lpn
    BY <1>3 DEF Continue, InGc, reqVars
  <2>2. /\ gc'.caller = gc.caller /\ gc'.line = gc.line /\ gc'.ch = gc.ch
        /\ gc'.lun = gc.lun /\ gc'.pg = gc.pg + 1 /\ gc' \in GcState
        /\ gc.pg \in Int
    BY <1>1, <1>2, <1>3, <2>1, GeometryAssumption DEF GcState
  <2>3. InGc' /\ ~Programmed'
    BY <1>3, <2>1, <2>2 DEF InGc, Programmed
  <2>4. \A p \in Ppa : /\ ErasedByGc(p)' <=> ErasedByGc(p)
                       /\ CopiedByGc(p)' <=> CopiedByGc(p)
    <3> TAKE p \in Ppa
    <3>1. p.pg \in Int
      BY GeometryAssumption DEF Ppa
    <3>. QED
      BY <1>2, <1>3, <2>2, <2>3, <3>1 DEF ErasedByGc, CopiedByGc
  <2>5. Control'
    BY <2>1, <2>3 DEF Control
  <2>. QED
    BY <1>1, <1>2, <1>3, <2>1, <2>2, <2>3, <2>4, <2>5
<1>4. CASE ~InGc
  <2>1. pc' = "lpn" /\ lpn' = lpn + 1 /\ end_lpn' = end_lpn /\ gc' = gc
    BY <1>4 DEF Continue, InGc
  <2>2. lpn' \in 0 .. nlpns
    BY <1>1, <1>2, <1>4, <2>1, GeometryAssumption DEF Lpns
  <2>3. ~InGc' /\ ~Programmed'
    BY <1>4, <2>1 DEF InGc, Programmed
  <2>4. Control'
    BY <1>2, <1>4, <2>1, <2>3 DEF Control
  <2>. QED
    BY <1>1, <1>2, <1>4, <2>1, <2>2, <2>3, <2>4 DEF ErasedByGc, CopiedByGc
<1>. QED
  BY <1>3, <1>4

(* The maps do not change, so neither do the facts about them.             *)
LEMMA AdvanceMaps ==
  ASSUME FtlInv, pc = "advance", Continue,
         UNCHANGED <<maptbl, rmap, status>>
  PROVE  MapConsistent' /\ Moved'
<1> USE DEF FtlInv
<1>1. /\ pc' \in {"clean", "lpn"}
      /\ \A p \in Ppa : CopiedByGc(p)' <=> CopiedByGc(p)
  BY ContinueStep
<1>2. \A l \in Lpns : mapped_ppa(maptbl[l]) => maptbl[l] \in Ppa
  BY DEF TypeOK, mapped_ppa
<1>3. MapConsistent'
  BY <1>1 DEF MapConsistent, MapForward, MapReverse, InFlight, mapped_ppa, ppa2pgidx
<1>4. Moved'
  BY <1>1, <1>2 DEF Moved, InFlight, mapped_ppa
<1>. QED
  BY <1>3, <1>4

(* ssd_advance_write_pointer within the line.                              *)
LEMMA AdvanceInLineStep ==
  ASSUME FtlInv, AdvanceInLine
  PROVE  FtlInv'
<1> USE DEF FtlInv
<1>1. /\ pc = "advance" /\ ~LastPageOfLine /\ Continue
      /\ wp' = IF wp.ch + 1 < nchs
               THEN [wp EXCEPT !.ch = wp.ch + 1]
               ELSE IF wp.lun + 1 < luns_per_ch
                    THEN [wp EXCEPT !.ch = 0, !.lun = wp.lun + 1]
                    ELSE [wp EXCEPT !.ch = 0, !.lun = 0, !.pg = wp.pg + 1]
      /\ UNCHANGED <<maptbl, rmap, status, blkcnt, line, free_line_list,
                     victim_line_pq, full_line_list, free_line_cnt,
                     victim_line_cnt, full_line_cnt>>
  BY DEF AdvanceInLine, mapVars, nandVars, listVars
<1>2. wp \in WpState
  BY DEF TypeOK
<1>3. /\ wp.ch \in 0 .. nchs - 1 /\ wp.lun \in 0 .. luns_per_ch - 1
      /\ wp.pg \in 0 .. pgs_per_blk - 1 /\ wp.blk \in Lines /\ wp.curline \in Lines
  BY <1>2 DEF WpState
<1>4. /\ wp'.blk = wp.blk /\ wp'.curline = wp.curline
      /\ \/ /\ wp.ch + 1 < nchs
            /\ wp'.ch = wp.ch + 1 /\ wp'.lun = wp.lun /\ wp'.pg = wp.pg
         \/ /\ wp.ch + 1 = nchs /\ wp.lun + 1 < luns_per_ch
            /\ wp'.ch = 0 /\ wp'.lun = wp.lun + 1 /\ wp'.pg = wp.pg
         \/ /\ wp.ch + 1 = nchs /\ wp.lun + 1 = luns_per_ch
            /\ wp.pg + 1 < pgs_per_blk
            /\ wp'.ch = 0 /\ wp'.lun = 0 /\ wp'.pg = wp.pg + 1
      /\ wp' \in WpState
  <2>1. CASE wp.ch + 1 < nchs
    <3>1. wp' = [ch |-> wp.ch + 1, lun |-> wp.lun, pg |-> wp.pg,
                 blk |-> wp.blk, curline |-> wp.curline]
      BY <1>1, <1>2, <2>1 DEF WpState
    <3>. QED
      BY <1>3, <2>1, <3>1, GeometryAssumption DEF WpState
  <2>2. CASE wp.ch + 1 = nchs /\ wp.lun + 1 < luns_per_ch
    <3>1. wp' = [wp EXCEPT !.ch = 0, !.lun = wp.lun + 1]
      BY <1>1, <1>3, <2>2, GeometryAssumption
    <3>2. wp' = [ch |-> 0, lun |-> wp.lun + 1, pg |-> wp.pg,
                 blk |-> wp.blk, curline |-> wp.curline]
      BY <1>2, <3>1 DEF WpState
    <3>. QED
      BY <1>3, <2>2, <3>2, GeometryAssumption DEF WpState
  <2>3. CASE wp.ch + 1 = nchs /\ wp.lun + 1 = luns_per_ch
    <3>1. wp' = [wp EXCEPT !.ch = 0, !.lun = 0, !.pg = wp.pg + 1]
      BY <1>1, <1>3, <2>3, GeometryAssumption
    <3>2. wp' = [ch |-> 0, lun |-> 0, pg |-> wp.pg + 1,
                 blk |-> wp.blk, curline |-> wp.curline]
      BY <1>2, <3>1 DEF WpState
    <3>3. wp.pg + 1 < pgs_per_blk
      BY <1>1, <1>3, <2>3, GeometryAssumption DEF LastPageOfLine
    <3>. QED
      BY <1>3, <2>3, <3>2, <3>3, GeometryAssumption DEF WpState
  <2>. QED
    BY <1>3, <2>1, <2>2, <2>3, GeometryAssumption
<1>5. /\ pc' \in {"clean", "lpn"} /\ Programmed /\ ~Programmed'
      /\ InGc' <=> InGc
      /\ gc' \in GcState /\ lpn' \in 0 .. nlpns /\ end_lpn' \in Lpns
      /\ gc'.line = gc.line
      /\ \A p \in Ppa : ErasedByGc(p)' <=> ErasedByGc(p)
      /\ Control'
  BY <1>1, ContinueStep
<1>6. TypeOK'
  BY <1>1, <1>4, <1>5 DEF TypeOK, PcTypes
<1>7. MapConsistent' /\ Moved'
  BY <1>1, AdvanceMaps
<1>8. FreeLines' = FreeLines
  BY <1>1 DEF FreeLines
<1>9. ErasedExactly'
  <2>1. ASSUME NEW p \in Ppa PROVE Written(p)' <=> Written(p)
    <3>1. /\ p.ch \in 0 .. nchs - 1 /\ p.lun \in 0 .. luns_per_ch - 1
          /\ p.pg \in 0 .. pgs_per_blk - 1
      BY DEF Ppa
    <3>. QED
      BY <1>3, <1>4, <1>5, <3>1, GeometryAssumption DEF Written
  <2>. QED
    BY <1>1, <1>4, <1>5, <1>8, <2>1 DEF ErasedExactly
<1>10. LinesPartition' /\ CountersMatchLists'
  BY <1>1, <1>4, <1>5, <1>8 DEF LinesPartition, CountersMatchLists
<1>11. LineSums'
  <2>1. WpIndex \in Int
    BY WpIndexRange, <1>2, GeometryAssumption DEF pgs_per_line
  <2>2. WpIndex' = WpIndex + 1
    <3>1. CASE wp'.ch = wp.ch + 1 /\ wp'.lun = wp.lun /\ wp'.pg = wp.pg
      BY <1>3, <3>1, GeometryAssumption DEF WpIndex
    <3>2. CASE /\ wp.ch + 1 = nchs
               /\ wp'.ch = 0 /\ wp'.lun = wp.lun + 1 /\ wp'.pg = wp.pg
      BY <1>3, <3>2, GeometryAssumption DEF WpIndex
    <3>3. CASE /\ wp.ch + 1 = nchs /\ wp.lun + 1 = luns_per_ch
               /\ wp'.ch = 0 /\ wp'.lun = 0 /\ wp'.pg = wp.pg + 1
      <4>1. PICK x \in Int : x = wp.pg * luns_per_ch
        BY <1>3, GeometryAssumption
      <4>2. wp'.pg * luns_per_ch = x + luns_per_ch
        BY <1>3, <3>3, <4>1, GeometryAssumption
      <4>3. WpIndex' = (x + luns_per_ch) * nchs
        BY <3>3, <4>2, GeometryAssumption DEF WpIndex
      <4>4. WpIndex = (x + luns_per_ch - 1) * nchs + nchs - 1
        <5>1. wp.lun = luns_per_ch - 1 /\ wp.ch = nchs - 1
          BY <1>3, <3>3, GeometryAssumption
        <5>2. x + wp.lun = x + luns_per_ch - 1
          BY <5>1, GeometryAssumption
        <5>. QED
          BY <4>1, <5>1, <5>2, GeometryAssumption DEF WpIndex
      <4>5. ASSUME NEW y \in Int, NEW n \in Int
            PROVE  y * n = (y - 1) * n + n - 1 + 1
        OBVIOUS
      <4>. QED
        BY <4>3, <4>4, <4>5, GeometryAssumption
    <3>. QED
      BY <1>4, <3>1, <3>2, <3>3
  <2>. QED
    BY <1>1, <1>4, <1>5, <1>8, <2>1, <2>2 DEF LineSums, VictimsWorthCleaning
<1>. QED
  BY <1>5, <1>6, <1>7, <1>9, <1>10, <1>11

(* ssd_advance_write_pointer at the end of the line: the line becomes full *)
(* or a victim, the head of the free list the current line.                *)
LEMMA NextLineStep ==
  ASSUME FtlInv, AdvanceToNextLine
  PROVE  FtlInv'
<1> USE DEF FtlInv
<1> DEFINE l == wp.curline
           next == Head(free_line_list)
           full == line[l].vpc = pgs_per_line
<1>1. /\ pc = "advance" /\ LastPageOfLine /\ Continue
      /\ free_line_list # <<>>
      /\ full => /\ full_line_list' = full_line_list \cup {l}
                 /\ full_line_cnt' = full_line_cnt + 1
                 /\ UNCHANGED <<line, victim_line_pq, victim_line_cnt>>
      /\ ~full => /\ victim_line_pq' = victim_line_pq \cup {l}
                  /\ victim_line_cnt' = victim_line_cnt + 1
                  /\ line' = [line EXCEPT ![l].pos = 1]
                  /\ UNCHANGED <<full_line_list, full_line_cnt>>
      /\ free_line_list' = Tail(free_line_list)
      /\ free_line_cnt' = free_line_cnt - 1
      /\ wp' = [ch |-> 0, lun |-> 0, pg |-> 0, blk |-> next, curline |-> next]
      /\ UNCHANGED <<maptbl, rmap, status, blkcnt>>
  BY DEF AdvanceToNextLine, mapVars, nandVars
<1>2. /\ wp \in WpState /\ l \in Lines
      /\ wp.ch = nchs - 1 /\ wp.lun = luns_per_ch - 1 /\ wp.pg = pgs_per_blk - 1
  <2>1. wp \in WpState
    BY DEF TypeOK
  <2>. QED
    <3>1. /\ wp.ch \in Int /\ wp.lun \in Int /\ wp.pg \in Int /\ l \in Lines
      BY <2>1 DEF WpState
    <3>2. /\ wp.ch + 1 = nchs /\ wp.lun + 1 = luns_per_ch
          /\ wp.pg + 1 = pgs_per_blk
      BY <1>1 DEF LastPageOfLine
    <3>. QED
      BY <2>1, <3>1, <3>2, GeometryAssumption
<1>3. /\ free_line_list' \in Seq(Lines)
      /\ Len(free_line_list') = Len(free_line_list) - 1
      /\ next \in Lines /\ next \in FreeLines
      /\ FreeLines' = FreeLines \ {next}
      /\ \A i, j \in DOMAIN free_line_list' :
           free_line_list'[i] = free_line_list'[j] => i = j
  <2> DEFINE s == free_line_list
  <2>1. s \in Seq(Lines) /\ s # <<>>
    BY <1>1 DEF TypeOK
  <2>2. \A i, j \in DOMAIN s : s[i] = s[j] => i = j
    BY DEF LinesPartition
  <2> HIDE DEF s
  <2>3. /\ Tail(s) \in Seq(Lines)
        /\ Len(Tail(s)) = Len(s) - 1
        /\ Head(s) \in Lines
        /\ Head(s) \in {s[i] : i \in DOMAIN s}
        /\ {Tail(s)[i] : i \in DOMAIN Tail(s)}
             = {s[i] : i \in DOMAIN s} \ {Head(s)}
        /\ \A i, j \in DOMAIN Tail(s) : Tail(s)[i] = Tail(s)[j] => i = j
    BY <2>1, <2>2, FreeListTail
  <2>4. free_line_list' = Tail(s) /\ next = Head(s)
    BY <1>1 DEF s
  <2>5. /\ FreeLines = {s[i] : i \in DOMAIN s}
        /\ FreeLines' = {Tail(s)[i] : i \in DOMAIN Tail(s)}
    BY <2>4 DEF FreeLines, s
  <2> HIDE DEF next
  <2>6. Len(s) = Len(free_line_list)
    BY DEF s
  <2>. QED
    BY <2>3, <2>4, <2>5, <2>6
<1> HIDE DEF next
<1>4. /\ wp'.ch = 0 /\ wp'.lun = 0 /\ wp'.pg = 0
      /\ wp'.blk = next /\ wp'.curline = next /\ wp' \in WpState
  BY <1>1, <1>3, GeometryAssumption DEF WpState
<1>5. /\ pc' \in {"clean", "lpn"} /\ Programmed /\ ~Programmed'
      /\ InGc' <=> InGc
      /\ gc' \in GcState /\ lpn' \in 0 .. nlpns /\ end_lpn' \in Lpns
      /\ gc'.line = gc.line
      /\ \A p \in Ppa : ErasedByGc(p)' <=> ErasedByGc(p)
      /\ Control'
  BY <1>1, ContinueStep
<1>6. /\ line \in [Lines -> LineState] /\ line' \in [Lines -> LineState]
      /\ \A k \in Lines : line'[k].ipc = line[k].ipc /\ line'[k].vpc = line[k].vpc
      /\ \A k \in Lines \ {l} : line'[k] = line[k]
      /\ full => line'[l].pos = line[l].pos
      /\ ~full => line'[l].pos = 1
  <2>1. line \in [Lines -> LineState]
    BY DEF TypeOK
  <2>2. CASE full
    BY <1>1, <2>1, <2>2
  <2>3. CASE ~full
    <3>1. line' = [line EXCEPT ![l].pos = 1]
      BY <1>1, <2>3
    <3>. QED
      BY <1>2, <2>1, <2>3, <3>1 DEF LineState
  <2>. QED
    BY <2>2, <2>3
<1>7. /\ l \notin FreeLines \cup victim_line_pq \cup full_line_list
      /\ next \notin victim_line_pq \cup full_line_list \cup {l}
      /\ FreeLines \subseteq Lines /\ victim_line_pq \subseteq Lines
      /\ full_line_list \subseteq Lines
      /\ InGc => gc.line # l /\ gc.line # next
  BY <1>3 DEF LinesPartition, TypeOK, FreeLines
<1>8. /\ pgs_per_line \in Int
      /\ line[l].ipc \in Int /\ line[l].vpc \in Int
      /\ line[l].ipc >= 0 /\ line[l].ipc + line[l].vpc = pgs_per_line
  <2>1. line[l] \in LineState
    BY <1>2, <1>6
  <2>2. WpIndex + 1 = pgs_per_line /\ WpIndex \in Int
    BY <1>1, <1>2, LastWpIndex, WpIndexRange, GeometryAssumption DEF pgs_per_line
  <2>. QED
    BY <1>5, <2>1, <2>2 DEF LineSums, LineState
<1> HIDE DEF full
<1>9. TypeOK'
  <2>1. /\ victim_line_pq' \in SUBSET Lines /\ full_line_list' \in SUBSET Lines
        /\ victim_line_cnt' \in Int /\ full_line_cnt' \in Int
        /\ free_line_cnt' \in Int
    BY <1>1, <1>2 DEF TypeOK
  <2>. QED
    BY <1>1, <1>3, <1>4, <1>5, <1>6, <2>1 DEF TypeOK, PcTypes
<1>10. MapConsistent' /\ Moved'
  BY <1>1, AdvanceMaps
<1>11. ErasedExactly'
  <2> SUFFICES ASSUME NEW p \in Ppa
               PROVE  status[p] = "PG_FREE" <=>
                        \/ p.blk \in FreeLines \ {next}
                        \/ p.blk = next /\ ~Written(p)'
                        \/ ErasedByGc(p)
    BY <1>1, <1>3, <1>4, <1>5 DEF ErasedExactly
  <2>1. /\ p.ch \in 0 .. nchs - 1 /\ p.lun \in 0 .. luns_per_ch - 1
        /\ p.pg \in 0 .. pgs_per_blk - 1
    BY DEF Ppa
  <2>2. Written(p)
    BY <1>2, <1>5, <2>1, GeometryAssumption DEF Written
  <2>3. ~Written(p)'
    BY <1>4, <1>5, <2>1, GeometryAssumption DEF Written
  <2>. QED
    BY <1>3, <2>2, <2>3 DEF ErasedExactly
<1>12. LinesPartition'
  <2>1. CASE full
    BY <1>1, <1>3, <1>4, <1>5, <1>6, <1>7, <2>1 DEF LinesPartition
  <2>2. CASE ~full
    BY <1>1, <1>3, <1>4, <1>5, <1>6, <1>7, <2>2 DEF LinesPartition
  <2>. QED
    BY <2>1, <2>2
<1>13. CountersMatchLists'
  <2>1. IsFiniteSet(victim_line_pq) /\ IsFiniteSet(full_line_list)
    BY LinesFinite DEF TypeOK
  <2>2. /\ Cardinality(full_line_list \cup {l}) = Cardinality(full_line_list) + 1
        /\ Cardinality(victim_line_pq \cup {l}) = Cardinality(victim_line_pq) + 1
    BY <1>7, <2>1, FS_AddElement
  <2>3. free_line_cnt' = Len(free_line_list')
    BY <1>1, <1>3 DEF CountersMatchLists
  <2>. QED
    BY <1>1, <2>2, <2>3 DEF CountersMatchLists
<1>14. LineSums'
  <2>1. WpIndex' = 0
    BY <1>4, GeometryAssumption DEF WpIndex
  <2>2. line'[next].ipc = 0 /\ line'[next].vpc = 0
    BY <1>3, <1>6 DEF LineSums
  <2>3. \A k \in FreeLines' : line'[k].ipc = 0 /\ line'[k].vpc = 0
    BY <1>3, <1>6, <1>7 DEF LineSums
  <2>4. VictimsWorthCleaning'
    <3>1. ASSUME NEW k \in full_line_list'
          PROVE  line'[k].ipc = 0 /\ line'[k].vpc = pgs_per_line
      <4>1. CASE k = l
        BY <1>1, <1>2, <1>6, <1>7, <1>8, <3>1, <4>1 DEF full
      <4>2. CASE k # l
        BY <1>1, <1>6, <1>7, <3>1, <4>2 DEF LineSums, VictimsWorthCleaning
      <4>. QED
        BY <4>1, <4>2
    <3>2. ASSUME NEW k \in victim_line_pq'
          PROVE  line'[k].ipc > 0 /\ line'[k].ipc + line'[k].vpc = pgs_per_line
      <4>1. CASE k = l
        BY <1>1, <1>2, <1>6, <1>7, <1>8, <3>2, <4>1 DEF full
      <4>2. CASE k # l
        BY <1>1, <1>6, <1>7, <3>2, <4>2 DEF LineSums, VictimsWorthCleaning
      <4>. QED
        BY <4>1, <4>2
    <3>. QED
      BY <3>1, <3>2 DEF VictimsWorthCleaning
  <2>. QED
    BY <1>4, <1>5, <2>1, <2>2, <2>3, <2>4 DEF LineSums
<1>. QED
  BY <1>5, <1>9, <1>10, <1>11, <1>12, <1>13, <1>14

-----------------------------------------------------------------------------
(* The initial state *)

(* ssd_init establishes the invariant.                                     *)
LEMMA InitInv == Init => FtlInv
<1> SUFFICES ASSUME Init PROVE FtlInv
  OBVIOUS
<1> USE GeometryAssumption DEF Init
<1>1. /\ ~InGc /\ ~Programmed
      /\ \A p : ~ErasedByGc(p) /\ ~CopiedByGc(p)
      /\ \A p \in Ppa : ~Written(p)
  BY DEF InGc, Programmed, NoGc, ErasedByGc, CopiedByGc, Written, Ppa
<1>2. /\ free_line_list \in Seq(Lines)
      /\ Len(free_line_list) = tt_lines - 1
      /\ DOMAIN free_line_list = 1 .. tt_lines - 1
      /\ FreeLines = Lines \ {0}
      /\ 0 \in Lines
  <2>1. DOMAIN free_line_list = 1 .. tt_lines - 1
    OBVIOUS
  <2>2. \A i \in 1 .. tt_lines - 1 : free_line_list[i] = i /\ i \in Lines
    BY DEF Lines
  <2>3. free_line_list \in [1 .. tt_lines - 1 -> Lines]
    BY <2>2
  <2>4. tt_lines - 1 \in Nat
    OBVIOUS
  <2>5. free_line_list \in Seq(Lines) /\ Len(free_line_list) = tt_lines - 1
    BY <2>3, <2>4
  <2>6. FreeLines = Lines \ {0}
    BY <2>1, <2>2 DEF FreeLines, Lines
  <2>. QED
    BY <2>1, <2>5, <2>6 DEF Lines
<1>3. TypeOK
  <2>1. /\ 0 \in 0 .. nchs - 1 /\ 0 \in 0 .. luns_per_ch - 1
        /\ 0 \in 0 .. pgs_per_blk - 1 /\ 0 \in 0 .. nlpns /\ 0 \in Lpns
        /\ 0 \in 0 .. nchs /\ 0 \in 0 .. pgs_per_blk
    BY DEF Lpns
  <2>2. wp \in WpState /\ gc \in GcState
    BY <1>2, <2>1 DEF WpState, GcState, NoGc
  <2>3. line \in [Lines -> LineState]
    BY DEF LineState
  <2>. QED
    BY <1>2, <2>1, <2>2, <2>3 DEF TypeOK, PcTypes
<1>4. Control
  BY <1>1 DEF Control
<1>5. MapConsistent /\ Moved
  BY <1>1 DEF MapConsistent, MapForward, MapReverse, Moved, mapped_ppa
<1>6. ErasedExactly
  BY <1>1, <1>2 DEF ErasedExactly, Ppa
<1>7. LinesPartition
  BY <1>1, <1>2 DEF LinesPartition
<1>8. CountersMatchLists
  BY <1>2, FS_EmptySet DEF CountersMatchLists
<1>9. LineSums
  <2>1. WpIndex = 0
    BY DEF WpIndex
  <2>. QED
    BY <1>1, <1>2, <2>1 DEF LineSums, VictimsWorthCleaning
<1>. QED
  BY <1>3, <1>4, <1>5, <1>6, <1>7, <1>8, <1>9 DEF FtlInv

-----------------------------------------------------------------------------
(* Theorems *)

(* Every step of ftl_thread preserves the inductive invariant.             *)
LEMMA NextInv == FtlInv /\ [Next]_vars => FtlInv'
<1> SUFFICES ASSUME FtlInv, [Next]_vars PROVE FtlInv'
  OBVIOUS
<1>1. CASE UNCHANGED vars
  <2>1. /\ UNCHANGED <<mapVars, nandVars, line, listVars, wp, gc>>
        /\ UNCHANGED <<maptbl, rmap, status, blkcnt, free_line_list,
                       victim_line_pq, full_line_list, free_line_cnt,
                       victim_line_cnt, full_line_cnt, lpn, end_lpn, pc>>
    BY <1>1 DEF vars, mapVars, nandVars, listVars, reqVars
  <2>. QED
    BY <2>1 DEF FtlInv, TypeOK, Control, MapConsistent, MapForward, MapReverse,
                Moved, ErasedExactly, LinesPartition, CountersMatchLists, LineSums,
                VictimsWorthCleaning, InGc, InFlight, Programmed, CopiedByGc,
                ErasedByGc, Written, FreeLines, WpIndex, mapped_ppa, ppa2pgidx
<1>2. CASE (\E s, e \in Lpns : DequeueWrite(s, e)) \/ DequeueOther
  BY <1>2, ControlSteps
<1>3. CASE CollectStep
  BY <1>3, ControlSteps, StartGcStep, GcWritePageStep, SkipPageStep, EraseStep,
     FreeLineStep DEF CollectStep
<1>4. CASE WriteStep
  BY <1>4, ControlSteps, InvalidateStep, WritePageStep DEF WriteStep
<1>5. CASE AdvanceStep
  BY <1>5, ControlSteps, AdvanceInLineStep, NextLineStep DEF AdvanceStep
<1>. QED
  BY <1>1, <1>2, <1>3, <1>4, <1>5 DEF Next, Step

(* FtlInv holds in every reachable state, for every geometry, namespace    *)
(* size and pair of thresholds.                                            *)
THEOREM FtlInvariant == Spec => []FtlInv
<1>1. FtlInv /\ [Next]_vars => FtlInv'
  BY NextInv
<1>. QED
  BY <1>1, InitInv, PTL DEF Spec

(* Every address maptbl, rmap, the write pointer and do_gc hold is inside  *)
(* the drive.                                                              *)
THEOREM TypeCorrect == Spec => []TypeOK
<1>1. FtlInv => TypeOK
  BY DEF FtlInv
<1>. QED
  BY <1>1, FtlInvariant, PTL

(* maptbl and rmap are inverse to each other on the valid pages at every   *)
(* step of ssd_write and do_gc.                                            *)
THEOREM MapsStayConsistent == Spec => []MapConsistent
<1>1. FtlInv => MapConsistent
  BY DEF FtlInv
<1>. QED
  BY <1>1, FtlInvariant, PTL

(* The erased pages are exactly those of free lines, the rest of the       *)
(* current line and the blocks GC has erased.                              *)
THEOREM ErasedPagesExact == Spec => []ErasedExactly
<1>1. FtlInv => ErasedExactly
  BY DEF FtlInv
<1>. QED
  BY <1>1, FtlInvariant, PTL

(* No line is lost from, or twice in, the free, victim and full lists.     *)
THEOREM LinesStayPartitioned == Spec => []LinesPartition
<1>1. FtlInv => LinesPartition
  BY DEF FtlInv
<1>. QED
  BY <1>1, FtlInvariant, PTL

(* The three line counters are the sizes of the lists: the thresholds of   *)
(* should_gc and should_gc_high see the true number of free lines.         *)
THEOREM CountersExact == Spec => []CountersMatchLists
<1>1. FtlInv => CountersMatchLists
  BY DEF FtlInv
<1>. QED
  BY <1>1, FtlInvariant, PTL

(* A line in the victim heap has an invalid page, a full line has none.    *)
THEOREM VictimsAlwaysWorthCleaning == Spec => []VictimsWorthCleaning
<1>1. FtlInv => VictimsWorthCleaning
  BY DEF FtlInv, LineSums
<1>. QED
  BY <1>1, FtlInvariant, PTL

(* Out-of-place update: an LPN is only ever moved to an erased page, and   *)
(* garbage collection moves only LPNs of the line it collects.             *)
THEOREM OutOfPlaceUpdate == Spec => RemapOnlyToErased
<1> DEFINE A == \A l \in Lpns : maptbl'[l] # maptbl[l] =>
                  /\ maptbl'[l] \in Ppa
                  /\ status[maptbl'[l]] = "PG_FREE"
                  /\ InGc => maptbl[l] # UNMAPPED_PPA /\ maptbl[l].blk = gc.line
<1>1. ASSUME FtlInv, WritePage PROVE A
  <2>1. /\ pc = "program" /\ Program(lpn) /\ lpn \in Lpns /\ ~InGc
    BY <1>1, GeometryAssumption DEF WritePage, FtlInv, Control, TypeOK, Lpns
  <2>2. /\ get_new_page \in Ppa /\ status[get_new_page] = "PG_FREE"
    BY <1>1, <2>1, WpOnErasedPage DEF Programmed
  <2>3. /\ maptbl'[lpn] = get_new_page
        /\ \A k \in Lpns \ {lpn} : maptbl'[k] = maptbl[k]
    BY <1>1, <2>1, ProgramMaps
  <2>. QED
    BY <2>1, <2>2, <2>3
<1>2. ASSUME FtlInv, gc_write_page PROVE A
  <2> DEFINE l == rmap[ppa2pgidx(GcPage)]
  <2>1. /\ pc = "clean" /\ Program(l) /\ status[GcPage] = "PG_VALID"
        /\ gc.ch < nchs /\ gc.pg < pgs_per_blk /\ gc \in GcState
    BY <1>2 DEF gc_write_page, FtlInv, TypeOK
  <2>2. GcPage \in Ppa
    BY <2>1, GeometryAssumption DEF GcState, Ppa, GcPage
  <2>3. ~CopiedByGc(GcPage)
    BY <2>1, GeometryAssumption DEF CopiedByGc, GcPage, Programmed, GcState
  <2>4. l \in Lpns /\ maptbl[l] = GcPage
    BY <1>2, <2>1, <2>2, <2>3 DEF FtlInv, MapConsistent, MapReverse
  <2>5. /\ get_new_page \in Ppa /\ status[get_new_page] = "PG_FREE"
    BY <1>2, <2>1, WpOnErasedPage DEF Programmed
  <2>6. /\ maptbl'[l] = get_new_page
        /\ \A k \in Lpns \ {l} : maptbl'[k] = maptbl[k]
    BY <1>2, <2>1, <2>4, ProgramMaps
  <2>7. GcPage # UNMAPPED_PPA /\ GcPage.blk = gc.line
    BY <2>2, MarkerAssumption DEF GcPage
  <2> HIDE DEF l
  <2>. QED
    BY <2>4, <2>5, <2>6, <2>7
<1>3. ASSUME UNCHANGED maptbl PROVE A
  BY <1>3
<1>4. FtlInv /\ [Next]_vars => [A]_vars
  <2> SUFFICES ASSUME FtlInv, [Next]_vars PROVE [A]_vars
    OBVIOUS
  <2>1. WritePage \/ gc_write_page \/ UNCHANGED maptbl
    BY DEF Next, Step, CollectStep, WriteStep, AdvanceStep, vars, mapVars,
           DequeueWrite, DequeueOther, ForcedGc, BackgroundGc, StartGc,
           ForcedGcDone, NoBackgroundGc, SkipPage, mark_block_free,
           mark_line_free, InvalidateOld, FirstWrite, WriteDone,
           AdvanceInLine, AdvanceToNextLine, AdvanceAbort
  <2>. QED
    BY <1>1, <1>2, <1>3, <2>1
<1>5. RemapOnlyToErased <=> [][A]_vars
  BY DEF RemapOnlyToErased
<1>. QED
  BY <1>4, <1>5, FtlInvariant, PTL DEF Spec

-----------------------------------------------------------------------------
(* Counting pages. CountsExact is not part of FtlInv, which needs only     *)
(* sums; it is preserved by every step from a state with FtlInv.           *)

\* The pages of a line, and of a block, that have status st under f.
LinePages(f, st, l) == {p \in Ppa : p.blk = l /\ f[p] = st}
BlockPages(f, st, b) == {p \in LinePages(f, st, b.blk) : get_blk(p) = b}

\* What a count of pages with status st gains when one page goes from s0 to s1.
Gain(st, s0, s1) == IF st = s1 THEN 1 ELSE IF st = s0 THEN -1 ELSE 0

(* The pages are finitely many: each has its own index.                    *)
LEMMA PagesFinite == IsFiniteSet(Ppa)
<1> DEFINE f == [p \in Ppa |-> ppa2pgidx(p)]
<1>1. f \in Injection(Ppa, 0 .. tt_pgs - 1)
  <2>1. f \in [Ppa -> 0 .. tt_pgs - 1]
    BY PgidxInjective
  <2>2. \A p, q \in Ppa : f[p] = f[q] => p = q
    BY PgidxInjective
  <2> HIDE DEF f
  <2>. QED
    BY <2>1, <2>2 DEF Injection, IsInjective
<1>2. tt_pgs \in Int
  BY GeometryAssumption DEF tt_pgs, pgs_per_ch, pgs_per_lun
<1>3. IsFiniteSet(0 .. tt_pgs - 1)
  BY <1>2, FS_Interval
<1>. QED
  BY <1>1, <1>3, FS_Injection

(* So are the pages of a line or a block with some status.                 *)
LEMMA CountsFinite ==
  ASSUME NEW f, NEW st
  PROVE  /\ \A l : /\ IsFiniteSet(LinePages(f, st, l))
                   /\ Cardinality(LinePages(f, st, l)) \in Nat
         /\ \A b : /\ IsFiniteSet(BlockPages(f, st, b))
                   /\ Cardinality(BlockPages(f, st, b)) \in Nat
<1>1. ASSUME NEW X \in SUBSET Ppa
      PROVE  IsFiniteSet(X) /\ Cardinality(X) \in Nat
  BY PagesFinite, FS_Subset, FS_CardinalityType
<1>2. \A l : LinePages(f, st, l) \in SUBSET Ppa
  BY DEF LinePages
<1>3. \A b : BlockPages(f, st, b) \in SUBSET Ppa
  BY DEF BlockPages, LinePages
<1>. QED
  BY <1>1, <1>2, <1>3

(* One page changes its status: the counts of its line and of its block    *)
(* change by one each, and no others.                                      *)
LEMMA OnePageCounts ==
  ASSUME NEW f, NEW g, NEW q \in Ppa, NEW s0, NEW s1, s0 # s1,
         f[q] = s0, g[q] = s1, \A p \in Ppa \ {q} : g[p] = f[p], NEW st
  PROVE  /\ \A l : Cardinality(LinePages(g, st, l)) =
              Cardinality(LinePages(f, st, l))
                + (IF l = q.blk THEN Gain(st, s0, s1) ELSE 0)
         /\ \A b : Cardinality(BlockPages(g, st, b)) =
              Cardinality(BlockPages(f, st, b))
                + (IF b = get_blk(q) THEN Gain(st, s0, s1) ELSE 0)
<1>1. ASSUME NEW X, NEW Y, IsFiniteSet(X), Cardinality(X) \in Nat, NEW c \in BOOLEAN,
             c /\ st = s1 => Y = X \cup {q} /\ q \notin X,
             c /\ st = s0 => Y = X \ {q} /\ q \in X,
             ~(c /\ st \in {s0, s1}) => Y = X
      PROVE  Cardinality(Y) = Cardinality(X) + (IF c THEN Gain(st, s0, s1) ELSE 0)
  <2>1. CASE c /\ st = s1
    BY <1>1, <2>1, FS_AddElement DEF Gain
  <2>2. CASE c /\ st = s0
    BY <1>1, <2>2, FS_RemoveElement DEF Gain
  <2>3. CASE ~(c /\ st \in {s0, s1})
    BY <1>1, <2>3 DEF Gain
  <2>. QED
    BY <2>1, <2>2, <2>3
<1>2. ASSUME NEW l
      PROVE  Cardinality(LinePages(g, st, l)) =
                Cardinality(LinePages(f, st, l)) + (IF l = q.blk THEN Gain(st, s0, s1) ELSE 0)
  <2> DEFINE X == LinePages(f, st, l)
             Y == LinePages(g, st, l)
             c == l = q.blk
  <2>1. /\ c /\ st = s1 => Y = X \cup {q} /\ q \notin X
        /\ c /\ st = s0 => Y = X \ {q} /\ q \in X
        /\ ~(c /\ st \in {s0, s1}) => Y = X
    BY DEF LinePages
  <2>2. IsFiniteSet(X) /\ Cardinality(X) \in Nat /\ c \in BOOLEAN
    BY CountsFinite
  <2> HIDE DEF X, Y, c
  <2>3. Cardinality(Y) = Cardinality(X) + (IF c THEN Gain(st, s0, s1) ELSE 0)
    BY <1>1, <2>1, <2>2
  <2>. QED
    BY <2>3 DEF X, Y, c
<1>3. ASSUME NEW b
      PROVE  Cardinality(BlockPages(g, st, b)) =
                Cardinality(BlockPages(f, st, b))
                  + (IF b = get_blk(q) THEN Gain(st, s0, s1) ELSE 0)
  <2> DEFINE X == BlockPages(f, st, b)
             Y == BlockPages(g, st, b)
             c == b = get_blk(q)
  <2>1. /\ c /\ st = s1 => Y = X \cup {q} /\ q \notin X
        /\ c /\ st = s0 => Y = X \ {q} /\ q \in X
        /\ ~(c /\ st \in {s0, s1}) => Y = X
    <3>1. c => b.blk = q.blk
      BY DEF get_blk
    <3>. QED
      BY <3>1 DEF BlockPages, LinePages
  <2>2. IsFiniteSet(X) /\ Cardinality(X) \in Nat /\ c \in BOOLEAN
    BY CountsFinite
  <2> HIDE DEF X, Y, c
  <2>3. Cardinality(Y) = Cardinality(X) + (IF c THEN Gain(st, s0, s1) ELSE 0)
    BY <1>1, <2>1, <2>2
  <2>. QED
    BY <2>3 DEF X, Y, c
<1>. QED
  BY <1>2, <1>3

(* CountsExact, with the page states as a parameter.                       *)
LEMMA CountsAre ==
  CountsExact <=>
    /\ \A l \in Lines :
         ~(InGc /\ l = gc.line) =>
           /\ line[l].vpc = Cardinality(LinePages(status, "PG_VALID", l))
           /\ line[l].ipc = Cardinality(LinePages(status, "PG_INVALID", l))
    /\ \A b \in Block :
         /\ blkcnt[b].vpc = Cardinality(BlockPages(status, "PG_VALID", b))
         /\ blkcnt[b].ipc = Cardinality(BlockPages(status, "PG_INVALID", b))
  BY DEF CountsExact, Pages, LinePages, BlockPages

(* Steps that write and erase no page, and do not end a collection.        *)
LEMMA CountsKept ==
  ASSUME CountsExact, UNCHANGED <<status, blkcnt>>,
         \A l \in Lines : line'[l].vpc = line[l].vpc /\ line'[l].ipc = line[l].ipc,
         InGc => InGc' /\ gc'.line = gc.line
  PROVE  CountsExact'
  BY DEF CountsExact, Pages

(* A page is programmed: one valid page more.                              *)
LEMMA CountsProgram ==
  ASSUME FtlInv, CountsExact, NEW l \in Lpns, Program(l), pc \in {"program", "clean"}
  PROVE  CountsExact'
<1> DEFINE q == get_new_page
<1>1. /\ ~Programmed /\ gc' = gc /\ (InGc' <=> InGc)
      /\ status' = [status EXCEPT ![q] = "PG_VALID"]
      /\ blkcnt' = [blkcnt EXCEPT ![get_blk(q)].vpc = @ + 1]
      /\ line' = [line EXCEPT ![q.blk].vpc = @ + 1]
  BY DEF Program, mark_page_valid, Programmed, InGc
<1>2. q \in Ppa /\ q.blk \in Lines /\ status[q] = "PG_FREE"
  BY <1>1, WpOnErasedPage
<1>3. get_blk(q) \in Block
  BY <1>2 DEF get_blk, Ppa, Block
<1>4. /\ status \in [Ppa -> {"PG_FREE", "PG_INVALID", "PG_VALID"}]
      /\ blkcnt \in [Block -> [ipc : Int, vpc : Int]]
      /\ line \in [Lines -> LineState]
  BY DEF FtlInv, TypeOK
<1> HIDE DEF q
<1>5. /\ status'[q] = "PG_VALID" /\ \A p \in Ppa \ {q} : status'[p] = status[p]
  BY <1>1, <1>2, <1>4
<1>6. \A k \in Lines : /\ line'[k].vpc = line[k].vpc + (IF k = q.blk THEN 1 ELSE 0)
                       /\ line'[k].ipc = line[k].ipc
  BY <1>1, <1>2, <1>4 DEF LineState
<1>7. \A b \in Block : /\ blkcnt'[b].vpc = blkcnt[b].vpc + (IF b = get_blk(q) THEN 1 ELSE 0)
                       /\ blkcnt'[b].ipc = blkcnt[b].ipc
  BY <1>1, <1>3, <1>4
<1>8. ASSUME NEW st \in {"PG_VALID", "PG_INVALID"}
      PROVE  /\ \A k : Cardinality(LinePages(status', st, k)) =
                  Cardinality(LinePages(status, st, k))
                    + (IF k = q.blk THEN Gain(st, "PG_FREE", "PG_VALID") ELSE 0)
             /\ \A b : Cardinality(BlockPages(status', st, b)) =
                  Cardinality(BlockPages(status, st, b))
                    + (IF b = get_blk(q) THEN Gain(st, "PG_FREE", "PG_VALID") ELSE 0)
  <2>1. q \in Ppa /\ status[q] = "PG_FREE" /\ "PG_FREE" # "PG_VALID"
    BY <1>2
  <2>. QED
    BY <1>5, <2>1, OnePageCounts
<1>9. /\ Gain("PG_VALID", "PG_FREE", "PG_VALID") = 1
      /\ Gain("PG_INVALID", "PG_FREE", "PG_VALID") = 0
  BY DEF Gain
<1>10. InGc' <=> InGc
  BY <1>1 DEF InGc
<1>11. ASSUME NEW k \in Lines, ~(InGc' /\ k = gc'.line)
       PROVE  /\ line'[k].vpc = Cardinality(LinePages(status', "PG_VALID", k))
              /\ line'[k].ipc = Cardinality(LinePages(status', "PG_INVALID", k))
  <2>1. /\ line[k].vpc = Cardinality(LinePages(status, "PG_VALID", k))
        /\ line[k].ipc = Cardinality(LinePages(status, "PG_INVALID", k))
    BY <1>1, <1>10, <1>11, CountsAre
  <2>2. line[k].vpc \in Int /\ line[k].ipc \in Int
    BY <1>4 DEF LineState
  <2>. QED
    BY <1>6, <1>8, <1>9, <2>1, <2>2
<1>12. ASSUME NEW b \in Block
       PROVE  /\ blkcnt'[b].vpc = Cardinality(BlockPages(status', "PG_VALID", b))
              /\ blkcnt'[b].ipc = Cardinality(BlockPages(status', "PG_INVALID", b))
  <2>1. /\ blkcnt[b].vpc = Cardinality(BlockPages(status, "PG_VALID", b))
        /\ blkcnt[b].ipc = Cardinality(BlockPages(status, "PG_INVALID", b))
    BY CountsAre
  <2>2. blkcnt[b].vpc \in Int /\ blkcnt[b].ipc \in Int
    BY <1>4
  <2>. QED
    BY <1>7, <1>8, <1>9, <2>1, <2>2
<1>. QED
  BY <1>11, <1>12 DEF CountsExact, Pages, LinePages, BlockPages

(* mark_page_invalid: a valid page becomes an invalid one.                 *)
LEMMA CountsInvalidate ==
  ASSUME FtlInv, CountsExact, InvalidateOld
  PROVE  CountsExact'
<1> DEFINE q == maptbl[lpn]
<1>1. /\ pc = "lpn" /\ lpn <= end_lpn /\ mapped_ppa(q) /\ gc' = gc
      /\ status' = [status EXCEPT ![q] = "PG_INVALID"]
      /\ blkcnt' = [blkcnt EXCEPT ![get_blk(q)] = [ipc |-> @.ipc + 1, vpc |-> @.vpc - 1]]
      /\ line' = [line EXCEPT ![q.blk] = [ipc |-> @.ipc + 1, vpc |-> @.vpc - 1,
                    pos |-> IF line[q.blk].vpc = pgs_per_line THEN 1 ELSE @.pos]]
  BY DEF InvalidateOld, mark_page_invalid
<1>2. lpn \in Lpns
  BY <1>1, GeometryAssumption DEF FtlInv, TypeOK, Lpns
<1>3. q \in Ppa /\ q.blk \in Lines /\ get_blk(q) \in Block /\ status[q] = "PG_VALID"
  <2>1. q \in Ppa
    BY <1>1, <1>2 DEF FtlInv, TypeOK, mapped_ppa
  <2>2. status[q] = "PG_VALID"
    BY <1>1, <1>2 DEF FtlInv, MapConsistent, MapForward, InFlight
  <2>. QED
    BY <2>1, <2>2 DEF Ppa, get_blk, Block
<1>4. /\ status \in [Ppa -> {"PG_FREE", "PG_INVALID", "PG_VALID"}]
      /\ blkcnt \in [Block -> [ipc : Int, vpc : Int]]
      /\ line \in [Lines -> LineState]
  BY DEF FtlInv, TypeOK
<1> HIDE DEF q
<1>5. /\ status'[q] = "PG_INVALID" /\ \A p \in Ppa \ {q} : status'[p] = status[p]
  BY <1>1, <1>3, <1>4
<1>6. \A k \in Lines : /\ line'[k].vpc = line[k].vpc + (IF k = q.blk THEN -1 ELSE 0)
                       /\ line'[k].ipc = line[k].ipc + (IF k = q.blk THEN 1 ELSE 0)
  BY <1>1, <1>3, <1>4 DEF LineState
<1>7. \A b \in Block : /\ blkcnt'[b].vpc = blkcnt[b].vpc + (IF b = get_blk(q) THEN -1 ELSE 0)
                       /\ blkcnt'[b].ipc = blkcnt[b].ipc + (IF b = get_blk(q) THEN 1 ELSE 0)
  BY <1>1, <1>3, <1>4
<1>8. ASSUME NEW st \in {"PG_VALID", "PG_INVALID"}
      PROVE  /\ \A k : Cardinality(LinePages(status', st, k)) =
                  Cardinality(LinePages(status, st, k))
                    + (IF k = q.blk THEN Gain(st, "PG_VALID", "PG_INVALID") ELSE 0)
             /\ \A b : Cardinality(BlockPages(status', st, b)) =
                  Cardinality(BlockPages(status, st, b))
                    + (IF b = get_blk(q) THEN Gain(st, "PG_VALID", "PG_INVALID") ELSE 0)
  <2>1. q \in Ppa /\ status[q] = "PG_VALID" /\ "PG_VALID" # "PG_INVALID"
    BY <1>3
  <2>. QED
    BY <1>5, <2>1, OnePageCounts
<1>9. /\ Gain("PG_VALID", "PG_VALID", "PG_INVALID") = -1
      /\ Gain("PG_INVALID", "PG_VALID", "PG_INVALID") = 1
  BY DEF Gain
<1>10. InGc' <=> InGc
  BY <1>1 DEF InGc
<1>11. ASSUME NEW k \in Lines, ~(InGc' /\ k = gc'.line)
       PROVE  /\ line'[k].vpc = Cardinality(LinePages(status', "PG_VALID", k))
              /\ line'[k].ipc = Cardinality(LinePages(status', "PG_INVALID", k))
  <2>1. /\ line[k].vpc = Cardinality(LinePages(status, "PG_VALID", k))
        /\ line[k].ipc = Cardinality(LinePages(status, "PG_INVALID", k))
    BY <1>1, <1>10, <1>11, CountsAre
  <2>2. line[k].vpc \in Int /\ line[k].ipc \in Int
    BY <1>4 DEF LineState
  <2>. QED
    BY <1>6, <1>8, <1>9, <2>1, <2>2
<1>12. ASSUME NEW b \in Block
       PROVE  /\ blkcnt'[b].vpc = Cardinality(BlockPages(status', "PG_VALID", b))
              /\ blkcnt'[b].ipc = Cardinality(BlockPages(status', "PG_INVALID", b))
  <2>1. /\ blkcnt[b].vpc = Cardinality(BlockPages(status, "PG_VALID", b))
        /\ blkcnt[b].ipc = Cardinality(BlockPages(status, "PG_INVALID", b))
    BY CountsAre
  <2>2. blkcnt[b].vpc \in Int /\ blkcnt[b].ipc \in Int
    BY <1>4
  <2>. QED
    BY <1>7, <1>8, <1>9, <2>1, <2>2
<1>. QED
  BY <1>11, <1>12 DEF CountsExact, Pages, LinePages, BlockPages

(* mark_block_free: the counts of the block are reset with its pages.      *)
LEMMA CountsErase ==
  ASSUME FtlInv, CountsExact, mark_block_free
  PROVE  CountsExact'
<1> DEFINE e == [ch |-> gc.ch, lun |-> gc.lun, blk |-> gc.line]
<1>1. /\ pc = "clean" /\ gc.ch < nchs
      /\ status' = [p \in Ppa |-> IF get_blk(p) = e THEN "PG_FREE" ELSE status[p]]
      /\ blkcnt' = [blkcnt EXCEPT ![e] = [ipc |-> 0, vpc |-> 0]]
      /\ line' = line
      /\ gc' = IF gc.lun + 1 < luns_per_ch
               THEN [gc EXCEPT !.lun = @ + 1, !.pg = 0]
               ELSE [gc EXCEPT !.ch = @ + 1, !.lun = 0, !.pg = 0]
  BY DEF mark_block_free
<1>2. gc \in GcState /\ InGc /\ blkcnt \in [Block -> [ipc : Int, vpc : Int]]
  BY <1>1 DEF FtlInv, TypeOK, Control
<1>3. e \in Block
  BY <1>1, <1>2, GeometryAssumption DEF GcState, Block
<1>4. gc'.line = gc.line /\ InGc'
  BY <1>1, <1>2 DEF GcState, InGc
<1>5. e.blk = gc.line
  OBVIOUS
<1> HIDE DEF e
<1>6. ASSUME NEW st \in {"PG_VALID", "PG_INVALID"}
      PROVE  /\ \A l \in Lines \ {gc.line} : LinePages(status', st, l) = LinePages(status, st, l)
             /\ \A b \in Block \ {e} : BlockPages(status', st, b) = BlockPages(status, st, b)
             /\ BlockPages(status', st, e) = {}
  <2>1. \A p \in Ppa : p.blk # gc.line => get_blk(p) # e
    BY <1>5 DEF get_blk
  <2>. QED
    BY <1>1, <2>1 DEF LinePages, BlockPages
<1>7. \A b \in Block : blkcnt'[b] = IF b = e THEN [ipc |-> 0, vpc |-> 0] ELSE blkcnt[b]
  BY <1>1, <1>2, <1>3
<1>8. Cardinality({}) = 0
  BY FS_EmptySet
<1>9. \A l \in Lines : ~(InGc' /\ l = gc'.line) =>
            /\ line'[l].vpc = Cardinality(LinePages(status', "PG_VALID", l))
            /\ line'[l].ipc = Cardinality(LinePages(status', "PG_INVALID", l))
  BY <1>1, <1>4, <1>6, CountsAre
<1>10. ASSUME NEW b \in Block
       PROVE  /\ blkcnt'[b].vpc = Cardinality(BlockPages(status', "PG_VALID", b))
              /\ blkcnt'[b].ipc = Cardinality(BlockPages(status', "PG_INVALID", b))
  <2>1. CASE b = e
    BY <1>6, <1>7, <1>8, <2>1
  <2>2. CASE b # e
    BY <1>6, <1>7, <2>2, CountsAre
  <2>. QED
    BY <2>1, <2>2
<1>. QED
  BY <1>9, <1>10 DEF CountsExact, Pages, LinePages, BlockPages

(* A line returns to the free list when all its blocks are erased, so the  *)
(* zeroes written to its counts are true.                                  *)
LEMMA CountsFreeLine ==
  ASSUME FtlInv, CountsExact, mark_line_free
  PROVE  CountsExact'
<1>1. /\ pc = "clean" /\ gc.ch = nchs /\ UNCHANGED <<status, blkcnt>>
      /\ line' = [line EXCEPT ![gc.line] = [ipc |-> 0, vpc |-> 0, pos |-> @.pos]]
      /\ gc' = NoGc
  BY DEF mark_line_free, nandVars
<1>2. /\ InGc /\ gc.line \in Lines /\ line \in [Lines -> LineState]
      /\ ~InGc'
  BY <1>1 DEF FtlInv, Control, TypeOK, GcState, InGc, NoGc
<1>3. \A p \in Ppa : p.blk = gc.line => status[p] = "PG_FREE"
  <2> TAKE p \in Ppa
  <2>1. p.ch < gc.ch
    BY <1>1, GeometryAssumption DEF Ppa
  <2>. QED
    BY <1>2, <2>1 DEF FtlInv, ErasedExactly, ErasedByGc
<1>4. \A st \in {"PG_VALID", "PG_INVALID"} : LinePages(status', st, gc.line) = {}
  BY <1>1, <1>3 DEF LinePages
<1>5. \A k \in Lines :
        /\ line'[k].vpc = IF k = gc.line THEN 0 ELSE line[k].vpc
        /\ line'[k].ipc = IF k = gc.line THEN 0 ELSE line[k].ipc
  BY <1>1, <1>2 DEF LineState
<1>6. Cardinality({}) = 0
  BY FS_EmptySet
<1>7. /\ \A k \in Lines :
            /\ line'[k].vpc = Cardinality(LinePages(status', "PG_VALID", k))
            /\ line'[k].ipc = Cardinality(LinePages(status', "PG_INVALID", k))
      /\ \A b \in Block :
            /\ blkcnt'[b].vpc = Cardinality(BlockPages(status', "PG_VALID", b))
            /\ blkcnt'[b].ipc = Cardinality(BlockPages(status', "PG_INVALID", b))
  BY <1>1, <1>4, <1>5, <1>6, CountsAre
<1>. QED
  BY <1>7 DEF CountsExact, Pages, LinePages, BlockPages

(* Nothing is written at first.                                            *)
LEMMA CountsInit == Init => CountsExact
<1> SUFFICES ASSUME Init PROVE CountsExact
  OBVIOUS
<1>1. /\ \A p \in Ppa : status[p] = "PG_FREE"
      /\ \A b \in Block : blkcnt[b].vpc = 0 /\ blkcnt[b].ipc = 0
      /\ \A l \in Lines : line[l].vpc = 0 /\ line[l].ipc = 0
  BY DEF Init
<1>2. \A st \in {"PG_VALID", "PG_INVALID"} :
        /\ \A l : LinePages(status, st, l) = {}
        /\ \A b : BlockPages(status, st, b) = {}
  BY <1>1 DEF LinePages, BlockPages
<1>3. Cardinality({}) = 0
  BY FS_EmptySet
<1>. QED
  BY <1>1, <1>2, <1>3, CountsAre

(* Every step keeps the counts exact.                                      *)
LEMMA CountsStep == FtlInv /\ CountsExact /\ [Next]_vars => CountsExact'
<1> SUFFICES ASSUME FtlInv, CountsExact, [Next]_vars PROVE CountsExact'
  OBVIOUS
<1>1. ASSUME UNCHANGED <<status, blkcnt, line>>, InGc => InGc' /\ gc'.line = gc.line
      PROVE  CountsExact'
  BY <1>1, CountsKept
<1>2. line \in [Lines -> LineState] /\ gc \in GcState /\ wp \in WpState
  BY DEF FtlInv, TypeOK
<1>3. ASSUME UNCHANGED <<nandVars, line, gc>>
      PROVE  CountsExact'
  BY <1>1, <1>3 DEF nandVars, InGc
<1>4. ASSUME NEW v \in victim_line_pq, ForcedGc(v) \/ BackgroundGc(v)
      PROVE  CountsExact'
  <2>1. /\ pc \in {"gc_high", "bg_gc"} /\ UNCHANGED <<status, blkcnt>>
        /\ line' = [line EXCEPT ![v].pos = 0]
    BY <1>4 DEF ForcedGc, BackgroundGc, StartGc, select_victim_line, nandVars
  <2>2. ~InGc
    BY <2>1 DEF FtlInv, Control
  <2>3. \A l \in Lines : line'[l].vpc = line[l].vpc /\ line'[l].ipc = line[l].ipc
    BY <1>2, <2>1 DEF LineState
  <2>. QED
    BY <2>1, <2>2, <2>3, CountsKept
<1>5. ASSUME gc_write_page
      PROVE  CountsExact'
  <2> DEFINE l == rmap[ppa2pgidx(GcPage)]
  <2>1. /\ pc = "clean" /\ Program(l) /\ status[GcPage] = "PG_VALID"
        /\ gc.ch < nchs /\ gc.pg < pgs_per_blk
    BY <1>5 DEF gc_write_page
  <2>2. GcPage \in Ppa
    BY <1>2, <2>1, GeometryAssumption DEF GcState, Ppa, GcPage
  <2>3. ~CopiedByGc(GcPage)
    BY <1>2, <2>1, GeometryAssumption DEF CopiedByGc, GcPage, Programmed, GcState
  <2>4. l \in Lpns
    BY <2>1, <2>2, <2>3 DEF FtlInv, MapConsistent, MapReverse
  <2> HIDE DEF l
  <2>. QED
    BY <2>1, <2>4, CountsProgram
<1>6. ASSUME SkipPage
      PROVE  CountsExact'
  BY <1>1, <1>2, <1>6 DEF SkipPage, nandVars, InGc, GcState
<1>7. ASSUME WritePage
      PROVE  CountsExact'
  <2>1. pc = "program" /\ Program(lpn) /\ lpn \in Lpns
    BY <1>7, GeometryAssumption DEF WritePage, FtlInv, Control, TypeOK, Lpns
  <2>. QED
    BY <2>1, CountsProgram
<1>8. ASSUME Continue
      PROVE  InGc => InGc' /\ gc'.line = gc.line
  BY <1>2, <1>8 DEF Continue, InGc, GcState
<1>9. ASSUME AdvanceInLine
      PROVE  CountsExact'
  BY <1>1, <1>8, <1>9 DEF AdvanceInLine, nandVars
<1>10. ASSUME AdvanceToNextLine
       PROVE  CountsExact'
  <2>1. /\ UNCHANGED <<status, blkcnt>> /\ Continue
        /\ line' = line \/ line' = [line EXCEPT ![wp.curline].pos = 1]
    BY <1>10 DEF AdvanceToNextLine, nandVars
  <2>2. \A l \in Lines : line'[l].vpc = line[l].vpc /\ line'[l].ipc = line[l].ipc
    BY <1>2, <2>1 DEF LineState
  <2>. QED
    BY <1>8, <2>1, <2>2, CountsKept
<1>11. ASSUME UNCHANGED vars
       PROVE  CountsExact'
  BY <1>3, <1>11 DEF vars
<1>12. ASSUME \/ \E s, e \in Lpns : DequeueWrite(s, e)
              \/ DequeueOther \/ ForcedGcDone \/ NoBackgroundGc
              \/ FirstWrite \/ WriteDone \/ AdvanceAbort
       PROVE  CountsExact'
  BY <1>3, <1>12 DEF DequeueWrite, DequeueOther, ForcedGcDone, NoBackgroundGc, FirstWrite,
     WriteDone, AdvanceAbort
<1>. QED
  BY <1>4, <1>5, <1>6, <1>7, <1>9, <1>10, <1>11, <1>12,
     CountsInvalidate, CountsErase, CountsFreeLine
     DEF Next, Step, CollectStep, WriteStep, AdvanceStep

(* The page counts that GC chooses its victim by, and that decide to which *)
(* list a line goes, are the true ones, for every block always and for     *)
(* every line but the one being cleaned.                                   *)
THEOREM PageCountsExact == Spec => []CountsExact
<1>1. FtlInv /\ CountsExact /\ [Next]_vars => CountsExact'
  BY CountsStep
<1>. QED
  BY <1>1, CountsInit, FtlInvariant, PTL DEF Spec

-----------------------------------------------------------------------------
(* Free lines. The write pointer always finds one: the spare area is the   *)
(* high watermark and one more line, and neither a request nor a victim    *)
(* has more pages than a line.                                             *)

SpareArea ==
  /\ gc_thres_lines_high >= 1
  /\ max_req_pgs <= pgs_per_line
  /\ nlpns <= (tt_lines - gc_thres_lines_high - 1) * pgs_per_line

\* Pages of the current line in use, the one just programmed among them.
WrittenPages == WpIndex + (IF Programmed THEN 1 ELSE 0)

\* What do_gc has still to copy, and ssd_write to write.
LeftToCopy == {p \in Ppa : p.blk = gc.line /\ status[p] = "PG_VALID" /\ ~CopiedByGc(p)}
LeftToWrite == end_lpn - lpn + (IF Programmed THEN 0 ELSE 1)

(* What is left fits the rest of the current line and the free lines; a    *)
(* collection may count on the line it will free. Between the two, a line  *)
(* is free or the current one is empty. For the loop at the head of        *)
(* ssd_write, which also ends when there is no victim: a line that was     *)
(* written to holds a valid page, the last one written.                    *)
Room ==
  /\ pc # "abort"
  /\ lpn <= end_lpn + 1 /\ end_lpn - lpn < max_req_pgs
  /\ pc # "program" /\ WrittenPages > 0 => line[wp.curline].vpc > 0
  /\ InGc => WrittenPages + Cardinality(LeftToCopy) < (free_line_cnt + 1) * pgs_per_line
  /\ ~InGc /\ pc \in {"lpn", "program", "advance"} =>
        WrittenPages + LeftToWrite <= free_line_cnt * pgs_per_line
  /\ ~InGc /\ pc \in {"dequeue", "gc_high", "bg_gc"} => free_line_cnt >= 1 \/ WpIndex = 0

(* Types and ranges of what Room adds up.                                  *)
LEMMA RoomTypes ==
  ASSUME FtlInv
  PROVE  /\ pgs_per_line \in Nat \ {0} /\ WpIndex \in 0 .. pgs_per_line - 1
         /\ free_line_cnt \in Nat /\ free_line_cnt = Len(free_line_list)
         /\ IsFiniteSet(LeftToCopy) /\ Cardinality(LeftToCopy) \in Nat
         /\ lpn \in Int /\ end_lpn \in Int /\ max_req_pgs \in Int
         /\ wp.curline \in Lines /\ line[wp.curline].vpc \in Int
<1>1. pgs_per_line \in Nat \ {0} /\ max_req_pgs \in Int
  <2>1. \A x, y, z \in Nat \ {0} : x * y * z \in Nat \ {0}
    <3>1. \A x, y \in Nat \ {0} : x * y \in Nat \ {0}
      OBVIOUS
    <3>. QED
      BY <3>1
  <2>. QED
    BY <2>1, GeometryAssumption DEF pgs_per_line
<1>2. wp \in WpState /\ lpn \in Int /\ end_lpn \in Int /\ line \in [Lines -> LineState]
  BY GeometryAssumption DEF FtlInv, TypeOK, Lpns
<1>3. free_line_cnt \in Nat /\ free_line_cnt = Len(free_line_list)
  BY DEF FtlInv, TypeOK, CountersMatchLists
<1>4. LeftToCopy \in SUBSET Ppa
  BY DEF LeftToCopy
<1>. QED
  BY <1>1, <1>2, <1>3, <1>4, WpIndexRange, PagesFinite, FS_Subset, FS_CardinalityType
     DEF WpState, LineState

\* Multiples of a line, which the solver does not multiply out by itself.
LEMMA LineMultiples ==
  ASSUME NEW n \in Int, NEW k \in Int
  PROVE  /\ k * n \in Int /\ (k + 1) * n = k * n + n /\ (k - 1) * n = k * n - n
         /\ n >= 0 /\ k >= 1 => k * n >= n
         /\ n >= 0 /\ k >= 2 => k * n >= n + n
         /\ n >= 0 /\ k >= 0 => k * n >= 0
<1>1. ASSUME NEW j \in Nat, n >= 0 PROVE j * n >= 0
  BY <1>1
<1>2. /\ k * n \in Int /\ (k + 1) * n = k * n + n /\ (k - 1) * n = k * n - n
      /\ (k - 2) * n = k * n - n - n
  OBVIOUS
<1>. QED
  BY <1>1, <1>2

(* At first the current line is empty.                                     *)
LEMMA RoomInit == Init => Room
<1> SUFFICES ASSUME Init PROVE Room
  OBVIOUS
<1>1. /\ pc = "dequeue" /\ ~InGc /\ ~Programmed /\ WpIndex = 0
      /\ lpn = 0 /\ end_lpn = 0
  BY GeometryAssumption DEF Init, InGc, NoGc, Programmed, WpIndex
<1>. QED
  BY <1>1, GeometryAssumption DEF Room, WrittenPages

(* Steps that only move the program counter or take a request.             *)
LEMMA RoomControl ==
  ASSUME FtlInv, Room,
         \/ \E s, e \in Lpns : DequeueWrite(s, e)
         \/ DequeueOther \/ NoBackgroundGc \/ FirstWrite \/ WriteDone
  PROVE  Room'
<1>1. UNCHANGED <<status, line, wp, gc, free_line_cnt>>
  BY DEF DequeueWrite, DequeueOther, NoBackgroundGc, FirstWrite, WriteDone, nandVars, listVars
<1>2. pc \in {"dequeue", "bg_gc", "lpn"} /\ pc' \in {"gc_high", "bg_gc", "dequeue", "program"}
  BY DEF DequeueWrite, DequeueOther, NoBackgroundGc, FirstWrite, WriteDone
<1>3. ~InGc /\ ~InGc' /\ ~Programmed /\ ~Programmed'
  BY <1>1, <1>2 DEF FtlInv, Control, InGc, Programmed
<1>4. WpIndex' = WpIndex /\ WrittenPages' = WpIndex /\ WrittenPages = WpIndex
  BY <1>1, <1>3, RoomTypes DEF WpIndex, WrittenPages
<1>5. lpn' <= end_lpn' + 1 /\ end_lpn' - lpn' < max_req_pgs
  <2>1. ASSUME NEW s \in Lpns, NEW e \in Lpns, DequeueWrite(s, e)
        PROVE  lpn' <= end_lpn' + 1 /\ end_lpn' - lpn' < max_req_pgs
    BY <2>1, GeometryAssumption DEF DequeueWrite, Lpns
  <2>2. ASSUME DequeueOther \/ NoBackgroundGc \/ FirstWrite \/ WriteDone
        PROVE  UNCHANGED <<lpn, end_lpn>>
    BY <2>2 DEF DequeueOther, NoBackgroundGc, FirstWrite, WriteDone, reqVars
  <2>. QED
    BY <2>1, <2>2 DEF Room
<1>6. CASE FirstWrite
  <2>1. pc = "lpn" /\ pc' = "program" /\ UNCHANGED <<lpn, end_lpn>>
    BY <1>6 DEF FirstWrite, reqVars
  <2>. QED
    BY <1>1, <1>3, <1>4, <1>5, <2>1 DEF Room, LeftToWrite
<1>7. CASE WriteDone
  <2>1. pc = "lpn" /\ pc' = "bg_gc" /\ lpn = end_lpn + 1
    BY <1>7, RoomTypes DEF WriteDone, Room
  <2>2. LeftToWrite = 0
    BY <1>3, <2>1, RoomTypes DEF LeftToWrite
  <2>3. WpIndex <= free_line_cnt * pgs_per_line
    BY <1>3, <1>4, <2>1, <2>2, RoomTypes DEF Room
  <2>4. free_line_cnt >= 1 \/ WpIndex = 0
    BY <2>3, RoomTypes
  <2>. QED
    BY <1>1, <1>3, <1>4, <1>5, <2>1, <2>4 DEF Room
<1>8. CASE ~FirstWrite /\ ~WriteDone
  <2>1. pc \in {"dequeue", "bg_gc"} /\ pc' \in {"gc_high", "bg_gc", "dequeue"}
    BY <1>8 DEF DequeueWrite, DequeueOther, NoBackgroundGc
  <2>. QED
    BY <1>1, <1>3, <1>4, <1>5, <2>1 DEF Room
<1>. QED
  BY <1>6, <1>7, <1>8

(* ssd_write programs a page.                                              *)
LEMMA RoomWritePage ==
  ASSUME FtlInv, CountsExact, Room, WritePage
  PROVE  Room'
<1>1. /\ pc = "program" /\ pc' = "advance" /\ ~Programmed /\ Programmed'
      /\ ~InGc /\ ~InGc' /\ UNCHANGED <<wp, lpn, end_lpn, free_line_cnt>>
      /\ line' = [line EXCEPT ![wp.blk].vpc = @ + 1]
  <2>1. /\ pc = "program" /\ pc' = "advance" /\ UNCHANGED <<wp, lpn, end_lpn, free_line_cnt, gc>>
        /\ line' = [line EXCEPT ![wp.blk].vpc = @ + 1]
    BY DEF WritePage, Program, mark_page_valid, get_new_page, listVars, reqVars
  <2>. QED
    BY <2>1 DEF FtlInv, Control, InGc, Programmed
<1>2. wp.blk = wp.curline /\ line \in [Lines -> LineState]
  BY DEF FtlInv, LinesPartition, TypeOK
<1>3. line'[wp.curline].vpc = line[wp.curline].vpc + 1
  BY <1>1, <1>2, RoomTypes DEF LineState
<1>4. line[wp.curline].vpc >= 0
  BY <1>1, RoomTypes, CountsAre, CountsFinite
<1>5. WrittenPages' = WrittenPages + 1 /\ LeftToWrite' = LeftToWrite - 1
      /\ WrittenPages \in Int /\ LeftToWrite \in Int
  BY <1>1, RoomTypes DEF WrittenPages, LeftToWrite, WpIndex
<1>6. WrittenPages + LeftToWrite <= free_line_cnt * pgs_per_line
  BY <1>1 DEF Room
<1>7. WrittenPages' + LeftToWrite' <= free_line_cnt * pgs_per_line
  BY <1>5, <1>6
<1>8. line'[wp.curline].vpc > 0
  BY <1>3, <1>4, RoomTypes
<1>. QED
  BY <1>1, <1>7, <1>8 DEF Room

(* mark_page_invalid moves nothing.                                        *)
LEMMA RoomInvalidate ==
  ASSUME FtlInv, Room, InvalidateOld
  PROVE  Room'
<1>1. /\ pc = "lpn" /\ pc' = "program" /\ UNCHANGED <<wp, lpn, end_lpn, free_line_cnt, gc>>
  BY DEF InvalidateOld, mark_page_invalid, reqVars
<1>2. ~InGc /\ ~InGc' /\ ~Programmed /\ ~Programmed'
  BY <1>1 DEF FtlInv, Control, InGc, Programmed
<1>3. WrittenPages' = WrittenPages /\ LeftToWrite' = LeftToWrite
  BY <1>1, <1>2 DEF WrittenPages, LeftToWrite, WpIndex
<1>. QED
  BY <1>1, <1>2, <1>3 DEF Room

(* A forced collection, or one after a request, starts on a victim, which  *)
(* has an invalid page.                                                    *)
LEMMA RoomStartGc ==
  ASSUME FtlInv, CountsExact, Room,
         NEW v \in victim_line_pq, ForcedGc(v) \/ BackgroundGc(v)
  PROVE  Room'
<1>1. /\ pc \in {"gc_high", "bg_gc"} /\ pc' = "clean"
      /\ UNCHANGED <<status, wp, lpn, end_lpn, free_line_cnt>>
      /\ line' = [line EXCEPT ![v].pos = 0]
      /\ gc'.caller # "none" /\ gc'.line = v /\ gc'.pg = 0
  BY DEF ForcedGc, BackgroundGc, StartGc, select_victim_line, nandVars, reqVars, NoGc
<1>2. ~InGc /\ InGc' /\ ~Programmed /\ ~Programmed'
  BY <1>1 DEF FtlInv, Control, InGc, Programmed
<1>3. WpIndex' = WpIndex /\ WrittenPages' = WpIndex /\ WrittenPages = WpIndex
  BY <1>1, <1>2, RoomTypes DEF WpIndex, WrittenPages
<1>4. line \in [Lines -> LineState] /\ v \in Lines
  BY DEF FtlInv, TypeOK
<1>5. line'[wp.curline].vpc = line[wp.curline].vpc
  BY <1>1, <1>4, RoomTypes DEF LineState
<1>6. Cardinality(LinePages(status, "PG_VALID", v)) < pgs_per_line
  <2>1. line[v].vpc = Cardinality(LinePages(status, "PG_VALID", v))
    BY <1>2, <1>4, CountsAre
  <2>2. line[v].ipc > 0 /\ line[v].ipc + line[v].vpc = pgs_per_line
    BY DEF FtlInv, LineSums, VictimsWorthCleaning
  <2>. QED
    BY <1>4, <2>1, <2>2, RoomTypes DEF LineState
<1>7. LeftToCopy' \in SUBSET LinePages(status, "PG_VALID", v)
  BY <1>1 DEF LeftToCopy, LinePages
<1>8. Cardinality(LeftToCopy') \in Nat /\ Cardinality(LeftToCopy') < pgs_per_line
  BY <1>6, <1>7, CountsFinite, FS_Subset, FS_CardinalityType, RoomTypes
<1>9. free_line_cnt >= 1 \/ WpIndex = 0
  BY <1>1, <1>2 DEF Room
<1>10. WpIndex + Cardinality(LeftToCopy') < (free_line_cnt + 1) * pgs_per_line
  <2>1. /\ (free_line_cnt + 1) * pgs_per_line = free_line_cnt * pgs_per_line + pgs_per_line
        /\ free_line_cnt >= 1 => free_line_cnt * pgs_per_line >= pgs_per_line
        /\ free_line_cnt * pgs_per_line >= 0
        /\ free_line_cnt * pgs_per_line \in Int
    <3>1. PICK n \in Nat : n = pgs_per_line
      BY RoomTypes
    <3>2. PICK k \in Nat : k = free_line_cnt
      BY RoomTypes
    <3>3. /\ (k + 1) * n = k * n + n /\ (k >= 1 => k * n >= n)
          /\ k * n >= 0 /\ k * n \in Int
      BY LineMultiples
    <3>. QED
      BY <3>1, <3>2, <3>3
  <2> DEFINE F == free_line_cnt * pgs_per_line
             F1 == (free_line_cnt + 1) * pgs_per_line
  <2>2. /\ F1 = F + pgs_per_line /\ F >= 0 /\ F \in Int
        /\ free_line_cnt >= 1 => F >= pgs_per_line
    BY <2>1
  <2> HIDE DEF F, F1
  <2>3. WpIndex + Cardinality(LeftToCopy') < F1
    BY <1>8, <1>9, <2>2, RoomTypes
  <2>. QED
    BY <2>3 DEF F1
<1>11. lpn' <= end_lpn' + 1 /\ end_lpn' - lpn' < max_req_pgs
  BY <1>1 DEF Room
<1>12. WpIndex > 0 => line[wp.curline].vpc > 0
  BY <1>1, <1>3 DEF Room
<1>. QED
  BY <1>1, <1>2, <1>3, <1>5, <1>10, <1>11, <1>12 DEF Room

(* gc_write_page: one page less to copy, one more written.                 *)
LEMMA RoomGcWritePage ==
  ASSUME FtlInv, CountsExact, Room, gc_write_page
  PROVE  Room'
<1>1. /\ pc = "clean" /\ pc' = "advance" /\ UNCHANGED <<wp, lpn, end_lpn, free_line_cnt, gc>>
      /\ gc.ch < nchs /\ gc.pg < pgs_per_blk /\ status[GcPage] = "PG_VALID"
      /\ line' = [line EXCEPT ![wp.blk].vpc = @ + 1]
      /\ status' = [status EXCEPT ![get_new_page] = "PG_VALID"]
  BY DEF gc_write_page, Program, mark_page_valid, get_new_page, listVars, reqVars
<1>2. InGc /\ InGc' /\ ~Programmed /\ Programmed'
  BY <1>1 DEF FtlInv, Control, InGc, Programmed
<1>3. /\ wp.blk = wp.curline /\ gc.line # wp.curline
      /\ line \in [Lines -> LineState] /\ gc \in GcState
      /\ status \in [Ppa -> {"PG_FREE", "PG_INVALID", "PG_VALID"}]
  BY <1>2 DEF FtlInv, LinesPartition, TypeOK
<1>4. line'[wp.curline].vpc > 0
  <2>1. line'[wp.curline].vpc = line[wp.curline].vpc + 1
    BY <1>1, <1>3, RoomTypes DEF LineState
  <2>2. line[wp.curline].vpc >= 0
    BY <1>3, RoomTypes, CountsAre, CountsFinite
  <2>. QED
    BY <2>1, <2>2, RoomTypes
<1>5. GcPage \in LeftToCopy
  BY <1>1, <1>2, <1>3, GeometryAssumption
     DEF LeftToCopy, CopiedByGc, GcPage, GcState, Ppa, Programmed
<1>6. LeftToCopy' \in SUBSET (LeftToCopy \ {GcPage})
  <2> SUFFICES ASSUME NEW p \in Ppa, p.blk = gc.line, status'[p] = "PG_VALID", ~CopiedByGc(p)'
               PROVE  p \in LeftToCopy \ {GcPage}
    BY <1>1 DEF LeftToCopy
  <2>1. p # get_new_page
    BY <1>3 DEF get_new_page
  <2>2. status[p] = "PG_VALID"
    BY <1>1, <1>3, <2>1
  <2>3. ~CopiedByGc(p) /\ p # GcPage
    BY <1>1, <1>2 DEF CopiedByGc, GcPage
  <2>. QED
    BY <2>2, <2>3 DEF LeftToCopy
<1>7. /\ Cardinality(LeftToCopy') \in Nat
      /\ Cardinality(LeftToCopy') <= Cardinality(LeftToCopy) - 1
  <2>1. /\ IsFiniteSet(LeftToCopy \ {GcPage})
        /\ Cardinality(LeftToCopy \ {GcPage}) = Cardinality(LeftToCopy) - 1
    BY <1>5, RoomTypes, FS_RemoveElement
  <2>. QED
    BY <1>6, <2>1, FS_Subset, FS_CardinalityType
<1>8. WrittenPages' = WrittenPages + 1 /\ WrittenPages \in Int
  BY <1>1, <1>2, RoomTypes DEF WrittenPages, WpIndex
<1>9. WrittenPages' + Cardinality(LeftToCopy') < (free_line_cnt + 1) * pgs_per_line
  <2>1. WrittenPages + Cardinality(LeftToCopy) < (free_line_cnt + 1) * pgs_per_line
    BY <1>2 DEF Room
  <2>. QED
    BY <1>7, <1>8, <2>1, RoomTypes, LineMultiples
<1>10. lpn' <= end_lpn' + 1 /\ end_lpn' - lpn' < max_req_pgs
  BY <1>1 DEF Room
<1>. QED
  BY <1>1, <1>2, <1>4, <1>9, <1>10 DEF Room

(* do_gc passes a page that holds nothing, or erases a block.              *)
LEMMA RoomClean ==
  ASSUME FtlInv, Room, SkipPage \/ mark_block_free
  PROVE  Room'
<1>1. /\ pc = "clean" /\ pc' = pc /\ UNCHANGED <<line, wp, lpn, end_lpn, free_line_cnt>>
      /\ gc.ch < nchs
  BY DEF SkipPage, mark_block_free, listVars, reqVars
<1>2. /\ gc \in GcState /\ gc'.caller = gc.caller /\ gc'.line = gc.line
      /\ status \in [Ppa -> {"PG_FREE", "PG_INVALID", "PG_VALID"}]
  BY DEF FtlInv, TypeOK, SkipPage, mark_block_free, GcState
<1>3. InGc /\ InGc' /\ ~Programmed /\ ~Programmed'
  BY <1>1, <1>2 DEF FtlInv, Control, InGc, Programmed
<1>4. LeftToCopy' \in SUBSET LeftToCopy
  <2> SUFFICES ASSUME NEW p \in Ppa, p.blk = gc.line, status'[p] = "PG_VALID", ~CopiedByGc(p)'
               PROVE  p \in LeftToCopy
    BY <1>2 DEF LeftToCopy
  <2>1. p.pg \in Int /\ gc.pg \in Int /\ gc.lun \in Int /\ gc.ch \in Int /\ p.pg < pgs_per_blk
        /\ pgs_per_blk \in Int
    BY <1>2, GeometryAssumption DEF Ppa, GcState
  <2>2. CASE SkipPage
    <3>1. status' = status /\ gc' = [gc EXCEPT !.pg = @ + 1]
      BY <2>2 DEF SkipPage, nandVars
    <3>2. gc'.ch = gc.ch /\ gc'.lun = gc.lun /\ gc'.pg = gc.pg + 1
      BY <1>2, <3>1 DEF GcState
    <3>3. ~CopiedByGc(p)
      BY <1>2, <1>3, <2>1, <3>2 DEF CopiedByGc
    <3>. QED
      BY <3>1, <3>3 DEF LeftToCopy
  <2>3. CASE mark_block_free
    <3>1. /\ gc.pg = pgs_per_blk
          /\ status' = [q \in Ppa |-> IF get_blk(q) =
                           [ch |-> gc.ch, lun |-> gc.lun, blk |-> gc.line]
                         THEN "PG_FREE" ELSE status[q]]
      BY <2>3 DEF mark_block_free
    <3>2. get_blk(p) # [ch |-> gc.ch, lun |-> gc.lun, blk |-> gc.line]
          /\ status[p] = "PG_VALID"
      BY <3>1
    <3>3. ~(p.ch = gc.ch /\ p.lun = gc.lun)
      BY <3>2 DEF get_blk
    <3>. QED
      BY <3>2, <3>3 DEF LeftToCopy, CopiedByGc
  <2>. QED
    BY <2>2, <2>3
<1>5. /\ Cardinality(LeftToCopy') \in Nat
      /\ Cardinality(LeftToCopy') <= Cardinality(LeftToCopy)
  BY <1>4, RoomTypes, FS_Subset, FS_CardinalityType
<1>6. WrittenPages' = WrittenPages /\ WrittenPages \in Int
  BY <1>1, <1>3, RoomTypes DEF WrittenPages, WpIndex
<1>7. WrittenPages' + Cardinality(LeftToCopy') < (free_line_cnt + 1) * pgs_per_line
  <2>1. WrittenPages + Cardinality(LeftToCopy) < (free_line_cnt + 1) * pgs_per_line
    BY <1>3 DEF Room
  <2>. QED
    BY <1>5, <1>6, <2>1, RoomTypes, LineMultiples
<1>8. /\ lpn' <= end_lpn' + 1 /\ end_lpn' - lpn' < max_req_pgs
      /\ WrittenPages' > 0 => line'[wp'.curline].vpc > 0
  BY <1>1, <1>6 DEF Room
<1>. QED
  BY <1>1, <1>3, <1>7, <1>8 DEF Room

(* mark_line_free: the line that the collection counted on.                *)
LEMMA RoomFreeLine ==
  ASSUME FtlInv, Room, mark_line_free
  PROVE  Room'
<1>1. /\ pc = "clean" /\ pc' \in {"gc_high", "dequeue"}
      /\ UNCHANGED <<wp, lpn, end_lpn>>
      /\ free_line_cnt' = free_line_cnt + 1
      /\ line' = [line EXCEPT ![gc.line] = [ipc |-> 0, vpc |-> 0, pos |-> @.pos]]
      /\ gc' = NoGc
  BY DEF mark_line_free, reqVars
<1>2. InGc /\ ~InGc' /\ ~Programmed /\ ~Programmed'
  BY <1>1 DEF FtlInv, Control, InGc, NoGc, Programmed
<1>3. gc.line # wp.curline /\ line \in [Lines -> LineState]
  BY <1>2 DEF FtlInv, LinesPartition, TypeOK
<1>4. line'[wp.curline] = line[wp.curline]
  BY <1>1, <1>3, RoomTypes
<1>5. WrittenPages' = WrittenPages
  BY <1>1, <1>2 DEF WrittenPages, WpIndex
<1>6. /\ lpn' <= end_lpn' + 1 /\ end_lpn' - lpn' < max_req_pgs
      /\ WrittenPages' > 0 => line'[wp'.curline].vpc > 0
  BY <1>1, <1>4, <1>5 DEF Room
<1>7. free_line_cnt' >= 1
  BY <1>1, RoomTypes
<1>. QED
  BY <1>1, <1>2, <1>6, <1>7 DEF Room

(* The write pointer moves within the line.                                *)
LEMMA RoomAdvanceInLine ==
  ASSUME FtlInv, FtlInv', Room, AdvanceInLine
  PROVE  Room'
<1>1. /\ pc = "advance" /\ Continue /\ UNCHANGED <<status, line, free_line_cnt>>
      /\ wp'.curline = wp.curline
  <2>1. wp \in WpState
    BY DEF FtlInv, TypeOK
  <2>. QED
    BY <2>1 DEF AdvanceInLine, nandVars, listVars, WpState
<1>2. /\ pc' \in {"clean", "lpn"} /\ Programmed /\ ~Programmed'
      /\ InGc' <=> InGc
      /\ pc' = "clean" <=> InGc
      /\ gc'.line = gc.line
      /\ \A p \in Ppa : CopiedByGc(p)' <=> CopiedByGc(p)
  BY <1>1, ContinueStep
<1>3. WrittenPages' = WrittenPages
  BY <1>1, <1>2 DEF FtlInv, LineSums, WrittenPages
<1>4. LeftToCopy' = LeftToCopy
  BY <1>1, <1>2 DEF LeftToCopy
<1>5. CASE InGc
  <2>1. UNCHANGED <<lpn, end_lpn>>
    BY <1>1, <1>5 DEF Continue, InGc, reqVars
  <2>. QED
    BY <1>1, <1>2, <1>3, <1>4, <1>5, <2>1 DEF Room
<1>6. CASE ~InGc
  <2>1. lpn' = lpn + 1 /\ end_lpn' = end_lpn
    BY <1>1, <1>6 DEF Continue, InGc
  <2>2. lpn <= end_lpn
    BY <1>2, <1>6 DEF FtlInv, Control
  <2>3. LeftToWrite' = LeftToWrite
    BY <1>2, <2>1, RoomTypes DEF LeftToWrite
  <2>4. lpn' <= end_lpn' + 1 /\ end_lpn' - lpn' < max_req_pgs
    BY <2>1, <2>2, RoomTypes DEF Room
  <2>. QED
    BY <1>1, <1>2, <1>3, <1>6, <2>3, <2>4 DEF Room
<1>. QED
  BY <1>5, <1>6

(* At the end of a line there is a free one: what is left does not fit the *)
(* pages that remain, which are none.                                      *)
LEMMA FreeLineAtEnd ==
  ASSUME FtlInv, Room, pc = "advance", LastPageOfLine
  PROVE  free_line_cnt >= 1
<1>1. Programmed /\ WrittenPages = pgs_per_line
  <2>1. Programmed /\ wp \in WpState
    BY DEF Programmed, FtlInv, TypeOK
  <2>. QED
    BY <2>1, LastWpIndex DEF WrittenPages
<1>2. SUFFICES ASSUME free_line_cnt = 0 PROVE FALSE
  BY RoomTypes
<1>3. (free_line_cnt + 1) * pgs_per_line = pgs_per_line /\ free_line_cnt * pgs_per_line = 0
  BY <1>2, RoomTypes
<1>4. CASE InGc
  <2>1. pgs_per_line + Cardinality(LeftToCopy) < pgs_per_line
    BY <1>1, <1>3, <1>4 DEF Room
  <2>. QED
    BY <2>1, RoomTypes
<1>5. CASE ~InGc
  <2>1. lpn <= end_lpn
    BY <1>1, <1>5 DEF FtlInv, Control
  <2>2. pgs_per_line + LeftToWrite <= 0
    BY <1>1, <1>3, <1>5 DEF Room
  <2>. QED
    BY <1>1, <2>1, <2>2, RoomTypes DEF LeftToWrite
<1>. QED
  BY <1>4, <1>5

(* The write pointer moves to the first page of the next free line.        *)
LEMMA RoomNextLine ==
  ASSUME FtlInv, FtlInv', Room, AdvanceToNextLine
  PROVE  Room'
<1>1. /\ pc = "advance" /\ LastPageOfLine /\ Continue /\ status' = status
      /\ free_line_cnt' = free_line_cnt - 1
      /\ wp'.ch = 0 /\ wp'.lun = 0 /\ wp'.pg = 0
  BY DEF AdvanceToNextLine, nandVars
<1>2. /\ pc' \in {"clean", "lpn"} /\ Programmed /\ ~Programmed'
      /\ InGc' <=> InGc
      /\ pc' = "clean" <=> InGc
      /\ gc'.line = gc.line
      /\ \A p \in Ppa : CopiedByGc(p)' <=> CopiedByGc(p)
  BY <1>1, ContinueStep
<1>3. WrittenPages = pgs_per_line
  <2>1. wp \in WpState
    BY DEF FtlInv, TypeOK
  <2>. QED
    BY <1>1, <1>2, <2>1, LastWpIndex DEF WrittenPages
<1>4. WrittenPages' = 0
  BY <1>1, <1>2, GeometryAssumption DEF WrittenPages, WpIndex
<1>5. LeftToCopy' = LeftToCopy
  BY <1>1, <1>2 DEF LeftToCopy
<1>6. /\ free_line_cnt' * pgs_per_line = free_line_cnt * pgs_per_line - pgs_per_line
      /\ (free_line_cnt' + 1) * pgs_per_line
           = (free_line_cnt + 1) * pgs_per_line - pgs_per_line
      /\ free_line_cnt * pgs_per_line \in Int /\ (free_line_cnt + 1) * pgs_per_line \in Int
  <2>1. PICK n \in Nat : n = pgs_per_line
    BY RoomTypes
  <2>2. PICK k \in Nat : k = free_line_cnt
    BY RoomTypes
  <2>3. /\ (k - 1) * n = k * n - n /\ (k + 1) * n = k * n + n
        /\ k * n \in Int /\ (k + 1) * n \in Int /\ k - 1 + 1 = k
    BY LineMultiples
  <2>. QED
    BY <1>1, <2>1, <2>2, <2>3
<1>7. CASE InGc
  <2>1. UNCHANGED <<lpn, end_lpn>>
    BY <1>1, <1>7 DEF Continue, InGc, reqVars
  <2>2. WrittenPages + Cardinality(LeftToCopy) < (free_line_cnt + 1) * pgs_per_line
    BY <1>7 DEF Room
  <2>3. WrittenPages' + Cardinality(LeftToCopy') < (free_line_cnt' + 1) * pgs_per_line
    <3> DEFINE F == (free_line_cnt + 1) * pgs_per_line
               F1 == (free_line_cnt' + 1) * pgs_per_line
    <3>1. F1 = F - pgs_per_line /\ F \in Int /\ pgs_per_line + Cardinality(LeftToCopy) < F
      BY <1>3, <1>6, <2>2
    <3> HIDE DEF F, F1
    <3>2. 0 + Cardinality(LeftToCopy) < F1
      BY <3>1, RoomTypes
    <3>. QED
      BY <1>4, <1>5, <3>2 DEF F1
  <2>. QED
    BY <1>2, <1>4, <1>7, <2>1, <2>3 DEF Room
<1>8. CASE ~InGc
  <2>1. lpn' = lpn + 1 /\ end_lpn' = end_lpn
    BY <1>1, <1>8 DEF Continue, InGc
  <2>2. lpn <= end_lpn
    BY <1>2, <1>8 DEF FtlInv, Control
  <2>3. LeftToWrite' = LeftToWrite /\ LeftToWrite \in Int
    BY <1>2, <2>1, RoomTypes DEF LeftToWrite
  <2>4. lpn' <= end_lpn' + 1 /\ end_lpn' - lpn' < max_req_pgs
    BY <2>1, <2>2, RoomTypes DEF Room
  <2>5. WrittenPages + LeftToWrite <= free_line_cnt * pgs_per_line
    BY <1>1, <1>8 DEF Room
  <2>6. WrittenPages' + LeftToWrite' <= free_line_cnt' * pgs_per_line
    <3> DEFINE F == free_line_cnt * pgs_per_line
               F1 == free_line_cnt' * pgs_per_line
    <3>1. F1 = F - pgs_per_line /\ F \in Int /\ pgs_per_line + LeftToWrite <= F
      BY <1>3, <1>6, <2>5
    <3> HIDE DEF F, F1
    <3>2. 0 + LeftToWrite <= F1
      BY <2>3, <3>1, RoomTypes
    <3>. QED
      BY <1>4, <2>3, <3>2 DEF F1
  <2>. QED
    BY <1>2, <1>4, <1>8, <2>4, <2>6 DEF Room
<1>. QED
  BY <1>7, <1>8

-----------------------------------------------------------------------------
(* How many lines are free *)

(* A set of lines has pgs_per_line pages for each of its lines.            *)
LEMMA PagesOfLines ==
  ASSUME NEW S \in SUBSET Lines
  PROVE  Cardinality({p \in Ppa : p.blk \in S}) = Cardinality(S) * pgs_per_line
<1> DEFINE chs == 0 .. nchs - 1
           luns == 0 .. luns_per_ch - 1
           pgs == 0 .. pgs_per_blk - 1
           D == (chs \X luns) \X pgs
           T == {p \in Ppa : p.blk \in S}
           f == [x \in S \X D |-> [ch |-> x[2][1][1], lun |-> x[2][1][2],
                                   blk |-> x[1], pg |-> x[2][2]]]
<1>1. /\ IsFiniteSet(chs) /\ Cardinality(chs) = nchs
      /\ IsFiniteSet(luns) /\ Cardinality(luns) = luns_per_ch
      /\ IsFiniteSet(pgs) /\ Cardinality(pgs) = pgs_per_blk
  <2>1. ASSUME NEW n \in Nat \ {0}
        PROVE  IsFiniteSet(0 .. n - 1) /\ Cardinality(0 .. n - 1) = n
    <3>1. 0 \in Int /\ n - 1 \in Int /\ ~(0 > n - 1)
      OBVIOUS
    <3>2. IsFiniteSet(0 .. n - 1) /\ Cardinality(0 .. n - 1) = n - 1 - 0 + 1
      BY <3>1, FS_Interval
    <3>. QED
      BY <3>2
  <2>. QED
    BY <2>1, GeometryAssumption
<1>2. IsFiniteSet(S)
  BY LinesFinite
<1>3. ExistsBijection(S \X D, T)
  <2>1. f \in [S \X D -> T]
    <3> SUFFICES ASSUME NEW x \in S \X D PROVE f[x] \in T
      OBVIOUS
    <3>1. /\ x[1] \in S /\ x[2] \in D /\ x[2][1] \in chs \X luns
          /\ x[2][1][1] \in chs /\ x[2][1][2] \in luns /\ x[2][2] \in pgs
      OBVIOUS
    <3>. QED
      BY <3>1 DEF Ppa
  <2>2. ASSUME NEW x \in S \X D, NEW y \in S \X D, f[x] = f[y]
        PROVE  x = y
    <3>1. /\ x = <<x[1], <<<<x[2][1][1], x[2][1][2]>>, x[2][2]>>>>
          /\ y = <<y[1], <<<<y[2][1][1], y[2][1][2]>>, y[2][2]>>>>
      OBVIOUS
    <3>2. /\ x[2][1][1] = y[2][1][1] /\ x[2][1][2] = y[2][1][2]
          /\ x[1] = y[1] /\ x[2][2] = y[2][2]
      BY <2>2
    <3>. QED
      BY <3>1, <3>2
  <2>3. ASSUME NEW p \in T
        PROVE  \E x \in S \X D : f[x] = p
    <3> DEFINE x == <<p.blk, <<<<p.ch, p.lun>>, p.pg>>>>
    <3>1. /\ p.blk \in S /\ p.ch \in chs /\ p.lun \in luns /\ p.pg \in pgs
          /\ p = [ch |-> p.ch, lun |-> p.lun, blk |-> p.blk, pg |-> p.pg]
      BY DEF Ppa
    <3>2. x \in S \X D
      BY <3>1
    <3>3. f[x] = p
      BY <3>1, <3>2
    <3>. QED
      BY <3>2, <3>3
  <2> HIDE DEF f, T, D
  <2>4. f \in Bijection(S \X D, T)
    BY <2>1, <2>2, <2>3 DEF Bijection, Injection, Surjection, IsInjective
  <2>. QED
    BY <2>4 DEF ExistsBijection
<1> HIDE DEF chs, luns, pgs, f
<1>4. IsFiniteSet(chs \X luns) /\ Cardinality(chs \X luns) = nchs * luns_per_ch
  BY <1>1, FS_Product
<1>5. IsFiniteSet(D) /\ Cardinality(D) = pgs_per_line
  BY <1>1, <1>4, FS_Product DEF pgs_per_line
<1> HIDE DEF D
<1>6. IsFiniteSet(S \X D) /\ Cardinality(S \X D) = Cardinality(S) * pgs_per_line
  BY <1>2, <1>5, FS_Product
<1> HIDE DEF T
<1>7. Cardinality(T) = Cardinality(S) * pgs_per_line
  BY <1>3, <1>6, FS_Bijection
<1>. QED
  BY <1>7 DEF T

(* There are no more valid pages than logical ones, outside a collection.  *)
LEMMA ValidPagesFit ==
  ASSUME FtlInv, ~InGc
  PROVE  LET V == {p \in Ppa : status[p] = "PG_VALID"}
         IN  IsFiniteSet(V) /\ Cardinality(V) <= nlpns
<1> DEFINE V == {p \in Ppa : status[p] = "PG_VALID"}
           f == [p \in V |-> rmap[ppa2pgidx(p)]]
<1>1. \A p \in V : rmap[ppa2pgidx(p)] \in Lpns /\ maptbl[rmap[ppa2pgidx(p)]] = p
  BY DEF FtlInv, MapConsistent, MapReverse, CopiedByGc
<1>2. f \in [V -> Lpns] /\ \A p \in V : maptbl[f[p]] = p
  BY <1>1
<1>3. IsFiniteSet(Lpns) /\ Cardinality(Lpns) = nlpns
  BY FS_Interval, GeometryAssumption DEF Lpns
<1> HIDE DEF f, V
<1>4. f \in Injection(V, Lpns)
  BY <1>2 DEF Injection, IsInjective
<1>5. IsFiniteSet(V) /\ Cardinality(V) <= nlpns
  BY <1>3, <1>4, FS_Injection
<1>. QED
  BY <1>5 DEF V

(* As many lines are free as the list is long.                             *)
LEMMA FreeLinesCounted ==
  ASSUME FtlInv
  PROVE  IsFiniteSet(FreeLines) /\ Cardinality(FreeLines) = free_line_cnt
<1> DEFINE n == Len(free_line_list)
           f == [i \in 1 .. n |-> free_line_list[i]]
<1>1. /\ n \in Nat /\ DOMAIN free_line_list = 1 .. n /\ n = free_line_cnt
      /\ FreeLines = {free_line_list[i] : i \in 1 .. n}
      /\ \A i, j \in 1 .. n : free_line_list[i] = free_line_list[j] => i = j
  <2>1. free_line_list \in Seq(Lines)
    BY DEF FtlInv, TypeOK
  <2>2. n \in Nat /\ DOMAIN free_line_list = 1 .. n
    BY <2>1
  <2> HIDE DEF n
  <2>. QED
    BY <2>2 DEF FreeLines, FtlInv, LinesPartition, CountersMatchLists, n
<1> HIDE DEF n
<1>2. f \in Bijection(1 .. n, FreeLines)
  <2>1. /\ f \in [1 .. n -> FreeLines]
        /\ \A i, j \in 1 .. n : f[i] = f[j] => i = j
        /\ \A l \in FreeLines : \E i \in 1 .. n : f[i] = l
    BY <1>1
  <2> HIDE DEF f
  <2>. QED
    BY <2>1 DEF Bijection, Injection, Surjection, IsInjective
<1>3. IsFiniteSet(1 .. n) /\ Cardinality(1 .. n) = n
  BY <1>1, FS_Interval
<1> HIDE DEF f
<1>4. ExistsBijection(1 .. n, FreeLines)
  BY <1>2 DEF ExistsBijection
<1>. QED
  BY <1>1, <1>3, <1>4, FS_Bijection

(* Without a victim every page written is valid, or of the current line.   *)
(* They fit the namespace, so the spare lines are free.                    *)
LEMMA NoVictimEnoughFree ==
  ASSUME SpareArea, FtlInv, CountsExact, Room, pc = "gc_high", victim_line_pq = {}
  PROVE  free_line_cnt >= 1 /\ (free_line_cnt >= 2 \/ WpIndex = 0)
<1> DEFINE V == {p \in Ppa : status[p] = "PG_VALID"}
           T == {p \in Ppa : p.blk \in full_line_list}
<1>1. ~InGc /\ ~Programmed /\ WrittenPages = WpIndex
  <2>1. ~InGc /\ ~Programmed
    BY DEF FtlInv, Control, Programmed
  <2>. QED
    BY <2>1, RoomTypes DEF WrittenPages
<1>2. IsFiniteSet(V) /\ Cardinality(V) <= nlpns
  BY <1>1, ValidPagesFit
<1>3. /\ full_line_list \in SUBSET Lines /\ line \in [Lines -> LineState]
      /\ status \in [Ppa -> {"PG_FREE", "PG_INVALID", "PG_VALID"}]
      /\ FreeLines \cap full_line_list = {} /\ wp.curline \in Lines
      /\ wp.curline \notin FreeLines \cup full_line_list
      /\ Lines = FreeLines \cup full_line_list \cup {wp.curline}
  BY <1>1, RoomTypes DEF FtlInv, TypeOK, LinesPartition
<1>4. T \in SUBSET V
  <2> SUFFICES ASSUME NEW p \in Ppa, p.blk \in full_line_list
               PROVE  status[p] = "PG_VALID"
    OBVIOUS
  <2>1. status[p] # "PG_FREE"
    BY <1>1, <1>3 DEF FtlInv, ErasedExactly, ErasedByGc
  <2>2. status[p] # "PG_INVALID"
    <3>1. line[p.blk].ipc = 0
      BY DEF FtlInv, LineSums, VictimsWorthCleaning
    <3>2. Cardinality(LinePages(status, "PG_INVALID", p.blk)) = 0
      BY <1>1, <1>3, <3>1, CountsAre
    <3>3. LinePages(status, "PG_INVALID", p.blk) = {}
      BY <3>2, CountsFinite, FS_EmptySet
    <3>. QED
      BY <3>3 DEF LinePages
  <2>. QED
    BY <1>3, <2>1, <2>2
<1>5. WpIndex > 0 => \E q \in V : q \notin T
  <2> SUFFICES ASSUME WpIndex > 0 PROVE \E q \in V : q \notin T
    OBVIOUS
  <2>1. line[wp.curline].vpc > 0
    BY <1>1 DEF Room
  <2>2. Cardinality(LinePages(status, "PG_VALID", wp.curline)) # 0
    BY <1>1, <1>3, <2>1, CountsAre
  <2>3. LinePages(status, "PG_VALID", wp.curline) # {}
    BY <2>2, FS_EmptySet
  <2>. QED
    BY <1>3, <2>3 DEF LinePages
<1>6. Cardinality(T) = Cardinality(full_line_list) * pgs_per_line
  BY <1>3, PagesOfLines
<1>7. /\ IsFiniteSet(T) /\ Cardinality(T) \in Nat /\ Cardinality(T) <= nlpns
      /\ WpIndex > 0 => Cardinality(T) + 1 <= nlpns
  <2> HIDE DEF T, V
  <2>1. IsFiniteSet(T) /\ Cardinality(T) \in Nat /\ Cardinality(V) \in Nat
        /\ Cardinality(T) <= Cardinality(V)
    BY <1>2, <1>4, FS_Subset, FS_CardinalityType
  <2>2. ASSUME WpIndex > 0 PROVE Cardinality(T) + 1 <= Cardinality(V)
    <3>1. PICK q \in V : q \notin T
      BY <1>5, <2>2
    <3>2. Cardinality(T \cup {q}) = Cardinality(T) + 1
      BY <2>1, <3>1, FS_AddElement
    <3>3. T \cup {q} \in SUBSET V
      BY <1>4, <3>1
    <3>. QED
      BY <1>2, <3>2, <3>3, FS_Subset
  <2>. QED
    BY <1>2, <2>1, <2>2, GeometryAssumption
<1>8. Cardinality(full_line_list) = tt_lines - 1 - free_line_cnt
  <2> DEFINE A == FreeLines \cup full_line_list
  <2>1. /\ IsFiniteSet(full_line_list) /\ Cardinality(full_line_list) \in Nat
        /\ IsFiniteSet(FreeLines) /\ Cardinality(FreeLines) = free_line_cnt
    BY <1>3, LinesFinite, FS_CardinalityType, FreeLinesCounted
  <2>2. IsFiniteSet(A) /\ Cardinality(A) = free_line_cnt + Cardinality(full_line_list)
    <3>1. /\ IsFiniteSet(A)
          /\ Cardinality(A) = Cardinality(FreeLines) + Cardinality(full_line_list)
                                - Cardinality(FreeLines \cap full_line_list)
      BY <2>1, FS_Union
    <3>2. Cardinality(FreeLines \cap full_line_list) = 0
      BY <1>3, FS_EmptySet
    <3> HIDE DEF A
    <3>. QED
      BY <2>1, <3>1, <3>2, RoomTypes
  <2>3. Cardinality(Lines) = tt_lines
    BY FS_Interval, GeometryAssumption DEF Lines
  <2>4. Lines = A \cup {wp.curline} /\ wp.curline \notin A
    BY <1>3
  <2> HIDE DEF A
  <2>5. Cardinality(Lines) = Cardinality(A) + 1
    BY <2>2, <2>4, FS_AddElement
  <2>. QED
    BY <2>1, <2>2, <2>3, <2>5, RoomTypes, GeometryAssumption
<1> HIDE DEF T, V
<1>9. PICK P \in Nat \ {0} : P = pgs_per_line
  BY RoomTypes
<1>10. PICK n \in Int : n = tt_lines - 1 - free_line_cnt
  BY RoomTypes, GeometryAssumption
<1>11. PICK m \in Int : m = tt_lines - gc_thres_lines_high - 1
  BY GeometryAssumption
<1>12. n * P <= m * P /\ (WpIndex > 0 => n * P + 1 <= m * P)
  <2>1. Cardinality(T) = n * P
    BY <1>6, <1>8, <1>9, <1>10
  <2>2. nlpns <= m * P
    BY <1>9, <1>11 DEF SpareArea
  <2>3. n * P \in Int /\ m * P \in Int /\ nlpns \in Int
    BY GeometryAssumption
  <2>. QED
    BY <1>7, <2>1, <2>2, <2>3
<1>13. n <= m
  <2>1. ASSUME n - m >= 1 PROVE FALSE
    <3>1. (n - m) * P >= P
      BY <2>1, LineMultiples
    <3>2. (n - m) * P = n * P - m * P /\ n * P \in Int /\ m * P \in Int
      OBVIOUS
    <3>. QED
      BY <1>12, <3>1, <3>2
  <2>. QED
    BY <2>1
<1>14. WpIndex > 0 => n < m
  BY <1>12, <1>13
<1>. QED
  BY <1>10, <1>11, <1>13, <1>14, RoomTypes, GeometryAssumption DEF SpareArea

(* The loop of forced collections ends with room for the request.          *)
LEMMA RoomForcedGcDone ==
  ASSUME SpareArea, FtlInv, CountsExact, Room, ForcedGcDone
  PROVE  Room'
<1>1. /\ pc = "gc_high" /\ pc' = "lpn"
      /\ UNCHANGED <<status, line, wp, gc, lpn, end_lpn, free_line_cnt>>
      /\ ~should_gc_high \/ victim_line_pq = {}
  BY DEF ForcedGcDone, nandVars, listVars, reqVars
<1>2. ~InGc /\ ~InGc' /\ ~Programmed /\ ~Programmed'
  BY <1>1 DEF FtlInv, Control, InGc, Programmed
<1>3. WrittenPages' = WpIndex /\ WrittenPages = WpIndex
  BY <1>1, <1>2, RoomTypes DEF WpIndex, WrittenPages
<1>4. free_line_cnt >= 1 /\ (free_line_cnt >= 2 \/ WpIndex = 0)
  <2>1. CASE ~should_gc_high
    BY <2>1, RoomTypes, GeometryAssumption DEF should_gc_high, SpareArea
  <2>2. CASE victim_line_pq = {}
    BY <1>1, <2>2, NoVictimEnoughFree
  <2>. QED
    BY <1>1, <2>1, <2>2
<1>5. LeftToWrite' \in Int /\ LeftToWrite' <= pgs_per_line
  <2>1. LeftToWrite' = end_lpn - lpn + 1
    BY <1>1, <1>2 DEF LeftToWrite
  <2>2. end_lpn - lpn < max_req_pgs /\ max_req_pgs <= pgs_per_line
    BY DEF Room, SpareArea
  <2>. QED
    BY <2>1, <2>2, RoomTypes
<1>6. WpIndex + LeftToWrite' <= free_line_cnt * pgs_per_line
  <2>1. PICK n \in Nat : n = pgs_per_line
    BY RoomTypes
  <2>2. PICK k \in Nat : k = free_line_cnt
    BY RoomTypes
  <2>3. /\ k >= 1 => k * n >= n
        /\ k >= 2 => k * n >= n + n
        /\ k * n \in Int
    BY LineMultiples
  <2>4. WpIndex \in Nat /\ WpIndex <= n
    BY <2>1, RoomTypes
  <2>5. LeftToWrite' \in Int /\ LeftToWrite' <= n /\ k >= 1 /\ (k >= 2 \/ WpIndex = 0)
    BY <1>4, <1>5, <2>1, <2>2
  <2>6. PICK x \in Int : x = k * n
    BY <2>3
  <2>7. PICK w \in Nat : w = WpIndex
    BY <2>4
  <2>8. PICK r \in Int : r = LeftToWrite'
    BY <2>5
  <2>9. /\ k >= 1 => x >= n
        /\ k >= 2 => x >= n + n
    BY <2>3, <2>6
  <2>10. w <= n /\ r <= n /\ (k >= 2 \/ w = 0) /\ k >= 1
    BY <2>4, <2>5, <2>7, <2>8
  <2>11. w + r <= x
    BY <2>9, <2>10
  <2>. QED
    BY <2>1, <2>2, <2>6, <2>7, <2>8, <2>11
<1>7. WrittenPages > 0 => line[wp.curline].vpc > 0
  BY <1>1 DEF Room
<1>8. lpn <= end_lpn + 1 /\ end_lpn - lpn < max_req_pgs
  BY DEF Room
<1>. QED
  BY <1>1, <1>2, <1>3, <1>6, <1>7, <1>8 DEF Room

(* Every step keeps Room; AdvanceAbort is not enabled.                     *)
LEMMA RoomStep ==
  ASSUME SpareArea, FtlInv, FtlInv', CountsExact, Room, [Next]_vars
  PROVE  Room'
<1>1. CASE UNCHANGED vars
  BY <1>1 DEF vars, mapVars, nandVars, listVars, reqVars, Room, WrittenPages, WpIndex,
     Programmed, InGc, LeftToCopy, LeftToWrite, CopiedByGc
<1>2. ASSUME AdvanceAbort PROVE FALSE
  <2>1. free_line_cnt = 0
    BY <1>2, RoomTypes DEF AdvanceAbort
  <2>2. free_line_cnt >= 1
    BY <1>2, FreeLineAtEnd DEF AdvanceAbort
  <2>. QED
    BY <2>1, <2>2
<1>. QED
  BY <1>1, <1>2, RoomControl, RoomWritePage, RoomInvalidate, RoomStartGc, RoomGcWritePage,
     RoomClean, RoomFreeLine, RoomAdvanceInLine, RoomNextLine, RoomForcedGcDone
     DEF Next, Step, CollectStep, WriteStep, AdvanceStep

(* The write pointer never runs out of free lines, provided that the spare *)
(* area is the high watermark and one more line and a request no longer    *)
(* than a line: get_next_free_line never returns NULL, so that             *)
(* ssd_advance_write_pointer does not abort.                               *)
THEOREM NeverAborts == ASSUME SpareArea PROVE Spec => []NoAbort
<1>1. FtlInv /\ FtlInv' /\ CountsExact /\ Room /\ [Next]_vars => Room'
  BY RoomStep
<1>2. Room => NoAbort
  BY DEF Room, NoAbort
<1>. QED
  BY <1>1, <1>2, RoomInit, FtlInvariant, PageCountsExact, PTL DEF Spec
=============================================================================
