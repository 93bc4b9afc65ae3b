--------------------------- MODULE SsdModesProofs ---------------------------
(***************************************************************************)
(* What the modes promise for every drive: the ranges commands accept stay *)
(* inside the memory and the bitmaps, requests wait for the NAND, chunk    *)
(* descriptors are true, and reads deliver what was written.               *)
(***************************************************************************)
EXTENDS SsdModes, FiniteSetTheorems, SequenceTheorems, TLAPS

-----------------------------------------------------------------------------
(* Induction on the natural numbers, from the well-foundedness of inclusion, and the *)
(* functions that a recursion defines.                                               *)

\* Every non-empty set of finite subsets of S has an inclusion-minimal member.
LEMMA MinimalSubset ==
  ASSUME NEW S, NEW T, T \subseteq FiniteSubsetsOf(S), T # {}
  PROVE  \E x \in T : \A y \in T : y \subseteq x => y = x
<1>1. \E x \in T : \A y \in T : <<y, x>> \notin StrictSubsetOrdering(S)
  BY FS_StrictSubsetOrderingWellFounded, WFMin
<1>2. \A x, y \in T : x \in SUBSET S /\ y \in SUBSET S
  BY DEF FiniteSubsetsOf
<1> QED
  BY <1>1, <1>2 DEF StrictSubsetOrdering

\* Every non-empty set of natural numbers has a least member.
LEMMA LeastNat ==
  ASSUME NEW T, T \subseteq Nat, T # {}
  PROVE  \E x \in T : \A y \in T : x <= y
<1> DEFINE I == {1 .. x : x \in T}
<1>1. I \subseteq FiniteSubsetsOf(Nat)
  <2> SUFFICES ASSUME NEW x \in T PROVE 1 .. x \in FiniteSubsetsOf(Nat)
    OBVIOUS
  <2>1. x \in Int /\ 1 \in Int
    OBVIOUS
  <2>2. IsFiniteSet(1 .. x)
    BY <2>1, FS_Interval
  <2>3. 1 .. x \subseteq Nat
    BY <2>1
  <2> QED BY <2>2, <2>3 DEF FiniteSubsetsOf
<1>2. I # {}
  OBVIOUS
<1>3. PICK m \in I : \A y \in I : y \subseteq m => y = m
  <2> HIDE DEF I
  <2> QED BY <1>1, <1>2, MinimalSubset
<1>4. PICK x \in T : m = 1 .. x
  OBVIOUS
<1>5. \A y \in T : x <= y
  <2> SUFFICES ASSUME NEW y \in T, y < x PROVE FALSE
    BY SMT
  <2>1. x \in Nat /\ y \in Nat
    OBVIOUS
  <2>2. 1 .. y \subseteq 1 .. x
    BY <2>1
  <2>3. 1 .. y = 1 .. x
    BY <2>2, <1>3, <1>4, Zenon
  <2>4. x \in 1 .. x /\ x \notin 1 .. y
    BY <2>1
  <2> QED BY <2>3, <2>4
<1> QED
  BY <1>5

\* A set with 0 that has n + 1 when it has n has every natural number.
LEMMA NatSetInduction ==
  ASSUME NEW T, 0 \in T, \A n \in Nat : n \in T => n + 1 \in T
  PROVE  \A n \in Nat : n \in T
<1> SUFFICES ASSUME Nat \ T # {} PROVE FALSE
  OBVIOUS
<1>1. Nat \ T \subseteq Nat
  OBVIOUS
<1>2. PICK x \in Nat \ T : \A y \in Nat \ T : x <= y
  BY LeastNat, <1>1
<1>3. x # 0 /\ x - 1 \in Nat /\ (x - 1) + 1 = x
  BY <1>2
<1>4. x - 1 \in T
  BY <1>2, <1>3
<1> QED
  BY <1>4, <1>3

\* f runs through the values that the step function F on S produces from base.
StepFunctions(S, n) == [S \X (1 .. n) -> S]
Runs(f, F, S, base, n) ==
    /\ f \in [0 .. n -> S]
    /\ f[0] = base
    /\ \A k \in 1 .. n : f[k] = F[<<f[k - 1], k>>]

\* A step function can be iterated: the values a recursion on 0 .. n defines exist.
LEMMA RecursionExists ==
  ASSUME NEW n \in Nat, NEW S, NEW base \in S, NEW F \in StepFunctions(S, n)
  PROVE  \E f : Runs(f, F, S, base, n)
<1> DEFINE T == {m \in Nat : m <= n => \E f : Runs(f, F, S, base, m)}
<1>1. F \in [S \X (1 .. n) -> S]
  BY DEF StepFunctions
<1>2. 0 \in T
  <2>1. Runs([k \in 0 .. 0 |-> base], F, S, base, 0)
    BY DEF Runs
  <2> QED BY <2>1
<1>3. \A m \in Nat : m \in T => m + 1 \in T
  <2> SUFFICES ASSUME NEW m \in Nat, m + 1 <= n, NEW f, Runs(f, F, S, base, m)
               PROVE  \E g : Runs(g, F, S, base, m + 1)
    OBVIOUS
  <2> DEFINE g == [k \in 0 .. m + 1 |-> IF k <= m THEN f[k] ELSE F[<<f[m], m + 1>>]]
  <2>1. f \in [0 .. m -> S] /\ f[0] = base /\ \A k \in 1 .. m : f[k] = F[<<f[k - 1], k>>]
    BY DEF Runs
  <2>2. f[m] \in S /\ m + 1 \in 1 .. n
    BY <2>1
  <2>3. F[<<f[m], m + 1>>] \in S
    BY <1>1, <2>2
  <2>4. g \in [0 .. m + 1 -> S]
    BY <2>1, <2>3
  <2>5. g[0] = base
    BY <2>1
  <2>6. \A k \in 1 .. m + 1 : g[k] = F[<<g[k - 1], k>>]
    <3> TAKE k \in 1 .. m + 1
    <3>1. CASE k <= m
      <4>1. k \in 1 .. m /\ k \in 0 .. m + 1 /\ k - 1 \in 0 .. m + 1 /\ k - 1 <= m
        BY <3>1
      <4> QED BY <2>1, <4>1
    <3>2. CASE k = m + 1
      <4>1. k \in 0 .. m + 1 /\ ~(k <= m) /\ k - 1 = m /\ m \in 0 .. m + 1
        BY <3>2
      <4> QED BY <4>1, <3>2
    <3> QED BY <3>1, <3>2
  <2>7. Runs(g, F, S, base, m + 1)
    BY <2>4, <2>5, <2>6 DEF Runs
  <2> QED BY <2>7
<1>4. n \in T
  <2> HIDE DEF T
  <2> QED BY <1>2, <1>3, NatSetInduction
<1> QED
  BY <1>4
-----------------------------------------------------------------------------
(* Format NVM and the ranges of commands. *)

\* lba_index is 0 as shipped, so that the namespace starts with the smallest sectors; and
\* the address space of an open-channel 2.0 drive, whose fields are powers of two, is as
\* large as the drive.  (Where this fails, so does FormatKeepsBounds: see the README.)
ShippedSizes ==
    /\ \A size \in LbaSizes : InitLba <= size
    /\ "ocssd20" \in Modes => oc20_nsze \in Nat /\ oc20_nsze <= NsBlks

BoundsInv ==
    /\ mode \in Modes
    /\ lba_ds \in 1 .. PageSize
    /\ nsze \in Nat /\ nsze * lba_ds <= ns_size /\ nsze <= BitmapBits
    /\ uncorrectable \subseteq 0 .. BitmapBits - 1

\* The sectors a size leaves fit the memory, and a larger size never leaves more.
LEMMA SectorsFit ==
    ASSUME NEW size \in LbaSizes
    PROVE  /\ size \in 1 .. PageSize
           /\ ns_blks(size) \in Nat /\ ns_blks(size) * size <= ns_size
           /\ ShippedSizes => ns_blks(size) <= BitmapBits
<1>1. /\ size \in {1, 2} /\ InitLba \in {1, 2} /\ NsBlks \in Nat
      /\ LbaSizes \subseteq 1 .. 2
  BY BlockAssumption, BackendAssumption DEF PageSize
<1>2. ns_size = 2 * NsBlks /\ ns_size \div 1 = ns_size /\ ns_size \div 2 = NsBlks
  BY <1>1 DEF ns_size, PageSize
<1>3. ns_blks(1) = 2 * NsBlks /\ ns_blks(2) = NsBlks
  BY <1>2 DEF ns_blks
<1>4. ShippedSizes => InitLba <= size
  BY DEF ShippedSizes
<1> QED
  BY <1>1, <1>2, <1>3, <1>4 DEF BitmapBits, PageSize

\* nvme_init_namespace, and what the open-channel modes put in place of it.
LEMMA BoundsInit ==
    ASSUME ShippedSizes, Init
    PROVE  BoundsInv
<1>1. mode \in {"ocssd12", "ocssd20", "nossd", "bbssd"} /\ mode \in Modes
  BY ModesAssumption DEF Init
<1>2. /\ NsBlks \in Nat /\ InitLba \in LbaSizes /\ InitLba \in {1, 2} /\ ns_size = 2 * NsBlks
      /\ PageSize = 2
  BY BlockAssumption, BackendAssumption DEF PageSize, ns_size
<1>3. BitmapBits \in Nat /\ NsBlks <= BitmapBits
  BY <1>2, SectorsFit DEF BitmapBits, ns_blks
<1>4. CASE mode = "ocssd12"
  <2>1. BlockInit(PageSize, NsBlks)
    BY <1>4 DEF Init
  <2> QED BY <2>1, <1>2, <1>3 DEF BlockInit, BoundsInv, Init
<1>5. CASE mode = "ocssd20"
  <2>1. BlockInit(PageSize, oc20_nsze)
    BY <1>5 DEF Init
  <2>2. oc20_nsze \in Nat /\ oc20_nsze <= NsBlks
    BY <1>1, <1>5 DEF ShippedSizes
  <2> QED BY <2>1, <2>2, <1>2, <1>3 DEF BlockInit, BoundsInv, Init
<1>6. CASE mode \in {"nossd", "bbssd"}
  <2>1. BlockInit(InitLba, ns_blks(InitLba))
    BY <1>6 DEF Init
  <2>2. ns_blks(InitLba) \in Nat /\ ns_blks(InitLba) * InitLba <= ns_size
    BY <1>2, SectorsFit
  <2> QED BY <2>1, <2>2, <1>2, <1>3 DEF BlockInit, BoundsInv, BitmapBits, Init
<1> QED
  BY <1>1, <1>4, <1>5, <1>6

\* Every step keeps the sizes, the bitmap and the marks in it.
LEMMA BoundsStep ==
    ASSUME ShippedSizes, BoundsInv, [Next]_vars
    PROVE  BoundsInv'
<1>1. mode' = mode /\ mode \in Modes
  BY DEF BoundsInv, Next, vars
<1>2. mode \in {"ocssd12", "ocssd20", "nossd", "bbssd"}
  BY <1>1, ModesAssumption
<1>3. CASE UNCHANGED blockVars
  BY <1>1, <1>3 DEF BoundsInv, blockVars, ns_size, BitmapBits, ns_blks
<1>4. CASE nvme_io_cmd(Oncs[mode])
  <2>1. ASSUME NEW slba \in Slbas, NEW nlb \in Nlbs, nvme_write_uncor(slba, nlb)
        PROVE  BoundsInv'
    <3>1. slba \in Nat /\ nlb \in Nat /\ nsze \in Nat /\ BitmapBits \in Nat
      BY BlockAssumption, SectorsFit DEF BoundsInv, BitmapBits
    <3>2. /\ lba_ds' = lba_ds /\ nsze' = nsze
          /\ \/ uncorrectable' = uncorrectable
             \/ /\ slba + nlb <= nsze
                /\ uncorrectable' = uncorrectable \cup (slba .. slba + nlb - 1)
      BY <2>1 DEF nvme_write_uncor
    <3>3. slba + nlb <= nsze => slba .. slba + nlb - 1 \subseteq 0 .. BitmapBits - 1
      BY <3>1 DEF BoundsInv
    <3>4. uncorrectable' \subseteq 0 .. BitmapBits - 1
      BY <3>2, <3>3 DEF BoundsInv
    <3> QED BY <1>1, <3>2, <3>4 DEF BoundsInv, ns_size, BitmapBits, ns_blks
  <2> QED
    BY <1>3, <1>4, <2>1 DEF nvme_io_cmd, nvme_dsm, nvme_compare, nvme_write_zeros, nvme_flush,
        Answered
<1>5. CASE BlockNext
  <2>1. ASSUME NEW slba \in Slbas, NEW nlb \in Nlbs, NEW is_write \in BOOLEAN, NEW v \in Vals,
               NEW off \in 0 .. PageSize - 1, NEW prp_ok \in BOOLEAN,
               nvme_rw(slba, nlb, is_write, v, off, prp_ok)
        PROVE  UNCHANGED blockVars
    BY <2>1 DEF nvme_rw, Answered
  <2>2. ASSUME NEW size \in LbaSizes, nvme_format(size)
        PROVE  BoundsInv'
    <3>1. lba_ds' = size /\ nsze' = ns_blks(size) /\ uncorrectable' = uncorrectable
      BY <2>2 DEF nvme_format, nvme_format_namespace
    <3>2. /\ size \in 1 .. PageSize
          /\ ns_blks(size) \in Nat /\ ns_blks(size) * size <= ns_size
          /\ ns_blks(size) <= BitmapBits
      BY SectorsFit
    <3> QED BY <1>1, <3>1, <3>2 DEF BoundsInv, ns_size, BitmapBits, ns_blks
  <2> QED BY <1>3, <1>5, <2>1, <2>2 DEF BlockNext
<1>6. CASE UNCHANGED vars
  BY <1>3, <1>6 DEF vars
<1>7. CASE Next
  <2>1. CASE nvme_register_extensions(mode)
    BY <1>2, <2>1, <1>3, <1>5 DEF nvme_register_extensions
  <2> QED BY <1>7, <2>1, <1>4 DEF Next
<1> QED
  BY <1>6, <1>7

\* With the shipped sector sizes, whatever formats a host selects, the ranges commands
\* accept lie inside the backend's memory and inside the bitmap init allocated.
THEOREM FormatsKeepBounds ==
    ASSUME ShippedSizes
    PROVE  Spec => []FormatKeepsBounds
<1>1. Init => BoundsInv
  BY BoundsInit
<1>2. BoundsInv /\ [Next]_vars => BoundsInv'
  BY BoundsStep
<1>3. BoundsInv => FormatKeepsBounds
  <2>1. BitmapBits \in Nat
    BY SectorsFit, BlockAssumption DEF BitmapBits
  <2> QED BY <2>1 DEF BoundsInv, FormatKeepsBounds
<1> QED
  BY <1>1, <1>2, <1>3, PTL DEF Spec
-----------------------------------------------------------------------------
(* The time of the black-box mode. *)

\* While a request is in hand, the LUNs it used are charged for nobody else, and its
\* longest latency is that of the last of them to be done.
WaitInv ==
    /\ next_lun_avail_time \in [Luns -> Nat]
    /\ cur \in [op : {"none", "read", "write", "dsm", "other"}, stime : Nat, pages : Nat,
                maxlat : Nat, luns : SUBSET Luns]
    /\ cur.pages = 0 => cur.luns = {}
    /\ \A l \in cur.luns : next_lun_avail_time[l] <= cur.stime + cur.maxlat
    /\ \/ cur.maxlat = 0
       \/ \E l \in cur.luns : next_lun_avail_time[l] = cur.stime + cur.maxlat

\* One LUN's time moves on, and not before the time of issue.
LEMMA LunAdvances ==
    ASSUME next_lun_avail_time \in [Luns -> Nat],
           NEW l \in Luns, NEW op \in NandOps, NEW stime \in Nat, ssd_advance_status(l, op, stime)
    PROVE  \E end \in Nat : /\ end >= stime /\ end >= next_lun_avail_time[l]
                            /\ next_lun_avail_time' = [next_lun_avail_time EXCEPT ![l] = end]
<1>1. init_nand_flash_timing[op] \in Nat
  BY NandAssumption DEF init_nand_flash_timing, NandOps
<1> DEFINE start == IF next_lun_avail_time[l] < stime THEN stime ELSE next_lun_avail_time[l]
           end   == start + (IF op \in slow THEN init_nand_flash_timing[op] ELSE 0)
<1>2. next_lun_avail_time[l] \in Nat
  OBVIOUS
<1>3. end \in Nat /\ end >= stime /\ end >= next_lun_avail_time[l]
  BY <1>1, <1>2
<1>4. next_lun_avail_time' = [next_lun_avail_time EXCEPT ![l] = end]
  BY DEF ssd_advance_status
<1> HIDE DEF end
<1> QED
  BY <1>3, <1>4

ModeOK == mode \in Modes

\* No request is being worked on at first.
LEMMA WaitInit == Init => WaitInv
  BY DEF Init, BbInit, WaitInv, Idle

\* What a step of the FTL thread or of a FLIP command does to LUNs and requests.
LEMMA WaitBbStep ==
    ASSUME WaitInv, BbNext
    PROVE  /\ WaitInv'
           /\ \A l \in Luns : next_lun_avail_time'[l] >= next_lun_avail_time[l]
           /\ cur' = Idle /\ cur.op \in {"read", "write"} => expire_time' = cur.stime + cur.maxlat
<1> DEFINE Kept == UNCHANGED <<next_lun_avail_time, cur>>
<1>1. ASSUME NEW op \in {"read", "write", "dsm", "other"}, NEW stime \in Times,
             FtlDequeue(op, stime)
      PROVE  /\ WaitInv' /\ UNCHANGED next_lun_avail_time /\ cur.op = "none"
  <2>1. stime \in Nat
    BY NandAssumption
  <2>2. /\ cur' = [op |-> op, stime |-> stime, pages |-> 0, maxlat |-> 0, luns |-> {}]
        /\ cur.op = "none" /\ UNCHANGED next_lun_avail_time
    BY <1>1 DEF FtlDequeue, Idle
  <2> QED BY <2>1, <2>2 DEF WaitInv
<1>2. ASSUME NEW l \in Luns, ChargePage(l)
      PROVE  /\ WaitInv' /\ cur' # Idle
             /\ \A m \in Luns : next_lun_avail_time'[m] >= next_lun_avail_time[m]
  <2>1. cur.stime \in Nat /\ cur.op \in NandOps
    BY <1>2 DEF WaitInv, ChargePage, NandOps
  <2>2. PICK end \in Nat :
            /\ end >= cur.stime /\ end >= next_lun_avail_time[l]
            /\ next_lun_avail_time' = [next_lun_avail_time EXCEPT ![l] = end]
    BY <1>2, <2>1, LunAdvances DEF ChargePage, WaitInv
  <2>3. next_lun_avail_time'[l] = end
    BY <2>2 DEF WaitInv
  <2>4. cur' = [cur EXCEPT !.pages = @ + 1, !.luns = @ \cup {l},
                           !.maxlat = IF end - cur.stime > @ THEN end - cur.stime ELSE @]
    BY <1>2, <2>3 DEF ChargePage
  <2>5. cur.maxlat \in Nat /\ cur.pages \in Nat /\ cur.luns \subseteq Luns
    BY DEF WaitInv
  <2> DEFINE lat2 == IF end - cur.stime > cur.maxlat THEN end - cur.stime ELSE cur.maxlat
  <2>6. lat2 \in Nat
    BY <2>1, <2>2, <2>5
  <2>7. cur' = [op |-> cur.op, stime |-> cur.stime, pages |-> cur.pages + 1, maxlat |-> lat2,
                luns |-> cur.luns \cup {l}]
    <3> HIDE DEF lat2
    <3>1. cur' = [cur EXCEPT !.pages = @ + 1, !.luns = @ \cup {l}, !.maxlat = lat2]
      BY <2>4 DEF lat2
    <3> QED BY <3>1 DEF WaitInv
  <2>8. /\ cur' \in [op : {"none", "read", "write", "dsm", "other"}, stime : Nat, pages : Nat,
                     maxlat : Nat, luns : SUBSET Luns]
        /\ cur'.pages # 0 /\ cur'.stime = cur.stime /\ cur'.luns = cur.luns \cup {l}
        /\ cur'.maxlat = IF end - cur.stime > cur.maxlat THEN end - cur.stime ELSE cur.maxlat
    <3> HIDE DEF lat2
    <3>1. cur.op \in {"none", "read", "write", "dsm", "other"} /\ cur.pages + 1 \in Nat \ {0}
      BY <2>5 DEF WaitInv
    <3> QED BY <2>1, <2>5, <2>7, <2>6, <3>1 DEF lat2
  <2>9. \A m \in Luns : next_lun_avail_time'[m] = IF m = l THEN end ELSE next_lun_avail_time[m]
    BY <2>2 DEF WaitInv
  <2>10. next_lun_avail_time' \in [Luns -> Nat]
    BY <2>2 DEF WaitInv
  <2>11. \A m \in cur'.luns : next_lun_avail_time'[m] <= cur'.stime + cur'.maxlat
    BY <2>1, <2>2, <2>8, <2>9 DEF WaitInv
  <2>12. \/ cur'.maxlat = 0
        \/ \E m \in cur'.luns : next_lun_avail_time'[m] = cur'.stime + cur'.maxlat
    BY <2>1, <2>2, <2>8, <2>9 DEF WaitInv
  <2>13. \A m \in Luns : next_lun_avail_time'[m] >= next_lun_avail_time[m]
    BY <2>2, <2>9 DEF WaitInv
  <2>14. cur' # Idle
    BY <2>8 DEF Idle
  <2>15. WaitInv'
    BY <2>8, <2>10, <2>11, <2>12 DEF WaitInv
  <2> QED BY <2>13, <2>14, <2>15
<1>3. ASSUME FtlDone
      PROVE  /\ WaitInv' /\ UNCHANGED next_lun_avail_time
             /\ cur.op \in {"read", "write"} => expire_time' = cur.stime + cur.maxlat
  <2>1. UNCHANGED next_lun_avail_time /\ cur' = Idle
    BY <1>3 DEF FtlDone
  <2>2. cur.op \in {"read", "write"} => expire_time' = cur.stime + cur.maxlat
    BY <1>3 DEF FtlDone, Completed
  <2>3. WaitInv'
    BY <2>1 DEF WaitInv, Idle
  <2> QED BY <2>1, <2>2, <2>3
<1>4. ASSUME NEW l \in Luns, NEW op \in NandOps, NEW clock \in Times, GcCommand(l, op, clock)
      PROVE  /\ WaitInv' /\ UNCHANGED cur
             /\ \A m \in Luns : next_lun_avail_time'[m] >= next_lun_avail_time[m]
  <2>1. clock \in Nat
    BY NandAssumption
  <2>2. PICK end \in Nat :
            /\ end >= next_lun_avail_time[l]
            /\ next_lun_avail_time' = [next_lun_avail_time EXCEPT ![l] = end]
    BY <1>4, <2>1, LunAdvances DEF GcCommand, WaitInv
  <2>3. UNCHANGED cur /\ cur.pages = 0 /\ cur.luns = {}
    BY <1>4 DEF GcCommand, Idle, WaitInv
  <2>4. cur.maxlat = 0
    BY <2>3 DEF WaitInv
  <2>5. \A m \in Luns : next_lun_avail_time'[m] >= next_lun_avail_time[m]
    BY <2>2 DEF WaitInv
  <2>6. next_lun_avail_time' \in [Luns -> Nat]
    BY <2>2 DEF WaitInv
  <2>7. WaitInv'
    BY <2>3, <2>4, <2>6 DEF WaitInv
  <2> QED BY <2>3, <2>5, <2>7
<1>5. ASSUME Kept
      PROVE  WaitInv'
  BY <1>5 DEF WaitInv
<1>6. cur \in {Idle} => cur.op = "none"
  BY DEF Idle
<1>7. \A l \in Luns : next_lun_avail_time[l] \in Nat
  BY DEF WaitInv
<1>8. CASE \/ \E on \in BOOLEAN : FlipGcDelay(on)
           \/ FlipDelayEmu \/ FlipAssign
  <2>1. Kept
    BY <1>8 DEF FlipGcDelay, FlipDelayEmu, FlipAssign
  <2> QED BY <1>5, <1>6, <1>7, <2>1
<1> HIDE DEF Kept
<1> QED
  BY <1>1, <1>2, <1>3, <1>4, <1>6, <1>7, <1>8 DEF BbNext

\* A step of whatever mode.
LEMMA WaitStep ==
    ASSUME WaitInv, [Next]_vars, ModeOK
    PROVE  /\ WaitInv'
           /\ \A l \in Luns : next_lun_avail_time'[l] >= next_lun_avail_time[l]
           /\ cur' = Idle /\ cur.op \in {"read", "write"} => expire_time' = cur.stime + cur.maxlat
<1>1. CASE UNCHANGED bbVars
  <2>1. WaitInv' /\ UNCHANGED <<next_lun_avail_time, cur>>
    BY <1>1 DEF WaitInv, bbVars
  <2>2. cur = Idle => cur.op = "none"
    BY DEF Idle
  <2>3. \A l \in Luns : next_lun_avail_time[l] \in Nat
    BY DEF WaitInv
  <2> QED BY <2>1, <2>2, <2>3
<1>2. mode \in {"ocssd12", "ocssd20", "nossd", "bbssd"}
  BY ModesAssumption DEF ModeOK
<1>3. UNCHANGED bbVars \/ BbNext
  BY <1>2 DEF vars, Next, nvme_register_extensions
<1> QED
  BY <1>1, <1>3, WaitBbStep

\* Whatever the shape of the drive, its latencies and the order in which issue times
\* arrive: a LUN's busy time never moves back, and a read or write the FTL thread returns
\* is completed when the last LUN it used is done.
THEOREM RequestsWaitForLuns == Spec => RequestWaitsForLuns
<1> DEFINE Waits ==
             /\ \A l \in Luns : next_lun_avail_time'[l] >= next_lun_avail_time[l]
             /\ cur' = Idle /\ cur.op \in {"read", "write"} =>
                  /\ \A l \in cur.luns : expire_time' >= next_lun_avail_time[l]
                  /\ expire_time' \in {cur.stime} \cup {next_lun_avail_time[l] : l \in cur.luns}
<1>1. Init => WaitInv /\ ModeOK
  BY WaitInit DEF Init, ModeOK
<1>2. WaitInv /\ ModeOK /\ [Next]_vars => WaitInv' /\ ModeOK'
  <2>1. [Next]_vars => UNCHANGED mode
    BY DEF Next, vars
  <2> QED BY <2>1, WaitStep DEF ModeOK
<1>3. WaitInv /\ ModeOK /\ [Next]_vars => [Waits]_<<bbVars, timingVars>>
  <2>1. SUFFICES ASSUME WaitInv, ModeOK, [Next]_vars,
                        cur' = Idle, cur.op \in {"read", "write"},
                        expire_time' = cur.stime + cur.maxlat
                 PROVE  /\ \A l \in cur.luns : expire_time' >= next_lun_avail_time[l]
                        /\ expire_time' \in {cur.stime} \cup
                                                {next_lun_avail_time[l] : l \in cur.luns}
    BY WaitStep
  <2>2. cur.stime \in Nat /\ cur.luns \subseteq Luns /\ cur.maxlat \in Nat
    BY <2>1 DEF WaitInv
  <2>3. \A l \in cur.luns : next_lun_avail_time[l] \in Nat
                            /\ next_lun_avail_time[l] <= cur.stime + cur.maxlat
    BY <2>1, <2>2 DEF WaitInv
  <2>4. \/ cur.stime + cur.maxlat = cur.stime
        \/ \E l \in cur.luns : next_lun_avail_time[l] = cur.stime + cur.maxlat
    BY <2>1, <2>2 DEF WaitInv
  <2> QED BY <2>1, <2>2, <2>3, <2>4
<1> QED
  BY <1>1, <1>2, <1>3, PTL DEF Spec, RequestWaitsForLuns
-----------------------------------------------------------------------------
(* The time of the open-channel modes. *)

Chips == 0 .. MaxChips - 1
ChipTimes == [Chips -> Nat]

\* What a walk over a list leaves, when it started from the chips' times avail.
Charged(avail, t) ==
    /\ t \in [avail : ChipTimes, expire : Nat]
    /\ \A l \in Chips : /\ t.avail[l] >= avail[l]
                        /\ t.avail[l] # avail[l] => t.expire >= t.avail[l]

\* Latencies are numbers.
LEMMA LatencyType ==
    ASSUME NEW unit, NEW op \in NandOps
    PROVE  get_latency(unit, op) \in Nat
  BY NandAssumption DEF get_latency, nand_flash_timing, init_nand_flash_timing, NandOps

\* One operation: the chip's time moves on.
LEMMA ChipAdvances ==
    ASSUME NEW avail \in ChipTimes, NEW l \in Chips, NEW now \in Nat, NEW op \in NandOps
    PROVE  /\ advance_chip_timestamp(avail, l, now, op) \in ChipTimes
           /\ advance_chip_timestamp(avail, l, now, op)[l] >= avail[l]
           /\ \A m \in Chips \ {l} : advance_chip_timestamp(avail, l, now, op)[m] = avail[m]
<1> DEFINE tau == get_latency("timing.o", op)
<1>1. tau \in Nat
  BY LatencyType
<1> HIDE DEF tau
<1>2. advance_chip_timestamp(avail, l, now, op) =
        [avail EXCEPT ![l] = (IF now < avail[l] THEN avail[l] ELSE now) + tau]
  BY DEF advance_chip_timestamp, tau
<1>3. avail \in [Chips -> Nat] /\ avail[l] \in Nat
  BY DEF ChipTimes
<1>4. /\ (IF now < avail[l] THEN avail[l] ELSE now) + tau \in Nat
      /\ (IF now < avail[l] THEN avail[l] ELSE now) + tau >= avail[l]
  BY <1>1, <1>3
<1> QED
  BY <1>2, <1>3, <1>4 DEF ChipTimes

\* The operations of a list, one after the other.
LEMMA ChargeChipsForward ==
    ASSUME NEW avail \in ChipTimes, NEW pages, NEW chips, Len(pages) \in Nat,
           \A k \in 1 .. Len(pages) : chips[k] \in Chips,
           NEW now \in Nat, NEW op \in NandOps
    PROVE  Charged(avail, ChargeChips(avail, pages, chips, now, op))
<1> DEFINE N == Len(pages)
           S == [avail : ChipTimes, expire : Nat]
           base == [avail |-> avail, expire |-> now]
           After(acc, k) == advance_chip_timestamp(acc.avail, chips[k], now, op)
           Step(acc, k) ==
               IF k \notin RunStarts(pages) THEN acc
               ELSE [avail  |-> After(acc, k),
                     expire |-> IF After(acc, k)[chips[k]] > acc.expire
                                THEN After(acc, k)[chips[k]] ELSE acc.expire]
           D(f) == [k \in 0 .. N |-> IF k = 0 THEN base ELSE Step(f[k - 1], k)]
<1>1. ASSUME NEW acc \in S, NEW k \in 1 .. N
      PROVE  /\ Step(acc, k) \in S
             /\ Charged(avail, acc) => Charged(avail, Step(acc, k))
  <2> DEFINE after == After(acc, k)
  <2>1. /\ chips[k] \in Chips /\ acc.avail \in ChipTimes /\ acc.expire \in Nat
        /\ acc = [avail |-> acc.avail, expire |-> acc.expire]
    OBVIOUS
  <2>2. /\ after \in ChipTimes /\ after[chips[k]] >= acc.avail[chips[k]]
        /\ \A m \in Chips \ {chips[k]} : after[m] = acc.avail[m]
    BY <2>1, ChipAdvances
  <2> HIDE DEF after
  <2> DEFINE e == IF after[chips[k]] > acc.expire THEN after[chips[k]] ELSE acc.expire
  <2>3. e \in Nat /\ e >= acc.expire /\ e >= after[chips[k]]
    BY <2>1, <2>2 DEF ChipTimes
  <2>4. Step(acc, k) = IF k \notin RunStarts(pages) THEN acc
                       ELSE [avail |-> after, expire |-> e]
    BY DEF after
  <2> HIDE DEF e, Step
  <2>5. [avail |-> after, expire |-> e] \in S
    BY <2>2, <2>3
  <2>6. ASSUME Charged(avail, acc)
        PROVE  Charged(avail, [avail |-> after, expire |-> e])
    <3>1. \A l \in Chips : /\ acc.avail[l] \in Nat /\ after[l] \in Nat /\ avail[l] \in Nat
                           /\ acc.avail[l] >= avail[l]
                           /\ acc.avail[l] # avail[l] => acc.expire >= acc.avail[l]
      BY <2>1, <2>2, <2>6 DEF Charged, ChipTimes
    <3>2. \A l \in Chips : /\ after[l] >= avail[l]
                           /\ after[l] # avail[l] => e >= after[l]
      BY <3>1, <2>1, <2>2, <2>3
    <3> QED BY <2>5, <3>2 DEF Charged
  <2> QED BY <2>4, <2>5, <2>6
<1>2. base \in S /\ Charged(avail, base)
  BY DEF Charged, ChipTimes
<1> HIDE DEF Step, base
<1> DEFINE F == [x \in S \X (1 .. N) |-> Step(x[1], x[2])]
<1>3. F \in StepFunctions(S, N)
  BY <1>1 DEF StepFunctions
<1>4. \A acc \in S, k \in 1 .. N : F[<<acc, k>>] = Step(acc, k)
  OBVIOUS
<1>5. PICK f : Runs(f, F, S, base, N)
  <2> HIDE DEF F, S, N
  <2>1. N \in Nat
    BY DEF N
  <2> QED BY <1>2, <1>3, <2>1, RecursionExists
<1>6. /\ f \in [0 .. N -> S] /\ f[0] = base
      /\ \A k \in 1 .. N : f[k] = F[<<f[k - 1], k>>]
  BY <1>5 DEF Runs
<1>7. \A k \in 1 .. N : f[k] = Step(f[k - 1], k) /\ f[k - 1] \in S
  <2> TAKE k \in 1 .. N
  <2>1. k - 1 \in 0 .. N
    OBVIOUS
  <2>2. f[k - 1] \in S
    BY <2>1, <1>6
  <2> QED BY <2>2, <1>4, <1>6
<1>8. f = D(f)
  <2>1. \A k \in 0 .. N : f[k] = IF k = 0 THEN base ELSE Step(f[k - 1], k)
    BY <1>6, <1>7
  <2> QED BY <2>1, <1>6
<1> DEFINE h == CHOOSE g : g = D(g)
<1>9. h = D(h)
  <2> HIDE DEF D
  <2> QED BY <1>8
<1>10. ChargeChips(avail, pages, chips, now, op) = h[N]
  BY DEF ChargeChips, Step, base, advance_channel_timestamp
<1>11. \A k \in Nat : k \in {m \in Nat : m <= N => h[m] \in S /\ Charged(avail, h[m])}
  <2> DEFINE T == {m \in Nat : m <= N => h[m] \in S /\ Charged(avail, h[m])}
  <2> HIDE DEF h
  <2>1. \A k \in 0 .. N : h[k] = IF k = 0 THEN base ELSE Step(h[k - 1], k)
    BY <1>9
  <2>2. 0 \in T
    BY <2>1, <1>2
  <2>3. ASSUME NEW m \in Nat, m \in T
        PROVE  m + 1 \in T
    <3> SUFFICES ASSUME m + 1 <= N PROVE h[m + 1] \in S /\ Charged(avail, h[m + 1])
      OBVIOUS
    <3>1. m + 1 \in 1 .. N /\ m + 1 # 0 /\ (m + 1) - 1 = m /\ m + 1 \in 0 .. N
      OBVIOUS
    <3>2. h[m + 1] = Step(h[m], m + 1)
      BY <2>1, <3>1
    <3>3. h[m] \in S /\ Charged(avail, h[m])
      BY <2>3, <3>1
    <3> QED BY <1>1, <3>1, <3>2, <3>3
  <2> HIDE DEF T
  <2>4. \A k \in Nat : k \in T
    BY <2>2, <2>3, NatSetInduction
  <2> QED BY <2>4 DEF T
<1> QED
  BY <1>10, <1>11

\* What the provers do not know of exponents; and the drive has no more chips than the
\* table of chips has room for.
DriveFits ==
    /\ \A n \in Nat : 2 ^ n > 0 /\ 2 ^ (n + 1) = 2 * 2 ^ n
    /\ NumCh * NumLun <= MaxChips

\* The powers of two.
LEMMA Powers ==
    ASSUME DriveFits
    PROVE  \A n \in Nat : 2 ^ n \in Nat \ {0} /\ 2 ^ (n + 1) = 2 * 2 ^ n
  BY DEF DriveFits

\* The power of a sum, by induction.
LEMMA PowerOfSum ==
    ASSUME DriveFits, NEW a \in Nat
    PROVE  \A b \in Nat : 2 ^ (a + b) = 2 ^ a * 2 ^ b
<1> DEFINE T == {b \in Nat : 2 ^ (a + b) = 2 ^ a * 2 ^ b}
<1>1. 0 \in T
  <2>1. a + 0 = a /\ 2 ^ 0 = 1 /\ 2 ^ a \in Nat
    BY Powers
  <2> QED BY <2>1
<1>2. ASSUME NEW b \in Nat, b \in T
      PROVE  b + 1 \in T
  <2>1. 2 ^ ((a + b) + 1) = 2 * 2 ^ (a + b) /\ 2 ^ (b + 1) = 2 * 2 ^ b
    BY Powers
  <2>2. (a + b) + 1 = a + (b + 1)
    OBVIOUS
  <2>3. 2 ^ a \in Nat /\ 2 ^ b \in Nat
    BY Powers
  <2>4. \A x, y \in Nat : 2 * (x * y) = x * (2 * y)
    OBVIOUS
  <2>5. 2 ^ (a + (b + 1)) = 2 ^ a * 2 ^ (b + 1)
    BY <1>2, <2>1, <2>2, <2>3, <2>4
  <2> QED BY <2>5
<1> HIDE DEF T
<1>3. \A b \in Nat : b \in T
  BY <1>1, <1>2, NatSetInduction
<1> QED
  BY <1>3 DEF T

\* bit_len finds enough bits.
LEMMA BitLen ==
    ASSUME DriveFits, NEW n \in Nat \ {0}
    PROVE  bit_len(n) \in Nat /\ 2 ^ bit_len(n) >= n
<1> DEFINE T == {b \in Nat : 2 ^ b >= b}
           Enough == {b \in Nat : 2 ^ b >= n}
<1>1. 0 \in T
  OBVIOUS
<1>2. ASSUME NEW b \in Nat, b \in T
      PROVE  b + 1 \in T
  <2>1. 2 ^ (b + 1) = 2 * 2 ^ b /\ 2 ^ b \in Nat \ {0}
    BY Powers
  <2> QED BY <1>2, <2>1
<1>3. \A b \in Nat : b \in T
  <2> HIDE DEF T
  <2> QED BY <1>1, <1>2, NatSetInduction
<1>4. n \in Enough
  BY <1>3
<1>5. PICK b \in Enough : \A c \in Enough : b <= c
  <2>1. Enough \subseteq Nat
    OBVIOUS
  <2> HIDE DEF Enough
  <2> QED BY <1>4, <2>1, LeastNat
<1>6. b \in 0 .. n /\ 2 ^ b >= n
  BY <1>4, <1>5
<1>7. b = 0 \/ 2 ^ (b - 1) < n
  <2> SUFFICES ASSUME b # 0 PROVE 2 ^ (b - 1) < n
    OBVIOUS
  <2>1. b - 1 \in Nat /\ ~(b <= b - 1)
    BY <1>6
  <2>2. b - 1 \notin Enough
    BY <1>5, <2>1
  <2>3. 2 ^ (b - 1) \in Nat
    BY <2>1, Powers
  <2> QED BY <2>1, <2>2, <2>3
<1>8. \E c \in 0 .. n : 2 ^ c >= n /\ (c = 0 \/ 2 ^ (c - 1) < n)
  BY <1>6, <1>7
<1>9. bit_len(n) \in 0 .. n /\ 2 ^ bit_len(n) >= n
  BY <1>8 DEF bit_len
<1> QED
  BY <1>9

\* The chips the addresses of both open-channel modes name are chips of the drive.
LEMMA LunInRange ==
    ASSUME DriveFits, NEW c \in 0 .. NumCh - 1, NEW l \in 0 .. NumLun - 1
    PROVE  c * NumLun + l \in Chips
<1>1. NumCh \in Nat /\ NumLun \in Nat /\ MaxChips \in Nat /\ NumCh * NumLun <= MaxChips
  BY NandAssumption DEF DriveFits
<1>2. \A x, y, m, n \in Nat : x < m /\ y < n => x * n + y \in Nat /\ x * n + y < m * n
  OBVIOUS
<1>3. c * NumLun + l \in Nat /\ c * NumLun + l < NumCh * NumLun
  BY <1>1, <1>2
<1>4. NumCh * NumLun \in Nat
  BY <1>1
<1> QED
  BY <1>1, <1>3, <1>4 DEF Chips

\* A bit field of an address is less than what it is cut to.
LEMMA Field ==
    ASSUME DriveFits, NEW x \in Nat, NEW k \in Nat, NEW n \in Nat \ {0}
    PROVE  /\ x \div 2 ^ k \in Nat
           /\ (x \div 2 ^ k) % n \in 0 .. n - 1
<1>1. 2 ^ k \in Nat \ {0}
  BY Powers
<1>2. x \div 2 ^ k \in Nat
  BY <1>1
<1> QED
  BY <1>2

\* An address names a chip of the drive, open-channel 1.2.
LEMMA Oc12Lun ==
    ASSUME DriveFits, NEW ppa \in Nat
    PROVE  oc12_lunid(ppa) \in Chips
<1>1. NumCh \in Nat \ {0} /\ NumLun \in Nat \ {0} /\ NumPln \in Nat \ {0}
      /\ SecsPerPg \in Nat \ {0} /\ PgsPerBlk \in Nat \ {0}
  BY NandAssumption
<1>2. num_blk \in Nat \ {0}
  <2>1. NsBlks \in Nat /\ SecsPerPg * PgsPerBlk * NumCh \in Nat \ {0}
        /\ NumLun * NumPln \in Nat \ {0}
    BY <1>1, BackendAssumption
  <2> QED BY <2>1, Oc12Assumption DEF num_blk
<1>3. oc12_lun_offset \in Nat /\ ch_offset \in Nat
  BY <1>1, <1>2, BitLen DEF ch_offset, oc12_lun_offset, blk_offset, pg_offset, pln_offset
<1>4. 2 ^ bit_len(NumCh) = NumCh /\ 2 ^ bit_len(NumLun) = NumLun
  BY Oc12Assumption
<1>5. PPA_CH(ppa) \in 0 .. NumCh - 1 /\ PPA_LUN(ppa) \in 0 .. NumLun - 1
  BY <1>1, <1>3, <1>4, Field DEF PPA_CH, PPA_LUN
<1> QED
  BY <1>5, LunInRange DEF oc12_lunid

-----------------------------------------------------------------------------
(* The addresses and the runs of open-channel 2.0. *)

\* The sizes and offsets that follow from the parameters are numbers.
LEMMA Oc20Shape ==
    ASSUME DriveFits
    PROVE  /\ num_grp \in Nat \ {0} /\ num_lun \in Nat \ {0} /\ num_chk \in Nat \ {0}
           /\ clba \in Nat \ {0} /\ chks_per_grp \in Nat \ {0} /\ chks_total \in Nat \ {0}
           /\ chk_offset \in Nat /\ lun_offset \in Nat /\ grp_offset \in Nat
           /\ 2 ^ bit_len(num_lun) = num_lun /\ 2 ^ bit_len(num_grp) = num_grp
           /\ chks_total = num_grp * chks_per_grp
<1>1. /\ NumCh \in Nat \ {0} /\ NumLun \in Nat \ {0} /\ NumPln \in Nat \ {0}
      /\ SecsPerPg \in Nat \ {0} /\ PgsPerBlk \in Nat \ {0}
  BY NandAssumption
<1>2. num_grp \in Nat \ {0} /\ num_lun \in Nat \ {0} /\ clba \in Nat \ {0}
  BY <1>1 DEF num_grp, num_lun, clba
<1>3. num_chk \in Nat \ {0}
  <2>1. NsBlks \in Nat /\ SecsPerPg * PgsPerBlk * NumCh * NumLun * NumPln \in Nat \ {0}
    BY <1>1, BackendAssumption
  <2> QED BY <2>1, Oc20Assumption DEF num_chk
<1>4. chks_per_grp \in Nat \ {0}
  BY <1>2, <1>3 DEF chks_per_grp
<1>5. chks_total \in Nat \ {0} /\ chks_total = num_grp * chks_per_grp
  BY <1>2, <1>4 DEF chks_total
<1>6. chk_offset \in Nat /\ lun_offset \in Nat /\ grp_offset \in Nat
  BY <1>2, <1>3, BitLen DEF chk_offset, lun_offset, grp_offset
<1>7. 2 ^ bit_len(num_lun) = num_lun /\ 2 ^ bit_len(num_grp) = num_grp
  BY Oc12Assumption DEF num_lun, num_grp
<1> QED
  BY <1>2, <1>3, <1>4, <1>5, <1>6, <1>7

\* The fields of an address, and the index of its chunk.
LEMMA Fields ==
    ASSUME DriveFits, NEW lba \in Nat
    PROVE  /\ GET_SECTR(lba) \in Nat /\ GET_CHUNK(lba) \in Nat /\ GET_GROUP(lba) \in Nat
           /\ GET_PUNIT(lba) \in 0 .. num_lun - 1
           /\ oc20_lba_to_chunk_index(lba) \in Nat
           /\ oc20_lba_to_chunk_index(lba) >= GET_GROUP(lba) * chks_per_grp
<1>1. GET_SECTR(lba) \in Nat
  <2>1. 2 ^ chk_offset \in Nat \ {0}
    BY Oc20Shape, Powers
  <2> QED BY <2>1 DEF GET_SECTR
<1>2. GET_CHUNK(lba) \in Nat
  <2>1. bit_len(num_chk) \in Nat
    BY Oc20Shape, BitLen
  <2>2. 2 ^ bit_len(num_chk) \in Nat \ {0}
    BY <2>1, Powers
  <2>3. (lba \div 2 ^ chk_offset) % 2 ^ bit_len(num_chk) \in 0 .. 2 ^ bit_len(num_chk) - 1
    BY <2>2, Oc20Shape, Field
  <2> QED BY <2>2, <2>3 DEF GET_CHUNK
<1>3. GET_PUNIT(lba) \in 0 .. num_lun - 1
  BY Oc20Shape, Field DEF GET_PUNIT
<1>4. GET_GROUP(lba) \in Nat
  BY Oc20Shape, Field DEF GET_GROUP
<1>5. \A c, p, g, m, k \in Nat :
         c + p * m + g * k \in Nat /\ c + p * m + g * k >= g * k
  OBVIOUS
<1>6. GET_PUNIT(lba) \in Nat /\ num_chk \in Nat /\ chks_per_grp \in Nat
  BY <1>3, Oc20Shape
<1> QED
  BY <1>1, <1>2, <1>3, <1>4, <1>5, <1>6 DEF oc20_lba_to_chunk_index

\* A valid address lies in a chunk of the drive.
LEMMA ValidChunk ==
    ASSUME DriveFits, NEW lba \in Nat, oc20_lba_valid(lba)
    PROVE  oc20_lba_to_chunk_index(lba) \in Chunks
<1>1. \A c, p, g, m, u, k, t \in Nat :
         c < m /\ p < u /\ g < t /\ k = m * u => c + p * m + g * k < t * k
  <2> SUFFICES ASSUME NEW c \in Nat, NEW p \in Nat, NEW g \in Nat, NEW m \in Nat, NEW u \in Nat,
                      NEW t \in Nat, c < m, p < u, g < t
               PROVE  c + p * m + g * (m * u) < t * (m * u)
    OBVIOUS
  <2>1. c + p * m < m * u
    <3>1. p * m + m <= u * m
      <4>1. (p + 1) * m <= u * m
        OBVIOUS
      <4> QED BY <4>1
    <3> QED BY <3>1
  <2>2. g * (m * u) + (m * u) <= t * (m * u)
    <3>1. m * u \in Nat
      OBVIOUS
    <3>2. \A x \in Nat : g * x + x <= t * x
      <4> TAKE x \in Nat
      <4>1. (g + 1) * x <= t * x
        OBVIOUS
      <4> QED BY <4>1
    <3> QED BY <3>1, <3>2
  <2>3. m * u \in Nat /\ p * m \in Nat /\ g * (m * u) \in Nat /\ t * (m * u) \in Nat
    OBVIOUS
  <2> QED BY <2>1, <2>2, <2>3
<1>2. /\ GET_CHUNK(lba) < num_chk /\ GET_PUNIT(lba) < num_lun /\ GET_GROUP(lba) < num_grp
  BY DEF oc20_lba_valid
<1>3. /\ GET_CHUNK(lba) \in Nat /\ GET_PUNIT(lba) \in Nat /\ GET_GROUP(lba) \in Nat
      /\ num_chk \in Nat /\ num_lun \in Nat /\ num_grp \in Nat /\ chks_per_grp \in Nat
  BY Fields, Oc20Shape
<1>4. oc20_lba_to_chunk_index(lba) < num_grp * chks_per_grp
  BY <1>1, <1>2, <1>3 DEF oc20_lba_to_chunk_index, chks_per_grp
<1> QED
  BY <1>4, Oc20Shape, Fields DEF Chunks

\* An address whose chunk is one of the drive's names a chip of the drive; so does one
\* below the namespace's size.
LEMMA Oc20Lun ==
    ASSUME DriveFits, NEW lba \in Nat,
           oc20_lba_to_chunk_index(lba) \in Chunks \/ lba < oc20_nsze
    PROVE  oc20_lunid(lba) \in Chips
<1>1. /\ GET_GROUP(lba) \in Nat /\ num_grp \in Nat /\ chks_per_grp \in Nat \ {0}
      /\ GET_PUNIT(lba) \in 0 .. NumLun - 1 /\ grp_offset \in Nat
  BY Fields, Oc20Shape DEF num_lun
<1>2. GET_GROUP(lba) < NumCh
  <2>1. CASE oc20_lba_to_chunk_index(lba) \in Chunks
    <3>1. GET_GROUP(lba) * chks_per_grp < num_grp * chks_per_grp
      <4>1. /\ oc20_lba_to_chunk_index(lba) < num_grp * chks_per_grp
            /\ oc20_lba_to_chunk_index(lba) \in Nat
        BY <2>1, Fields, Oc20Shape DEF Chunks
      <4>2. GET_GROUP(lba) * chks_per_grp \in Nat /\ num_grp * chks_per_grp \in Nat
        BY <1>1
      <4> QED BY <4>1, <4>2, Fields
    <3>2. \A g, m, k \in Nat : g * k < m * k => g < m
      <4> SUFFICES ASSUME NEW g \in Nat, NEW m \in Nat, NEW k \in Nat, m <= g
                   PROVE  m * k <= g * k
        OBVIOUS
      <4> QED OBVIOUS
    <3> QED BY <1>1, <3>1, <3>2 DEF num_grp
  <2>2. CASE lba < oc20_nsze
    <3>1. oc20_nsze = 2 ^ grp_offset * num_grp
      BY Oc20Shape, BitLen, PowerOfSum DEF oc20_nsze
    <3>2. \A x, b \in Nat, y \in Nat \ {0} : x < y * b => (x \div y) < b
      OBVIOUS
    <3>3. 2 ^ grp_offset \in Nat \ {0}
      BY <1>1, Powers
    <3> QED BY <1>1, <2>2, <3>1, <3>2, <3>3 DEF GET_GROUP, num_grp
  <2> QED BY <2>1, <2>2
<1>3. NumCh \in Nat
  BY NandAssumption
<1>4. GET_GROUP(lba) \in 0 .. NumCh - 1
  BY <1>1, <1>2, <1>3
<1> QED
  BY <1>1, <1>4, LunInRange DEF oc20_lunid, num_lun

\* What is used of a list of addresses.
List(lbas) ==
    /\ Len(lbas) \in Nat \ {0} /\ DOMAIN lbas = 1 .. Len(lbas)
    /\ \A k \in 1 .. Len(lbas) : lbas[k] \in Nat

\* Hosts send lists.
LEMMA VectorIsList ==
    ASSUME NEW lbas \in Vectors
    PROVE  List(lbas)
<1>1. lbas \in Seq(Nat) /\ lbas # <<>>
  BY Oc20Assumption
<1> QED
  BY <1>1 DEF List

\* Where the runs of a list start.
Starts(lbas) == RunStarts([k \in DOMAIN lbas |-> oc20_lba_to_chunk_index(lbas[k])])

\* The first address starts a run, and one that does not is in the chunk before it.
LEMMA StartsAre ==
    ASSUME NEW lbas, List(lbas)
    PROVE  /\ Starts(lbas) \subseteq 1 .. Len(lbas) /\ 1 \in Starts(lbas)
           /\ \A k \in 2 .. Len(lbas) :
                 k \notin Starts(lbas) => oc20_lba_to_chunk_index(lbas[k])
                                            = oc20_lba_to_chunk_index(lbas[k - 1])
           /\ \A k \in 2 .. Len(lbas) :
                 k \in Starts(lbas) => oc20_lba_to_chunk_index(lbas[k])
                                         # oc20_lba_to_chunk_index(lbas[k - 1])
<1> DEFINE idx == [k \in DOMAIN lbas |-> oc20_lba_to_chunk_index(lbas[k])]
<1>1. DOMAIN idx = 1 .. Len(lbas) /\ Len(lbas) \in Nat \ {0}
  BY DEF List
<1>2. \A k \in 1 .. Len(lbas) : idx[k] = oc20_lba_to_chunk_index(lbas[k])
  BY <1>1
<1>3. Starts(lbas) = {i \in DOMAIN idx : i = 1 \/ idx[i] # idx[i - 1]}
  BY DEF Starts, RunStarts
<1> HIDE DEF idx
<1>4. \A k \in 2 .. Len(lbas) : k \in 1 .. Len(lbas) /\ k - 1 \in 1 .. Len(lbas) /\ k # 1
  BY <1>1
<1> QED
  BY <1>1, <1>2, <1>3, <1>4

\* The sector of every element belongs to the chunk its run starts in.
LEMMA RunStartOf ==
    ASSUME NEW lbas, List(lbas)
    PROVE  \A k \in 1 .. Len(lbas) : \E i \in Starts(lbas) :
              /\ i <= k /\ Starts(lbas) \cap (i + 1 .. k) = {}
              /\ oc20_lba_to_chunk_index(lbas[k]) = oc20_lba_to_chunk_index(lbas[i])
<1> DEFINE Found(k, i) == /\ i <= k /\ Starts(lbas) \cap (i + 1 .. k) = {}
                          /\ oc20_lba_to_chunk_index(lbas[k]) = oc20_lba_to_chunk_index(lbas[i])
           T == {k \in Nat : k \in 1 .. Len(lbas) => \E i \in Starts(lbas) : Found(k, i)}
<1>1. Len(lbas) \in Nat /\ Starts(lbas) \subseteq 1 .. Len(lbas) /\ 1 \in Starts(lbas)
  BY StartsAre DEF List
<1>2. 0 \in T
  OBVIOUS
<1>3. ASSUME NEW k \in Nat, k \in T
      PROVE  k + 1 \in T
  <2> SUFFICES ASSUME k + 1 \in 1 .. Len(lbas)
               PROVE  \E i \in Starts(lbas) : Found(k + 1, i)
    OBVIOUS
  <2>1. CASE k + 1 \in Starts(lbas)
    <3>1. Found(k + 1, k + 1)
      <4>1. (k + 1) + 1 .. k + 1 = {}
        OBVIOUS
      <4> QED BY <4>1
    <3> QED BY <2>1, <3>1
  <2>2. CASE k + 1 \notin Starts(lbas)
    <3>1. k \in 1 .. Len(lbas) /\ k + 1 \in 2 .. Len(lbas) /\ (k + 1) - 1 = k
      <4>1. k + 1 # 1
        BY <2>2, <1>1
      <4> QED BY <4>1, <1>1
    <3>2. PICK i \in Starts(lbas) : Found(k, i)
      BY <1>3, <3>1
    <3>3. oc20_lba_to_chunk_index(lbas[k + 1]) = oc20_lba_to_chunk_index(lbas[k])
      BY <2>2, <3>1, StartsAre
    <3>4. Starts(lbas) \cap (i + 1 .. k + 1) = {}
      BY <1>1, <2>2, <3>2
    <3> QED BY <1>1, <3>2, <3>3, <3>4
  <2> QED BY <2>1, <2>2
<1> HIDE DEF T, Found
<1>4. \A k \in Nat : k \in T
  BY <1>2, <1>3, NatSetInduction
<1> QED
  BY <1>1, <1>4 DEF T, Found

\* A run ends where the next one starts, or with the list.
LEMMA RunEndOf ==
    ASSUME NEW lbas, List(lbas), NEW k \in 1 .. Len(lbas), NEW i \in Starts(lbas),
           i <= k, Starts(lbas) \cap (i + 1 .. k) = {}
    PROVE  \E j \in k .. Len(lbas) : <<i, j>> \in ChunkRuns(lbas)
<1>1. /\ Len(lbas) \in Nat /\ Starts(lbas) \subseteq 1 .. Len(lbas)
      /\ DOMAIN lbas = 1 .. Len(lbas)
  BY StartsAre DEF List
<1> DEFINE Ends == {j \in k .. Len(lbas) : j = Len(lbas) \/ j + 1 \in Starts(lbas)}
<1>2. PICK j \in Ends : \A e \in Ends : j <= e
  <2>1. Ends \subseteq Nat /\ Len(lbas) \in Ends
    BY <1>1
  <2> HIDE DEF Ends
  <2> QED BY <2>1, LeastNat
<1>3. /\ j \in k .. Len(lbas)
      /\ j = Len(lbas) \/ j + 1 \in Starts(lbas)
  BY <1>2
<1>4. i \in 1 .. Len(lbas)
  BY <1>1
<1> HIDE DEF Ends
<1>5. i \in Nat /\ k \in Nat /\ j \in Nat /\ k <= j /\ j <= Len(lbas) /\ 1 <= k
  <2>1. Len(lbas) \in Int
    BY <1>1
  <2>2. k \in Int /\ 1 <= k
    BY <2>1
  <2>3. j \in Int /\ k <= j /\ j <= Len(lbas)
    BY <1>3, <2>1, <2>2
  <2>4. i \in Nat
    BY <1>4, <2>1
  <2> QED BY <2>2, <2>3, <2>4
<1>6. Starts(lbas) \cap (i + 1 .. j) = {}
  <2> SUFFICES ASSUME NEW x \in Starts(lbas), x \in i + 1 .. j PROVE FALSE
    OBVIOUS
  <2>1. x \in Nat /\ i + 1 <= x /\ x <= j
    BY <1>1, <1>5
  <2>2. x > k
    <3>1. x \notin i + 1 .. k
      OBVIOUS
    <3> QED BY <1>5, <2>1, <3>1
  <2>3. x - 1 \in k .. Len(lbas) /\ (x - 1) + 1 = x /\ ~(j <= x - 1)
    BY <1>1, <1>5, <2>1, <2>2
  <2>4. x - 1 \in Ends
    BY <2>3 DEF Ends
  <2> QED BY <1>2, <2>3, <2>4
<1>7. <<i, j>> \in Starts(lbas) \X DOMAIN lbas
  BY <1>1, <1>5
<1>8. i <= j
  BY <1>5
<1>9. <<i, j>> \in ChunkRuns(lbas)
  BY <1>3, <1>6, <1>7, <1>8 DEF ChunkRuns, Starts
<1> QED
  BY <1>3, <1>9

\* A list passes when each of its runs does.
LEMMA AllRunsPass ==
    ASSUME NEW lbas, List(lbas), oc20_rw_check_write_req(lbas) = "SUCCESS"
    PROVE  \A run \in ChunkRuns(lbas) :
              /\ InOrder(lbas, run)
              /\ oc20_rw_check_chunk_write(lbas[run[1]], run[2] - run[1] + 1) = "SUCCESS"
<1> DEFINE res(run) == IF ~InOrder(lbas, run) THEN "OUT_OF_ORDER_WRITE"
                       ELSE oc20_rw_check_chunk_write(lbas[run[1]], run[2] - run[1] + 1)
           bad == {run \in ChunkRuns(lbas) : res(run) # "SUCCESS"}
           first == CHOOSE run \in bad : \A other \in bad : run[1] <= other[1]
<1>1. bad = {}
  <2> SUFFICES ASSUME bad # {} PROVE FALSE
    OBVIOUS
  <2>1. {run[1] : run \in bad} \subseteq Nat
    <3>1. \A run \in bad : run[1] \in Starts(lbas)
      BY DEF ChunkRuns, Starts
    <3> QED BY <3>1, StartsAre
  <2>2. PICK x \in {run[1] : run \in bad} : \A y \in {run[1] : run \in bad} : x <= y
    <3> DEFINE R == {run[1] : run \in bad}
    <3>1. R \subseteq Nat /\ R # {}
      BY <2>1
    <3> HIDE DEF R
    <3>2. \E x \in R : \A y \in R : x <= y
      BY <3>1, LeastNat
    <3> QED BY <3>2 DEF R
  <2>3. \E run \in bad : \A other \in bad : run[1] <= other[1]
    BY <2>2
  <2>4. first \in bad
    BY <2>3
  <2>5. oc20_rw_check_write_req(lbas) = res(first)
    BY DEF oc20_rw_check_write_req
  <2> HIDE DEF first, res
  <2> QED BY <2>4, <2>5
<1> QED
  BY <1>1

\* Every sector of a list that passes lies in a chunk of the drive.
LEMMA WrittenChunks ==
    ASSUME DriveFits, NEW lbas, List(lbas), oc20_rw_check_write_req(lbas) = "SUCCESS",
           NEW k \in 1 .. Len(lbas)
    PROVE  oc20_lba_to_chunk_index(lbas[k]) \in Chunks
<1>1. PICK i \in Starts(lbas) :
          /\ i <= k /\ Starts(lbas) \cap (i + 1 .. k) = {}
          /\ oc20_lba_to_chunk_index(lbas[k]) = oc20_lba_to_chunk_index(lbas[i])
  BY RunStartOf
<1>2. PICK j \in k .. Len(lbas) : <<i, j>> \in ChunkRuns(lbas)
  BY <1>1, RunEndOf
<1>3. oc20_rw_check_chunk_write(lbas[i], j - i + 1) = "SUCCESS"
  BY <1>2, AllRunsPass
<1>4. oc20_lba_valid(lbas[i])
  BY <1>3 DEF oc20_rw_check_chunk_write
<1>5. lbas[i] \in Nat
  BY StartsAre DEF List
<1> QED
  BY <1>1, <1>4, <1>5, ValidChunk

-----------------------------------------------------------------------------
(* Chips do not rewind. *)

\* What an action does to the chips: nothing, or what a walk over a list does.
ChipsMove ==
    /\ chip_next_avail_time' \in ChipTimes
    /\ \/ UNCHANGED chip_next_avail_time
       \/ Charged(chip_next_avail_time, [avail |-> chip_next_avail_time', expire |-> expire_time'])

\* A walk over a list of addresses whose chips exist.
LEMMA WalkMoves ==
    ASSUME chip_next_avail_time \in ChipTimes, NEW n \in Nat,
           NEW pages, NEW chips, Len(pages) = n, \A k \in 1 .. n : chips[k] \in Chips,
           NEW now \in Times, NEW op \in NandOps,
           chip_next_avail_time' = ChargeChips(chip_next_avail_time, pages, chips, now, op).avail,
           expire_time' = ChargeChips(chip_next_avail_time, pages, chips, now, op).expire
    PROVE  ChipsMove
<1> DEFINE t == ChargeChips(chip_next_avail_time, pages, chips, now, op)
<1>1. now \in Nat
  BY NandAssumption
<1>2. Charged(chip_next_avail_time, t)
  BY <1>1, ChargeChipsForward
<1>3. chip_next_avail_time' = t.avail /\ expire_time' = t.expire
  OBVIOUS
<1> HIDE DEF t
<1>4. t \in [avail : ChipTimes, expire : Nat]
  BY <1>2 DEF Charged
<1>5. t = [avail |-> chip_next_avail_time', expire |-> expire_time'] /\ t.avail \in ChipTimes
  BY <1>3, <1>4
<1> QED
  BY <1>2, <1>3, <1>5 DEF ChipsMove

\* No command of open-channel 1.2 moves a chip back.
LEMMA Oc12Chips ==
    ASSUME DriveFits, chip_next_avail_time \in ChipTimes, Oc12Next
    PROVE  ChipsMove
<1>1. ASSUME NEW psl \in PpaLists, NEW now \in Times, NEW op \in NandOps,
             chip_next_avail_time' = oc12_advance_status(psl, now, op).avail,
             expire_time' = oc12_advance_status(psl, now, op).expire
      PROVE  ChipsMove
  <2>1. psl \in Seq(Nat)
    BY Oc12Assumption
  <2> DEFINE n == Len(psl)
             list == SectorOffsets(psl)
             pages == [k \in DOMAIN list |-> list[k] \div 2 ^ pg_offset]
             chips == [k \in DOMAIN list |-> oc12_lunid(list[k])]
  <2>2. n \in Nat /\ DOMAIN psl = 1 .. n /\ \A k \in 1 .. n : psl[k] \in Nat
    BY <2>1
  <2> HIDE DEF n
  <2>3. DOMAIN list = 1 .. n /\ \A k \in 1 .. n : list[k] \in Nat
    BY <2>2 DEF SectorOffsets, PageSize
  <2>4. oc12_advance_status(psl, now, op) =
          ChargeChips(chip_next_avail_time, pages, chips, now, op)
    BY DEF oc12_advance_status
  <2> HIDE DEF list
  <2>5. Len(pages) = n
    BY <2>2, <2>3
  <2>6. \A k \in 1 .. n : chips[k] \in Chips
    BY <2>3, Oc12Lun
  <2> HIDE DEF pages, chips
  <2> QED BY <1>1, <2>2, <2>4, <2>5, <2>6, WalkMoves
<1>2. ASSUME UNCHANGED chip_next_avail_time
      PROVE  ChipsMove
  BY <1>2 DEF ChipsMove
<1>3. Sendable \cup Refusable \subseteq PpaLists /\ {"read", "write", "erase"} = NandOps
  BY DEF Sendable, Refusable, NandOps
<1>4. ASSUME NEW psl \in Sendable \cup Refusable, NEW now \in Times, NEW v \in Vals,
             NEW oob \in Oobs \cup {"none"}, NEW prp_ok \in BOOLEAN,
             oc12_write(psl, now, v, oob, prp_ok)
      PROVE  ChipsMove
  <2>1. \/ UNCHANGED chip_next_avail_time
        \/ /\ chip_next_avail_time' = oc12_advance_status(psl, now, "write").avail
           /\ expire_time' = oc12_advance_status(psl, now, "write").expire
    BY <1>4 DEF oc12_write, oc12_refused, Completed
  <2> QED BY <2>1, <1>1, <1>2, <1>3
<1>5. ASSUME NEW psl \in Sendable \cup Refusable, NEW now \in Times, NEW prp_ok \in BOOLEAN,
             oc12_read(psl, now, prp_ok)
      PROVE  ChipsMove
  <2>1. \/ UNCHANGED chip_next_avail_time
        \/ /\ chip_next_avail_time' = oc12_advance_status(psl, now, "read").avail
           /\ expire_time' = oc12_advance_status(psl, now, "read").expire
    BY <1>5 DEF oc12_read, oc12_refused, Completed
  <2> QED BY <2>1, <1>1, <1>2, <1>3
<1>6. ASSUME NEW now \in Times, oc12_erase_async(now)
      PROVE  ChipsMove
  <2>1. PICK ch \in 0 .. NumCh - 1, lun \in 0 .. NumLun - 1 :
            /\ chip_next_avail_time' = advance_chip_timestamp(chip_next_avail_time,
                                          ch * NumCh + lun, now, "erase")
            /\ expire_time' = advance_chip_timestamp(chip_next_avail_time,
                                 ch * NumCh + lun, now, "erase")[ch * NumCh + lun]
    BY <1>6 DEF oc12_erase_async, Completed
  <2> DEFINE l == ch * NumCh + lun
  <2>2. l \in Chips
    <3>1. /\ NumCh \in Nat /\ NumLun \in Nat /\ MaxChips \in Nat
          /\ ch * NumCh + lun < MaxChips
      BY NandAssumption, Oc12Assumption
    <3> QED BY <3>1 DEF Chips
  <2> DEFINE after == advance_chip_timestamp(chip_next_avail_time, l, now, "erase")
  <2>3. now \in Nat /\ "erase" \in NandOps
    BY <1>3, NandAssumption
  <2>4. /\ after \in ChipTimes /\ after[l] >= chip_next_avail_time[l]
        /\ \A m \in Chips \ {l} : after[m] = chip_next_avail_time[m]
    <3> HIDE DEF l
    <3> QED BY <2>2, <2>3, ChipAdvances
  <2>5. chip_next_avail_time' = after /\ expire_time' = after[l]
    BY <2>1
  <2> HIDE DEF after, l
  <2>6. \A m \in Chips : after[m] \in Nat /\ chip_next_avail_time[m] \in Nat
    BY <2>4 DEF ChipTimes
  <2>7. Charged(chip_next_avail_time, [avail |-> after, expire |-> after[l]])
    BY <2>2, <2>4, <2>6 DEF Charged
  <2> QED BY <2>4, <2>5, <2>7 DEF ChipsMove
<1>7. ASSUME NEW psl \in Sendable, NEW value \in BbtValues, NEW prp_ok \in BOOLEAN,
             oc12_bbt_set(psl, value, prp_ok)
      PROVE  ChipsMove
  BY <1>2, <1>7 DEF oc12_bbt_set, oc12_refused
<1> QED
  BY <1>4, <1>5, <1>6, <1>7 DEF Oc12Next

\* No command of open-channel 2.0 moves a chip back.
LEMMA Oc20Chips ==
    ASSUME DriveFits, chip_next_avail_time \in ChipTimes, Oc20Next
    PROVE  ChipsMove
<1>1. ASSUME NEW lbas \in Vectors, NEW now \in Times, NEW op \in NandOps,
             \A k \in 1 .. Len(lbas) : oc20_lunid(lbas[k]) \in Chips,
             chip_next_avail_time' = oc20_advance_status(lbas, now, op).avail,
             expire_time' = oc20_advance_status(lbas, now, op).expire
      PROVE  ChipsMove
  <2> DEFINE n == Len(lbas)
             pages == [k \in DOMAIN lbas |-> lbas[k] \div 2 ^ chk_offset]
             chips == [k \in DOMAIN lbas |-> oc20_lunid(lbas[k])]
  <2>1. n \in Nat /\ DOMAIN lbas = 1 .. n
    BY VectorIsList DEF List
  <2>2. oc20_advance_status(lbas, now, op) =
          ChargeChips(chip_next_avail_time, pages, chips, now, op)
    BY DEF oc20_advance_status
  <2>3. \A k \in 1 .. n : chips[k] \in Chips
    BY <1>1, <2>1
  <2> HIDE DEF n, chips
  <2>4. Len(pages) = n
    BY <2>1
  <2> HIDE DEF pages
  <2> QED BY <1>1, <2>1, <2>2, <2>4, <2>3, WalkMoves
<1>2. ASSUME UNCHANGED chip_next_avail_time
      PROVE  ChipsMove
  BY <1>2 DEF ChipsMove
<1>3. {"read", "write", "erase"} = NandOps
  BY DEF NandOps
<1>4. ASSUME NEW lbas \in Vectors, NEW now \in Times, NEW v \in Vals, NEW prp_ok \in BOOLEAN,
             oc20_write(lbas, now, v, prp_ok)
      PROVE  ChipsMove
  <2>1. \/ UNCHANGED chip_next_avail_time
        \/ /\ oc20_rw_check_write_req(lbas) = "SUCCESS"
           /\ chip_next_avail_time' = oc20_advance_status(lbas, now, "write").avail
           /\ expire_time' = oc20_advance_status(lbas, now, "write").expire
    BY <1>4 DEF oc20_write, Refused, Completed
  <2>2. ASSUME oc20_rw_check_write_req(lbas) = "SUCCESS"
        PROVE  \A k \in 1 .. Len(lbas) : oc20_lunid(lbas[k]) \in Chips
    <3> TAKE k \in 1 .. Len(lbas)
    <3>1. List(lbas) /\ lbas[k] \in Nat
      BY VectorIsList DEF List
    <3>2. oc20_lba_to_chunk_index(lbas[k]) \in Chunks
      BY <2>2, <3>1, WrittenChunks
    <3> QED BY <3>1, <3>2, Oc20Lun
  <2> QED BY <2>1, <2>2, <1>1, <1>2, <1>3
<1>5. ASSUME NEW lbas \in ReadableVectors, NEW now \in Times, NEW prp_ok \in BOOLEAN,
             oc20_read(lbas, now, prp_ok)
      PROVE  ChipsMove
  <2>1. \/ UNCHANGED chip_next_avail_time
        \/ /\ chip_next_avail_time' = oc20_advance_status(lbas, now, "read").avail
           /\ expire_time' = oc20_advance_status(lbas, now, "read").expire
    BY <1>5 DEF oc20_read, Refused, Completed
  <2>2. lbas \in Vectors
    BY DEF ReadableVectors
  <2>3. \A k \in 1 .. Len(lbas) : oc20_lunid(lbas[k]) \in Chips
    <3> TAKE k \in 1 .. Len(lbas)
    <3>1. lbas[k] \in Nat /\ lbas[k] < oc20_nsze
      BY <2>2, VectorIsList DEF List, ReadableVectors
    <3> QED BY <3>1, Oc20Lun
  <2> QED BY <2>1, <2>2, <2>3, <1>1, <1>2, <1>3
<1>6. ASSUME NEW lbas \in Vectors, NEW now \in Times, oc20_erase(lbas, now)
      PROVE  ChipsMove
  BY <1>2, <1>6 DEF oc20_erase
<1>7. ASSUME NEW cd \in HostDescs, oc20_set_log(cd[1], cd[2])
      PROVE  ChipsMove
  BY <1>2, <1>7 DEF oc20_set_log
<1> QED
  BY <1>4, <1>5, <1>6, <1>7 DEF Oc20Next

ChipInv == ModeOK /\ chip_next_avail_time \in ChipTimes

\* No step of whatever mode does.
LEMMA ChipStep ==
    ASSUME DriveFits, ChipInv, [Next]_vars
    PROVE  ChipsMove
<1>1. mode \in {"ocssd12", "ocssd20", "nossd", "bbssd"} /\ chip_next_avail_time \in ChipTimes
  BY ModesAssumption DEF ChipInv, ModeOK
<1>2. ASSUME UNCHANGED chip_next_avail_time
      PROVE  ChipsMove
  BY <1>1, <1>2 DEF ChipsMove
<1>3. ASSUME BlockNext \/ nvme_io_cmd(Oncs[mode])
      PROVE  UNCHANGED chip_next_avail_time
  <2>1. ASSUME NEW answer, Answered(answer)
        PROVE  UNCHANGED chip_next_avail_time
    BY <2>1 DEF Answered
  <2>2. ASSUME BlockNext
        PROVE  UNCHANGED chip_next_avail_time
    <3>1. ASSUME NEW slba \in Slbas, NEW nlb \in Nlbs, NEW is_write \in BOOLEAN,
                 NEW v \in Vals, NEW off \in 0 .. PageSize - 1, NEW prp_ok \in BOOLEAN,
                 nvme_rw(slba, nlb, is_write, v, off, prp_ok)
          PROVE  UNCHANGED chip_next_avail_time
      BY <3>1, <2>1 DEF nvme_rw
    <3> QED BY <2>2, <3>1 DEF BlockNext, nvme_format
  <2>3. ASSUME nvme_io_cmd(Oncs[mode])
        PROVE  UNCHANGED chip_next_avail_time
    BY <2>1, <2>3 DEF nvme_io_cmd, nvme_dsm, nvme_compare, nvme_write_zeros, nvme_write_uncor,
        nvme_flush
  <2> QED BY <1>3, <2>2, <2>3
<1>4. ASSUME BbNext
      PROVE  UNCHANGED chip_next_avail_time
  BY <1>4 DEF BbNext, FtlDequeue, ChargePage, FtlDone, GcCommand, FlipGcDelay, FlipDelayEmu,
      FlipAssign, timingVars
<1>5. ASSUME nvme_register_extensions(mode)
      PROVE  ChipsMove
  BY <1>1, <1>2, <1>3, <1>4, <1>5, Oc12Chips, Oc20Chips DEF nvme_register_extensions
<1> QED
  BY <1>2, <1>3, <1>5 DEF Next, vars, timingVars

\* For every shape of drive, every latency and every order of issue times: a chip's next
\* available time never moves back, and a command that kept chips busy is completed no
\* earlier than the last of them is done.
THEOREM ChipsNeverRewind ==
    ASSUME DriveFits
    PROVE  Spec => ChipNeverRewinds
<1> DEFINE Forward == \A l \in DOMAIN chip_next_avail_time :
                         /\ chip_next_avail_time'[l] >= chip_next_avail_time[l]
                         /\ chip_next_avail_time'[l] # chip_next_avail_time[l]
                                => expire_time' >= chip_next_avail_time'[l]
<1>1. Init => ChipInv
  BY NandAssumption DEF Init, TimingInit, ChipInv, ModeOK, ChipTimes, Chips
<1>2. ChipInv /\ [Next]_vars => ChipInv'
  <2>1. [Next]_vars => UNCHANGED mode
    BY DEF Next, vars
  <2> QED BY <2>1, ChipStep DEF ChipInv, ModeOK, ChipsMove, ChipTimes, Chips
<1>3. ChipInv /\ [Next]_vars => [Forward]_timingVars
  <2> SUFFICES ASSUME ChipInv, [Next]_vars PROVE Forward
    OBVIOUS
  <2>1. ChipsMove
    BY ChipStep
  <2>2. DOMAIN chip_next_avail_time = Chips /\ \A l \in Chips : chip_next_avail_time[l] \in Nat
    BY DEF ChipInv, ChipTimes
  <2> QED BY <2>1, <2>2 DEF ChipsMove, Charged
<1> QED
  BY <1>1, <1>2, <1>3, PTL DEF Spec, ChipNeverRewinds

-----------------------------------------------------------------------------
(* Chunk descriptors. *)

Desc == [state : CHUNK_STATES, type : {"SEQ", "RAN"}, wp : Nat, cnlb : Nat, wear_index : Nat]

\* A host that overwrites descriptors leaves the number of sectors as it is.
HostKeepsSize ==
    \A cd \in HostDescs : cd[1] \in Chunks /\ cd[2] \in Desc /\ cd[2].cnlb = clba

\* The descriptor d of a chunk says what its sectors p hold.  (One the host made a random
\* write chunk takes no writes after a reset, which leaves its type as it is.)
Truthful(d, p) ==
    d.state # "OFFLINE" =>
        /\ d.wp <= clba
        /\ \A s \in 0 .. clba - 1 : p[s] = IF s < d.wp THEN 1 ELSE 0
        /\ d.state = IF d.wp = 0 THEN "FREE" ELSE IF d.wp < clba THEN "OPEN" ELSE "CLOSED"
        /\ d.type = "RAN" => d.state = "FREE"

SectorCounts == [0 .. clba - 1 -> 0 .. 2]
ChunkDescs == {d \in Desc : d.cnlb = clba}

DescInv ==
    /\ chunk_info \in [Chunks -> ChunkDescs]
    /\ programmed \in [Chunks -> SectorCounts]
    /\ \A c \in Chunks \ loose : Truthful(chunk_info[c], programmed[c])

\* Every chunk is free and unwritten at first.
LEMMA DescInit ==
    ASSUME DriveFits, Init
    PROVE  DescInv
<1>1. /\ chunk_info = [c \in Chunks |-> Free]
      /\ programmed = [c \in Chunks |-> [s \in 0 .. clba - 1 |-> 0]]
  BY DEF Init, Oc20Init
<1>2. clba \in Nat \ {0}
  BY Oc20Shape
<1>3. Free \in ChunkDescs
  BY <1>2 DEF Free, ChunkDescs, Desc, CHUNK_STATES
<1>4. [s \in 0 .. clba - 1 |-> 0] \in SectorCounts
  BY DEF SectorCounts
<1>5. Truthful(Free, [s \in 0 .. clba - 1 |-> 0])
  BY <1>2 DEF Free, Truthful
<1> QED
  BY <1>1, <1>3, <1>4, <1>5 DEF DescInv

\* What the invariant says of the sectors a read does not flag.
LEMMA DescMeans ==
    ASSUME DriveFits, DescInv
    PROVE  DescriptorsTrue
<1> SUFFICES ASSUME NEW c \in Chunks \ loose, chunk_info[c].state # "OFFLINE",
                    NEW lba \in 0 .. oc20_nsze - 1, oc20_lba_to_chunk_index(lba) = c,
                    oc20_rw_check_chunk_read(lba)
             PROVE  programmed[c][GET_SECTR(lba)] > 0
  <2>1. \A c \in Chunks \ loose : Truthful(chunk_info[c], programmed[c])
    BY DEF DescInv
  <2> QED BY <2>1 DEF DescriptorsTrue, Truthful
<1>1. lba \in Nat /\ GET_SECTR(lba) \in Nat
  <2>1. oc20_nsze \in Int
    <3>1. grp_offset + bit_len(num_grp) \in Nat
      BY Oc20Shape, BitLen
    <3> QED BY <3>1, Powers DEF oc20_nsze
  <2> QED BY <2>1, Fields
<1>2. /\ chunk_info[c] \in Desc /\ Truthful(chunk_info[c], programmed[c])
      /\ clba \in Nat /\ MwCunits \in Nat
  BY Oc20Shape, Oc20Assumption DEF DescInv, ChunkDescs
<1>3. \/ chunk_info[c].type = "RAN" /\ chunk_info[c].state = "OPEN"
      \/ GET_SECTR(lba) < chunk_info[c].wp
      \/ chunk_info[c].wp >= MwCunits /\ GET_SECTR(lba) < chunk_info[c].wp - MwCunits
  BY DEF oc20_rw_check_chunk_read
<1>4. GET_SECTR(lba) < chunk_info[c].wp /\ chunk_info[c].wp <= clba /\ chunk_info[c].wp \in Nat
  BY <1>1, <1>2, <1>3 DEF Truthful, Desc
<1>5. GET_SECTR(lba) \in 0 .. clba - 1
  BY <1>1, <1>2, <1>4
<1> QED
  BY <1>2, <1>4, <1>5 DEF Truthful

\* A list that lies in one chunk is one run, of sectors one after the other.
LEMMA OneRun ==
    ASSUME NEW lbas, List(lbas), oc20_rw_check_write_req(lbas) = "SUCCESS",
           \A k \in 1 .. Len(lbas) :
              oc20_lba_to_chunk_index(lbas[k]) = oc20_lba_to_chunk_index(lbas[1])
    PROVE  /\ oc20_rw_check_chunk_write(lbas[1], Len(lbas)) = "SUCCESS"
           /\ InOrder(lbas, <<1, Len(lbas)>>)
<1>1. Len(lbas) \in Nat \ {0}
  BY DEF List
<1>2. Starts(lbas) = {1}
  <2> SUFFICES ASSUME NEW k \in 2 .. Len(lbas), k \in Starts(lbas) PROVE FALSE
    BY <1>1, StartsAre
  <2>1. k \in 1 .. Len(lbas) /\ k - 1 \in 1 .. Len(lbas)
    BY <1>1
  <2> QED BY <2>1, StartsAre
<1>3. PICK j \in 1 .. Len(lbas) : <<1, j>> \in ChunkRuns(lbas)
  <2>1. 1 \in 1 .. Len(lbas) /\ 1 <= 1 /\ Starts(lbas) \cap (1 + 1 .. 1) = {}
    BY <1>1
  <2> QED BY <1>2, <2>1, RunEndOf
<1>4. j = Len(lbas)
  <2>1. j = Len(lbas) \/ j + 1 \in Starts(lbas)
    BY <1>3 DEF ChunkRuns, Starts
  <2> QED BY <1>1, <1>2, <2>1
<1>5. InOrder(lbas, <<1, j>>) /\ oc20_rw_check_chunk_write(lbas[1], j - 1 + 1) = "SUCCESS"
  BY <1>3, AllRunsPass
<1> QED
  BY <1>1, <1>4, <1>5

\* The sectors of a list in order follow each other.
LEMMA SectorsFollow ==
    ASSUME DriveFits, NEW lbas, List(lbas), InOrder(lbas, <<1, Len(lbas)>>)
    PROVE  \A k \in 1 .. Len(lbas) : GET_SECTR(lbas[k]) = GET_SECTR(lbas[1]) + k - 1
<1> DEFINE T == {k \in Nat : k \in 1 .. Len(lbas) =>
                                GET_SECTR(lbas[k]) = GET_SECTR(lbas[1]) + k - 1}
<1>1. Len(lbas) \in Nat \ {0} /\ GET_SECTR(lbas[1]) \in Nat
  <2>1. Len(lbas) \in Nat \ {0} /\ lbas[1] \in Nat
    BY DEF List
  <2> QED BY <2>1, Fields
<1>2. 0 \in T
  OBVIOUS
<1>3. ASSUME NEW k \in Nat, k \in T
      PROVE  k + 1 \in T
  <2> SUFFICES ASSUME k + 1 \in 1 .. Len(lbas)
               PROVE  GET_SECTR(lbas[k + 1]) = GET_SECTR(lbas[1]) + (k + 1) - 1
    OBVIOUS
  <2>1. CASE k = 0
    <3>1. lbas[k + 1] = lbas[1]
      BY <2>1
    <3> QED BY <1>1, <2>1, <3>1
  <2>2. CASE k # 0
    <3>1. k + 1 \in 1 + 1 .. Len(lbas) /\ (k + 1) - 1 = k /\ k \in 1 .. Len(lbas)
      BY <1>1, <2>2
    <3>2. GET_SECTR(lbas[k + 1]) = GET_SECTR(lbas[k]) + 1
      BY <3>1 DEF InOrder
    <3>3. GET_SECTR(lbas[k]) = GET_SECTR(lbas[1]) + k - 1
      BY <1>3, <3>1
    <3> QED BY <1>1, <3>2, <3>3
  <2> QED BY <2>1, <2>2
<1> HIDE DEF T
<1>4. \A k \in Nat : k \in T
  BY <1>2, <1>3, NatSetInduction
<1> QED
  BY <1>1, <1>4 DEF T

\* A write that passed: the pointer of the first chunk moves by the length of the list.
LEMMA DescWrite ==
    ASSUME DriveFits, DescInv, NEW lbas, List(lbas),
           oc20_rw_check_write_req(lbas) = "SUCCESS",
           programmed' = [c \in Chunks |-> [s \in 0 .. clba - 1 |->
                            Programs(programmed[c][s] + Cardinality(SectorWrites(lbas, c, s)))]],
           NEW first, first = oc20_lba_to_chunk_index(lbas[1]),
           chunk_info' = [chunk_info EXCEPT ![first] = oc20_advance_wp(first, Len(lbas))],
           NEW cs, cs = {oc20_lba_to_chunk_index(lbas[i]) : i \in 1 .. Len(lbas)},
           loose' = IF Cardinality(cs) > 1 THEN loose \cup cs ELSE loose
    PROVE  DescInv'
<1> DEFINE N == Len(lbas)
<1>1. N \in Nat \ {0} /\ DOMAIN lbas = 1 .. N /\ clba \in Nat \ {0} /\ 1 \in 1 .. N
  BY Oc20Shape DEF List
<1> HIDE DEF N
<1>2. \A k \in 1 .. N : oc20_lba_to_chunk_index(lbas[k]) \in Chunks
  BY WrittenChunks DEF N
<1>3. first \in Chunks /\ first \in cs
  BY <1>1, <1>2 DEF N
<1>4. chunk_info[first] \in ChunkDescs /\ chunk_info[first] \in Desc
  BY <1>3 DEF DescInv, ChunkDescs
<1> DEFINE d == chunk_info[first]
           e == oc20_advance_wp(first, N)
<1>5. e \in ChunkDescs
  <2>1. d.wp + N \in Nat /\ d = [state |-> d.state, type |-> d.type, wp |-> d.wp,
                                 cnlb |-> d.cnlb, wear_index |-> d.wear_index]
    BY <1>1, <1>4 DEF Desc
  <2> QED BY <1>1, <1>4, <2>1 DEF oc20_advance_wp, ChunkDescs, Desc, CHUNK_STATES
<1>6. chunk_info' \in [Chunks -> ChunkDescs] /\ chunk_info'[first] = e
      /\ \A c \in Chunks \ {first} : chunk_info'[c] = chunk_info[c]
  BY <1>3, <1>5 DEF DescInv, N
<1> DEFINE W(c, s) == SectorWrites(lbas, c, s)
<1>7. \A c, s : IsFiniteSet(W(c, s)) /\ Cardinality(W(c, s)) \in Nat
  <2> SUFFICES ASSUME NEW c, NEW s PROVE IsFiniteSet(W(c, s)) /\ Cardinality(W(c, s)) \in Nat
    OBVIOUS
  <2>1. W(c, s) \subseteq 1 .. N
    BY <1>1 DEF SectorWrites
  <2>2. IsFiniteSet(1 .. N)
    BY <1>1, FS_Interval
  <2> HIDE DEF W
  <2> QED BY <2>1, <2>2, FS_Subset, FS_CardinalityType
<1> HIDE DEF W
<1>8. /\ programmed' \in [Chunks -> SectorCounts]
      /\ \A c \in Chunks, s \in 0 .. clba - 1 :
            programmed'[c][s] = Programs(programmed[c][s] + Cardinality(W(c, s)))
  <2>1. \A c \in Chunks, s \in 0 .. clba - 1 : programmed[c][s] \in 0 .. 2
    BY DEF DescInv, SectorCounts
  <2>2. \A c \in Chunks, s \in 0 .. clba - 1 :
           Programs(programmed[c][s] + Cardinality(W(c, s))) \in 0 .. 2
    BY <1>7, <2>1 DEF Programs
  <2> QED BY <2>2 DEF W, SectorCounts
<1>9. ASSUME NEW c \in Chunks \ cs
      PROVE  chunk_info'[c] = chunk_info[c]
             /\ \A s \in 0 .. clba - 1 : programmed'[c][s] = programmed[c][s]
  <2>1. \A s : W(c, s) = {}
    <3>1. \A k \in 1 .. N : oc20_lba_to_chunk_index(lbas[k]) # c
      BY DEF N
    <3> QED BY <1>1, <3>1 DEF W, SectorWrites
  <2>2. Cardinality({}) = 0
    BY FS_EmptySet
  <2>3. \A s \in 0 .. clba - 1 : programmed[c][s] \in 0 .. 2
    BY DEF DescInv, SectorCounts
  <2>4. \A s \in 0 .. clba - 1 : programmed'[c][s] = Programs(programmed[c][s] + 0)
    BY <1>8, <2>1, <2>2
  <2> QED BY <1>3, <1>6, <2>3, <2>4 DEF Programs
<1>10. ASSUME NEW c \in Chunks \ loose, c \notin cs
      PROVE  Truthful(chunk_info'[c], programmed'[c])
  BY <1>9, <1>10 DEF DescInv, Truthful
<1>11. CASE Cardinality(cs) > 1
  BY <1>6, <1>8, <1>10, <1>11 DEF DescInv
<1>12. CASE ~(Cardinality(cs) > 1)
  <2>1. cs = {first}
    <3>1. cs \subseteq Chunks /\ IsFiniteSet(Chunks)
      <4>1. chks_total - 1 \in Int
        BY Oc20Shape
      <4>2. IsFiniteSet(0 .. chks_total - 1)
        BY <4>1, FS_Interval
      <4> QED BY <1>2, <4>2 DEF Chunks, N
    <3>2. IsFiniteSet(cs) /\ Cardinality(cs) \in Nat
      BY <3>1, FS_Subset, FS_CardinalityType
    <3>3. Cardinality(cs) # 0
      BY <1>3, <3>2, FS_EmptySet
    <3>4. Cardinality(cs) = 1
      BY <1>12, <3>2, <3>3
    <3>5. PICK x : cs = {x}
      BY <3>2, <3>4, FS_Singleton
    <3> QED BY <1>3, <3>5
  <2>2. \A k \in 1 .. N : oc20_lba_to_chunk_index(lbas[k]) = first
    BY <2>1 DEF N
  <2>3. /\ oc20_rw_check_chunk_write(lbas[1], N) = "SUCCESS"
        /\ InOrder(lbas, <<1, N>>)
    BY <2>2, OneRun DEF N
  <2> DEFINE start == GET_SECTR(lbas[1])
  <2>4. /\ start + N <= clba /\ d.state \in {"FREE", "OPEN"}
        /\ IF d.type = "RAN" THEN d.state = "OPEN" ELSE start = d.wp
    <3>1. d.cnlb = clba /\ d.state \in CHUNK_STATES
      BY <1>4 DEF ChunkDescs, Desc
    <3>2. first = oc20_lba_to_chunk_index(lbas[1])
      OBVIOUS
    <3>3. oc20_lba_valid(lbas[1]) /\ d.state \notin {"OFFLINE", "CLOSED"}
      BY <2>3, <3>1, <3>2 DEF oc20_rw_check_chunk_write, CHUNK_STATES
    <3>4. d.state \in {"FREE", "OPEN"}
      BY <3>1, <3>3 DEF CHUNK_STATES
    <3>5. /\ ~(start + N > d.cnlb)
          /\ IF d.type = "RAN" THEN d.state = "OPEN" ELSE start = d.wp
      BY <2>3, <3>2, <3>3, <3>4 DEF oc20_rw_check_chunk_write
    <3>6. start \in Nat
      <4>1. lbas[1] \in Nat
        BY <1>1 DEF List, N
      <4> QED BY <4>1, Fields
    <3> QED BY <1>1, <3>1, <3>4, <3>5, <3>6
  <2>5. \A k \in 1 .. N : GET_SECTR(lbas[k]) = start + k - 1
    BY <2>3, SectorsFollow DEF N
  <2>6. ASSUME first \notin loose
        PROVE  Truthful(e, programmed'[first])
    <3>1. /\ Truthful(d, programmed[first]) /\ d \in Desc /\ d.cnlb = clba /\ d.state # "OFFLINE"
      BY <1>3, <1>4, <2>4, <2>6 DEF DescInv, ChunkDescs
    <3>2. d.type = "SEQ" /\ start = d.wp /\ d.wp \in Nat
      BY <2>4, <3>1 DEF Truthful, Desc
    <3>3. /\ e.wp = d.wp + N /\ e.type = "SEQ"
          /\ e.state = IF d.wp + N = clba THEN "CLOSED" ELSE "OPEN"
      BY <1>1, <2>4, <3>1, <3>2 DEF oc20_advance_wp, Desc
    <3>4. \A s \in 0 .. clba - 1 : programmed'[first][s] = IF s < d.wp + N THEN 1 ELSE 0
      <4> TAKE s \in 0 .. clba - 1
      <4>1. programmed[first][s] = IF s < d.wp THEN 1 ELSE 0
        BY <3>1 DEF Truthful
      <4>2. W(first, s) = {k \in 1 .. N : start + k - 1 = s}
        BY <1>1, <2>2, <2>5 DEF W, SectorWrites
      <4>3. Cardinality(W(first, s)) = IF d.wp <= s /\ s < d.wp + N THEN 1 ELSE 0
        <5>1. CASE d.wp <= s /\ s < d.wp + N
          <6>1. W(first, s) = {s - d.wp + 1}
            BY <1>1, <3>2, <4>2, <5>1
          <6> QED BY <5>1, <6>1, FS_Singleton
        <5>2. CASE ~(d.wp <= s /\ s < d.wp + N)
          <6>1. W(first, s) = {}
            BY <1>1, <3>2, <4>2, <5>2
          <6> QED BY <5>2, <6>1, FS_EmptySet
        <5> QED BY <5>1, <5>2
      <4> QED BY <1>1, <1>3, <1>8, <3>2, <4>1, <4>3 DEF Programs
    <3>5. d.wp + N <= clba /\ d.wp + N # 0
      BY <1>1, <2>4, <3>2
    <3> HIDE DEF e, d
    <3>6. /\ e.wp <= clba
          /\ \A s \in 0 .. clba - 1 : programmed'[first][s] = IF s < e.wp THEN 1 ELSE 0
      BY <3>3, <3>4, <3>5
    <3>7. e.state = IF e.wp = 0 THEN "FREE" ELSE IF e.wp < clba THEN "OPEN" ELSE "CLOSED"
      <4>1. CASE d.wp + N = clba
        BY <1>1, <3>3, <3>5, <4>1
      <4>2. CASE d.wp + N # clba
        <5>1. d.wp + N < clba
          <6>1. d.wp + N \in Int /\ clba \in Int
            BY <1>1, <3>2
          <6>2. \A x, y \in Int : x <= y /\ x # y => x < y
            OBVIOUS
          <6> QED BY <3>5, <4>2, <6>1, <6>2
        <5> QED BY <3>3, <3>5, <4>2, <5>1
      <4> QED BY <4>1, <4>2
    <3> QED BY <3>3, <3>6, <3>7 DEF Truthful
  <2> QED BY <1>6, <1>8, <1>10, <1>12, <2>1, <2>6 DEF DescInv
<1> QED
  BY <1>11, <1>12

\* What resets of a list can have made of the descriptors: a chunk is offline, or was
\* freed, or is as it was.
ResetAnswers == {"SUCCESS", "INVALID_RESET", "OFFLINE_CHUNK"}
ResetOutcomes == [info : [Chunks -> ChunkDescs], freed : SUBSET Chunks, status : ResetAnswers]
GoodResets ==
    {r \in ResetOutcomes : \A c \in Chunks :
        \/ r.info[c].state = "OFFLINE"
        \/ c \in r.freed /\ r.info[c].state = "FREE" /\ r.info[c].wp = 0
        \/ c \notin r.freed /\ r.info[c] = chunk_info[c]}

\* The outcomes of resetting one more address.
ResetNext(r, a) ==
    LET c == oc20_lba_to_chunk_index(a)
    IN  IF r.status # "SUCCESS" THEN {r}
        ELSE IF ~oc20_lba_valid(a) THEN {[r EXCEPT !.status = "INVALID_RESET"]}
        ELSE {[info   |-> [r.info EXCEPT ![c] = o[1]],
               freed  |-> IF o[2] = "SUCCESS" THEN r.freed \cup {c} ELSE r.freed,
               status |-> o[2]] : o \in oc20_chunk_set_free(r.info[c], c)}

\* What a reset leaves and answers.
LEMMA SetFree ==
    ASSUME NEW d \in ChunkDescs, NEW c, NEW o \in oc20_chunk_set_free(d, c)
    PROVE  /\ o[1] \in ChunkDescs /\ o[2] \in ResetAnswers
           /\ \/ o[1].state = "OFFLINE"
              \/ o[2] = "SUCCESS" /\ o[1].state = "FREE" /\ o[1].wp = 0
              \/ o[2] # "SUCCESS" /\ o[1] = d
<1>1. d \in Desc /\ d.cnlb = clba
  BY DEF ChunkDescs
<1>2. d = [state |-> d.state, type |-> d.type, wp |-> d.wp, cnlb |-> d.cnlb,
           wear_index |-> d.wear_index]
  BY <1>1 DEF Desc
<1> DEFINE freed   == [d EXCEPT !.state = "FREE", !.wp = 0, !.wear_index = (@ + 1) % 256]
           unused  == 65535
           offline == [d EXCEPT !.state = "OFFLINE", !.wp = unused]
<1>3. \/ d.state = "OFFLINE" /\ o = <<d, "OFFLINE_CHUNK">>
      \/ o = <<d, "INVALID_RESET">>
      \/ o = <<freed, "SUCCESS">>
      \/ o = <<offline, "INVALID_RESET">>
  BY DEF oc20_chunk_set_free
<1>4. freed \in ChunkDescs /\ freed.state = "FREE" /\ freed.wp = 0
  <2>1. (d.wear_index + 1) % 256 \in Nat
    BY <1>1 DEF Desc
  <2> QED BY <1>1, <1>2, <2>1 DEF ChunkDescs, Desc, CHUNK_STATES
<1>5. unused \in Nat
  BY DEF unused
<1> HIDE DEF unused
<1>6. offline \in ChunkDescs /\ offline.state = "OFFLINE"
  BY <1>1, <1>2, <1>5 DEF ChunkDescs, Desc, CHUNK_STATES
<1> HIDE DEF freed, offline
<1> QED
  BY <1>3, <1>4, <1>6 DEF ResetAnswers

\* One address of a reset.
LEMMA ResetNextGood ==
    ASSUME DriveFits, NEW r \in GoodResets, NEW a \in Nat, NEW res \in ResetNext(r, a)
    PROVE  res \in GoodResets
<1>1. /\ r \in ResetOutcomes
      /\ r = [info |-> r.info, freed |-> r.freed, status |-> r.status]
  BY DEF GoodResets, ResetOutcomes
<1>2. CASE r.status # "SUCCESS"
  BY <1>2 DEF ResetNext
<1>3. CASE r.status = "SUCCESS" /\ ~oc20_lba_valid(a)
  <2>1. res = [info |-> r.info, freed |-> r.freed, status |-> "INVALID_RESET"]
    BY <1>1, <1>3 DEF ResetNext
  <2>2. res \in ResetOutcomes
    BY <1>1, <2>1 DEF ResetOutcomes, ResetAnswers
  <2> QED BY <2>1, <2>2 DEF GoodResets
<1>4. CASE r.status = "SUCCESS" /\ oc20_lba_valid(a)
  <2> DEFINE c == oc20_lba_to_chunk_index(a)
  <2>1. c \in Chunks
    BY <1>4, ValidChunk
  <2> HIDE DEF c
  <2>2. PICK o \in oc20_chunk_set_free(r.info[c], c) :
           res = [info   |-> [r.info EXCEPT ![c] = o[1]],
                  freed  |-> IF o[2] = "SUCCESS" THEN r.freed \cup {c} ELSE r.freed,
                  status |-> o[2]]
    BY <1>4 DEF ResetNext, c
  <2>3. r.info[c] \in ChunkDescs
    BY <1>1, <2>1 DEF ResetOutcomes
  <2>4. /\ o[1] \in ChunkDescs /\ o[2] \in ResetAnswers
        /\ \/ o[1].state = "OFFLINE"
           \/ o[2] = "SUCCESS" /\ o[1].state = "FREE" /\ o[1].wp = 0
           \/ o[2] # "SUCCESS" /\ o[1] = r.info[c]
    BY <2>2, <2>3, SetFree
  <2>5. /\ res.info \in [Chunks -> ChunkDescs] /\ res.info[c] = o[1]
        /\ \A x \in Chunks \ {c} : res.info[x] = r.info[x]
        /\ r.info \in [Chunks -> ChunkDescs] /\ r.freed \in SUBSET Chunks
    BY <1>1, <2>1, <2>2, <2>4 DEF ResetOutcomes
  <2>6. res \in ResetOutcomes
    <3>1. res.freed \in SUBSET Chunks /\ res.status \in ResetAnswers
      BY <2>1, <2>2, <2>4, <2>5
    <3> QED BY <2>2, <2>5, <3>1 DEF ResetOutcomes
  <2>7. res.freed = IF o[2] = "SUCCESS" THEN r.freed \cup {c} ELSE r.freed
    BY <2>2
  <2>8. ASSUME NEW x \in Chunks
        PROVE  \/ res.info[x].state = "OFFLINE"
               \/ x \in res.freed /\ res.info[x].state = "FREE" /\ res.info[x].wp = 0
               \/ x \notin res.freed /\ res.info[x] = chunk_info[x]
    <3>1. \/ r.info[x].state = "OFFLINE"
          \/ x \in r.freed /\ r.info[x].state = "FREE" /\ r.info[x].wp = 0
          \/ x \notin r.freed /\ r.info[x] = chunk_info[x]
      BY DEF GoodResets
    <3>2. CASE x = c
      BY <2>4, <2>5, <2>7, <3>1, <3>2
    <3>3. CASE x # c
      BY <2>5, <2>7, <3>1, <3>3
    <3> QED BY <3>2, <3>3
  <2> QED BY <2>6, <2>8 DEF GoodResets
<1> QED
  BY <1>2, <1>3, <1>4

\* Whatever the list and wherever an error stops it.
LEMMA ResetsGood ==
    ASSUME DriveFits, DescInv, NEW lbas, List(lbas)
    PROVE  ResetResults(lbas) \subseteq GoodResets
<1> DEFINE N == Len(lbas)
           S == SUBSET GoodResets
           base == {[info |-> chunk_info, freed |-> {}, status |-> "SUCCESS"]}
           Step(acc, k) == UNION {ResetNext(r, lbas[k]) : r \in acc}
           D(f) == [k \in 0 .. N |-> IF k = 0 THEN base ELSE Step(f[k - 1], k)]
<1>1. N \in Nat
  BY DEF List
<1>2. ASSUME NEW acc \in S, NEW k \in 1 .. N
      PROVE  Step(acc, k) \in S
  <2>1. lbas[k] \in Nat
    BY DEF List
  <2>2. \A r \in acc : ResetNext(r, lbas[k]) \subseteq GoodResets
    BY <2>1, ResetNextGood
  <2> QED BY <2>2
<1>3. base \in S
  <2>1. [info |-> chunk_info, freed |-> {}, status |-> "SUCCESS"] \in ResetOutcomes
    BY DEF DescInv, ResetOutcomes, ResetAnswers
  <2> QED BY <2>1 DEF GoodResets
<1>4. ResetResults(lbas) = (CHOOSE g : g = D(g))[N]
  BY DEF ResetResults, ResetNext
<1> HIDE DEF Step, base, S, N
<1> DEFINE F == [x \in S \X (1 .. N) |-> Step(x[1], x[2])]
<1>5. F \in StepFunctions(S, N)
  BY <1>2 DEF StepFunctions
<1>6. \A acc \in S, k \in 1 .. N : F[<<acc, k>>] = Step(acc, k)
  OBVIOUS
<1>7. PICK f : Runs(f, F, S, base, N)
  <2> HIDE DEF F
  <2> QED BY <1>1, <1>3, <1>5, RecursionExists
<1>8. /\ f \in [0 .. N -> S] /\ f[0] = base
      /\ \A k \in 1 .. N : f[k] = F[<<f[k - 1], k>>]
  BY <1>7 DEF Runs
<1>9. f = D(f)
  <2>1. \A k \in 1 .. N : f[k] = Step(f[k - 1], k)
    <3> TAKE k \in 1 .. N
    <3>1. k - 1 \in 0 .. N
      BY <1>1
    <3>2. f[k - 1] \in S
      BY <1>8, <3>1
    <3> QED BY <3>2, <1>6, <1>8
  <2>2. \A k \in 0 .. N : f[k] = IF k = 0 THEN base ELSE Step(f[k - 1], k)
    BY <1>1, <1>8, <2>1
  <2> QED BY <1>8, <2>2
<1> DEFINE h == CHOOSE g : g = D(g)
<1>10. h = D(h)
  <2> HIDE DEF D
  <2> QED BY <1>9
<1>11. h[N] \in S
  <2> DEFINE T == {m \in Nat : m <= N => h[m] \in S}
  <2> HIDE DEF h
  <2>1. \A k \in 0 .. N : h[k] = IF k = 0 THEN base ELSE Step(h[k - 1], k)
    BY <1>10
  <2>2. 0 \in T
    BY <1>1, <1>3, <2>1
  <2>3. ASSUME NEW m \in Nat, m \in T
        PROVE  m + 1 \in T
    <3> SUFFICES ASSUME m + 1 <= N PROVE h[m + 1] \in S
      OBVIOUS
    <3>1. m + 1 \in 1 .. N /\ m + 1 # 0 /\ (m + 1) - 1 = m /\ m + 1 \in 0 .. N
      BY <1>1
    <3>2. h[m + 1] = Step(h[m], m + 1)
      BY <2>1, <3>1
    <3>3. h[m] \in S
      BY <2>3, <3>1, <1>1
    <3> QED BY <1>2, <3>1, <3>2, <3>3
  <2> HIDE DEF T
  <2>4. \A k \in Nat : k \in T
    BY <2>2, <2>3, NatSetInduction
  <2> QED BY <1>1, <2>4 DEF T
<1> QED
  BY <1>4, <1>11 DEF S

\* A vector reset keeps the descriptors true.
LEMMA DescErase ==
    ASSUME DriveFits, DescInv, NEW lbas, List(lbas), NEW now, oc20_erase(lbas, now)
    PROVE  DescInv'
<1>1. PICK r \in ResetResults(lbas) :
         /\ chunk_info' = r.info
         /\ programmed' = [c \in Chunks |-> IF c \in r.freed THEN [s \in 0 .. clba - 1 |-> 0]
                                            ELSE programmed[c]]
         /\ loose' = loose \ r.freed
  BY DEF oc20_erase
<1>2. r \in GoodResets
  BY ResetsGood
<1>3. clba \in Nat \ {0} /\ r.info \in [Chunks -> ChunkDescs]
  BY <1>2, Oc20Shape DEF GoodResets, ResetOutcomes
<1>4. [s \in 0 .. clba - 1 |-> 0] \in SectorCounts
  BY DEF SectorCounts
<1>5. programmed' \in [Chunks -> SectorCounts]
  BY <1>1, <1>4 DEF DescInv
<1>6. ASSUME NEW c \in Chunks \ loose'
      PROVE  Truthful(chunk_info'[c], programmed'[c])
  <2>1. \/ r.info[c].state = "OFFLINE"
        \/ c \in r.freed /\ r.info[c].state = "FREE" /\ r.info[c].wp = 0
        \/ c \notin r.freed /\ r.info[c] = chunk_info[c]
    BY <1>2 DEF GoodResets
  <2>2. CASE r.info[c].state = "OFFLINE"
    BY <1>1, <2>2 DEF Truthful
  <2>3. CASE c \in r.freed /\ r.info[c].state = "FREE" /\ r.info[c].wp = 0
    <3>1. programmed'[c] = [s \in 0 .. clba - 1 |-> 0]
      BY <1>1, <2>3
    <3> QED BY <1>1, <1>3, <2>3, <3>1 DEF Truthful
  <2>4. CASE c \notin r.freed /\ r.info[c] = chunk_info[c]
    <3>1. c \in Chunks \ loose /\ programmed'[c] = programmed[c]
      BY <1>1, <2>4
    <3> QED BY <1>1, <2>4, <3>1 DEF DescInv
  <2> QED BY <2>1, <2>2, <2>3, <2>4
<1> QED
  BY <1>1, <1>3, <1>5, <1>6 DEF DescInv

\* Every command of open-channel 2.0 keeps them true.
LEMMA DescOc20Step ==
    ASSUME DriveFits, HostKeepsSize, DescInv, Oc20Next
    PROVE  DescInv'
<1>1. ASSUME UNCHANGED <<chunk_info, programmed, loose>>
      PROVE  DescInv'
  BY <1>1 DEF DescInv
<1>2. ASSUME NEW lbas \in Vectors, NEW now \in Times, NEW v \in Vals, NEW prp_ok \in BOOLEAN,
             oc20_write(lbas, now, v, prp_ok)
      PROVE  DescInv'
  <2> DEFINE first == oc20_lba_to_chunk_index(lbas[1])
             cs    == {oc20_lba_to_chunk_index(lbas[i]) : i \in 1 .. Len(lbas)}
  <2>1. \/ UNCHANGED <<chunk_info, programmed, loose>>
        \/ /\ oc20_rw_check_write_req(lbas) = "SUCCESS"
           /\ programmed' = [c \in Chunks |-> [s \in 0 .. clba - 1 |->
                               Programs(programmed[c][s] + Cardinality(SectorWrites(lbas, c, s)))]]
           /\ chunk_info' = [chunk_info EXCEPT ![first] = oc20_advance_wp(first, Len(lbas))]
           /\ loose' = IF Cardinality(cs) > 1 THEN loose \cup cs ELSE loose
    BY <1>2 DEF oc20_write, Refused
  <2>2. List(lbas)
    BY VectorIsList
  <2> HIDE DEF first, cs
  <2>3. /\ first = oc20_lba_to_chunk_index(lbas[1])
        /\ cs = {oc20_lba_to_chunk_index(lbas[i]) : i \in 1 .. Len(lbas)}
    BY DEF first, cs
  <2> QED BY <2>1, <2>2, <2>3, <1>1, DescWrite
<1>3. ASSUME NEW lbas \in ReadableVectors, NEW now \in Times, NEW prp_ok \in BOOLEAN,
             oc20_read(lbas, now, prp_ok)
      PROVE  DescInv'
  BY <1>1, <1>3 DEF oc20_read, Refused
<1>4. ASSUME NEW lbas \in Vectors, NEW now \in Times, oc20_erase(lbas, now)
      PROVE  DescInv'
  BY <1>4, VectorIsList, DescErase
<1>5. ASSUME NEW cd \in HostDescs, oc20_set_log(cd[1], cd[2])
      PROVE  DescInv'
  <2>1. cd[1] \in Chunks /\ cd[2] \in ChunkDescs
    BY DEF HostKeepsSize, ChunkDescs
  <2>2. /\ chunk_info' = [chunk_info EXCEPT ![cd[1]] = cd[2]]
        /\ loose' = loose \cup {cd[1]} /\ programmed' = programmed
    BY <1>5 DEF oc20_set_log
  <2>3. chunk_info' \in [Chunks -> ChunkDescs]
        /\ \A c \in Chunks \ {cd[1]} : chunk_info'[c] = chunk_info[c]
    BY <2>1, <2>2 DEF DescInv
  <2> QED BY <2>2, <2>3 DEF DescInv
<1> QED
  BY <1>2, <1>3, <1>4, <1>5 DEF Oc20Next

\* For every geometry, every list a host sends and every descriptor it writes, as long as it
\* leaves the number of sectors alone: a chunk that only ever took writes of its own is
\* described as it is (oc20_rw_check_chunk_write, oc20_advance_wp, oc20_chunk_set_free).
THEOREM DescriptorsStayTrue ==
    ASSUME DriveFits, HostKeepsSize
    PROVE  Spec => []DescriptorsTrue
<1> DEFINE Inv == ModeOK /\ DescInv
<1>1. Init => Inv
  BY DescInit DEF Init, ModeOK
<1>2. Inv /\ [Next]_vars => Inv'
  <2> SUFFICES ASSUME Inv, [Next]_vars PROVE Inv'
    OBVIOUS
  <2>1. mode \in {"ocssd12", "ocssd20", "nossd", "bbssd"} /\ UNCHANGED mode
    BY ModesAssumption DEF ModeOK, Next, vars
  <2>2. Oc20Next \/ UNCHANGED oc20vars
    BY <2>1 DEF Next, vars, nvme_register_extensions
  <2>3. ASSUME UNCHANGED oc20vars
        PROVE  DescInv'
    BY <2>3 DEF DescInv, oc20vars
  <2> QED BY <2>1, <2>2, <2>3, DescOc20Step DEF ModeOK
<1>3. Inv => DescriptorsTrue
  BY DescMeans
<1> QED
  BY <1>1, <1>2, <1>3, PTL DEF Spec
-----------------------------------------------------------------------------
(* The data of a command. *)

\* A buffer that starts off half pages into a page: what lies before its piece k, one
\* piece for each page, and the pieces of a transfer of len half pages.
PieceStart(off, k) == IF k = 1 THEN 0 ELSE PageSize * (k - 1) - off
PieceRoom(off, k) == IF k = 1 THEN PageSize - off ELSE PageSize
Piece(len, off, k) == [base |-> BufPage(k) + (IF k = 1 THEN off ELSE 0),
                       len  |-> MinOf(len - PieceStart(off, k), PieceRoom(off, k))]
Pieces(len, off, m) == [k \in 1 .. m |-> Piece(len, off, k)]

Halves == 0 .. PageSize - 1

\* The pages of a buffer are as many as hold it.
LEMMA PagesHold ==
    ASSUME NEW len \in Nat \ {0}, NEW off \in Halves
    PROVE  /\ Pages(len, off) \in Nat \ {0}
           /\ len + off <= 2 * Pages(len, off) /\ 2 * Pages(len, off) <= len + off + 1
  BY DEF Pages, PageSize, Halves

\* What the driver has put where.
LEMMA HostMemIs ==
    ASSUME NEW v, NEW len \in Nat \ {0}, NEW off \in Halves
    PROVE  /\ \A j \in 0 .. Pages(len, off) :
                 HostMem(v, len, off)[ListPage(j)] = PrpList(Pages(len, off), j)
           /\ \A k \in 1 .. Pages(len, off), h \in Halves :
                 /\ BufPage(k) + h \in DOMAIN HostMem(v, len, off)
                 /\ HostMem(v, len, off)[BufPage(k) + h] = <<v, 2 * (k - 1) + h - off + 1>>
<1>1. PICK np \in Nat : np = Pages(len, off)
  BY PagesHold
<1> DEFINE data == {BufPage(k) + h : k \in 1 .. np, h \in 0 .. PageSize - 1}
           lists == {ListPage(j) : j \in 0 .. np}
           Cell(a) == IF a \in data
                      THEN <<v, PageSize * (PageNo(a) - 1) + (a % PageSize) - off + 1>>
                      ELSE PrpList(np, PageNo(a))
<1>2. HostMem(v, len, off) = [a \in data \cup lists |-> Cell(a)]
  BY <1>1 DEF HostMem
<1>3. ASSUME NEW j \in 0 .. np PROVE PageNo(ListPage(j)) = j /\ ListPage(j) \notin data
  BY DEF PageNo, ListPage, BufPage, PageSize
<1>4. ASSUME NEW k \in 1 .. np, NEW h \in Halves
      PROVE  /\ PageNo(BufPage(k) + h) = k /\ (BufPage(k) + h) % PageSize = h
             /\ BufPage(k) + h \in data
  BY DEF PageNo, BufPage, PageSize, Halves
<1>5. ASSUME NEW j \in 0 .. np PROVE ListPage(j) \in data \cup lists
  OBVIOUS
<1> HIDE DEF data, lists
<1>6. ASSUME NEW j \in 0 .. np PROVE HostMem(v, len, off)[ListPage(j)] = PrpList(np, j)
  BY <1>2, <1>3, <1>5
<1>7. ASSUME NEW k \in 1 .. np, NEW h \in Halves
      PROVE  /\ BufPage(k) + h \in DOMAIN HostMem(v, len, off)
             /\ HostMem(v, len, off)[BufPage(k) + h] = <<v, 2 * (k - 1) + h - off + 1>>
  BY <1>2, <1>4 DEF PageSize
<1> QED
  BY <1>1, <1>6, <1>7

\* The page of the buffer that the first entry of list page j names.
ListStart(j) == 2 + j * (MaxPrpEnts - 1)

\* Each list page goes on one page before the end of the one before it.
LEMMA ListStarts ==
    ASSUME NEW j \in Nat
    PROVE  /\ ListStart(j) \in Nat /\ ListStart(0) = 2
           /\ ListStart(j + 1) = ListStart(j) + MaxPrpEnts - 1
<1>1. MaxPrpEnts - 1 \in Nat
  BY BackendAssumption
<1>2. PICK m \in Nat : m = MaxPrpEnts - 1
  BY <1>1
<1>3. j * m \in Nat /\ (j + 1) * m = j * m + m /\ 0 * m = 0
  OBVIOUS
<1> QED
  BY <1>2, <1>3, BackendAssumption DEF ListStart

\* An entry of a list names a page of the buffer, or the next list page when it is the
\* last of its list page and more pages are left.
LEMMA ListEntry ==
    ASSUME NEW np \in Nat, NEW j \in Nat, NEW i \in 1 .. MaxPrpEnts,
           NEW q \in Nat, q = ListStart(j) + i - 1, q <= np
    PROVE  PrpList(np, j)[i] = IF i = MaxPrpEnts /\ q < np THEN ListPage(j + 1) ELSE BufPage(q)
<1>1. PICK s \in Nat : s = ListStart(j) /\ s = 2 + j * (MaxPrpEnts - 1)
  BY ListStarts DEF ListStart
<1>2. PICK left \in Nat : left = np - s + 1
  BY <1>1
<1>3. np >= s /\ MaxPrpEnts \in Nat
  BY <1>1, BackendAssumption
<1>4. PrpList(np, j) = IF left <= MaxPrpEnts
                       THEN [k \in 1 .. left |-> BufPage(s + k - 1)]
                       ELSE [k \in 1 .. MaxPrpEnts |-> IF k < MaxPrpEnts THEN BufPage(s + k - 1)
                                                       ELSE ListPage(j + 1)]
  BY <1>1, <1>2, <1>3 DEF PrpList
<1> QED
  BY <1>1, <1>2, <1>3, <1>4

\* The walk over the lists when it has d pages behind the first one and is to look at
\* entry i of list page j.
Left(len, off, d) == IF d < Pages(len, off) - 1 THEN len - PieceStart(off, d + 2) ELSE 0
Walk(len, off, d, j, i) ==
    [ok |-> TRUE, len |-> Left(len, off, d), list |-> ListPage(j), i |-> i,
     sg |-> Pieces(len, off, d + 1)]
Reached(np, d, j, i) ==
    /\ d \in 0 .. np - 1 /\ j \in 0 .. d /\ i \in 1 .. MaxPrpEnts + 1
    /\ d + 2 = ListStart(j) + i - 1
    /\ i <= MaxPrpEnts \/ d = np - 1

\* One piece more.
LEMMA PiecesNext ==
    ASSUME NEW len, NEW off, NEW m \in Nat
    PROVE  /\ Pieces(len, off, m + 1) = Append(Pieces(len, off, m), Piece(len, off, m + 1))
           /\ Len(Pieces(len, off, m)) = m /\ DOMAIN Pieces(len, off, m) = 1 .. m
           /\ \A k \in 1 .. m : Pieces(len, off, m)[k] = Piece(len, off, k)
<1> DEFINE S == {Piece(len, off, k) : k \in Nat}
<1>1. ASSUME NEW n \in Nat PROVE Pieces(len, off, n) \in Seq(S) /\ Len(Pieces(len, off, n)) = n
  <2>1. Pieces(len, off, n) \in [1 .. n -> S]
    BY DEF Pieces
  <2> HIDE DEF S
  <2>2. Pieces(len, off, n) \in Seq(S)
    BY <2>1, SeqDef, Zenon
  <2> QED
    BY <2>1, <2>2, LenProperties
<1>2. \A n \in Nat : \A k \in 1 .. n : Pieces(len, off, n)[k] = Piece(len, off, k)
  BY DEF Pieces
<1>3. Piece(len, off, m + 1) \in S
  OBVIOUS
<1> DEFINE t == Append(Pieces(len, off, m), Piece(len, off, m + 1))
<1>4. /\ t \in Seq(S) /\ Len(t) = m + 1
      /\ \A k \in 1 .. m : t[k] = Pieces(len, off, m)[k]
      /\ t[m + 1] = Piece(len, off, m + 1)
  <2> HIDE DEF S
  <2> QED BY <1>1, <1>3, AppendProperties
<1>5. \A k \in 1 .. m + 1 : t[k] = Pieces(len, off, m + 1)[k]
  <2> TAKE k \in 1 .. m + 1
  <2>1. CASE k \in 1 .. m
    <3>1. m + 1 \in Nat /\ t[k] = Pieces(len, off, m)[k]
      BY <1>4, <2>1
    <3> HIDE DEF t
    <3> QED BY <1>2, <2>1, <3>1
  <2> HIDE DEF t
  <2>2. CASE k = m + 1
    <3>1. m + 1 \in Nat /\ m + 1 \in 1 .. m + 1
      OBVIOUS
    <3>2. Pieces(len, off, m + 1)[m + 1] = Piece(len, off, m + 1)
      BY <1>2, <3>1
    <3> HIDE DEF t
    <3> QED BY <1>4, <2>2, <3>2
  <2> QED BY <2>1, <2>2
<1>6. t = Pieces(len, off, m + 1)
  <2> HIDE DEF S, t
  <2> QED BY <1>1, <1>4, <1>5, SeqEqual
<1> QED
  BY <1>1, <1>2, <1>6 DEF Pieces

\* A round of the walk.
LEMMA WalkStep ==
    ASSUME NEW v, NEW len \in Nat \ {0}, NEW off \in Halves,
           NEW d, NEW j, NEW i, Reached(Pages(len, off), d, j, i)
    PROVE  \E e, j2, i2 :
              /\ Reached(Pages(len, off), e, j2, i2)
              /\ e = IF d < Pages(len, off) - 1 THEN d + 1 ELSE d
              /\ ListStep(HostMem(v, len, off), Walk(len, off, d, j, i)) =
                   Walk(len, off, e, j2, i2)
<1>1. PICK np \in Nat : np = Pages(len, off)
  BY PagesHold
<1>2. PICK mem : mem = HostMem(v, len, off)
  OBVIOUS
<1>3. Reached(np, d, j, i)
  BY <1>1
<1> SUFFICES \E e, j2, i2 :
                /\ Reached(np, e, j2, i2) /\ e = IF d < np - 1 THEN d + 1 ELSE d
                /\ ListStep(mem, Walk(len, off, d, j, i)) = Walk(len, off, e, j2, i2)
  BY <1>1, <1>2
<1>4. /\ d \in Nat /\ d <= np - 1 /\ j \in Nat /\ j <= d /\ i \in Nat /\ 1 <= i
      /\ i <= MaxPrpEnts + 1 /\ MaxPrpEnts \in Nat /\ MaxPrpEnts >= 2
      /\ d + 2 = ListStart(j) + i - 1 /\ (i <= MaxPrpEnts \/ d = np - 1)
  BY <1>3, BackendAssumption DEF Reached
<1>5. PICK w : w = Walk(len, off, d, j, i)
  OBVIOUS
<1>6. /\ w.ok = TRUE /\ w.len = Left(len, off, d) /\ w.list = ListPage(j) /\ w.i = i
      /\ w.sg = Pieces(len, off, d + 1)
  BY <1>5 DEF Walk
<1>7. CASE d = np - 1
  <2>1. w.len = 0
    BY <1>1, <1>6, <1>7 DEF Left
  <2>2. ListStep(mem, w) = w
    BY <2>1 DEF ListStep
  <2> QED BY <1>3, <1>5, <1>7, <2>2
<1>8. CASE d < np - 1
  <2>1. PICK q \in Nat : q = d + 2
    BY <1>4
  <2>2. i \in 1 .. MaxPrpEnts /\ q <= np /\ q = ListStart(j) + i - 1
    BY <1>4, <1>8, <2>1
  <2>3. PICK L : L = Left(len, off, d)
    OBVIOUS
  <2>4. len + off <= 2 * np /\ 2 * np <= len + off + 1 /\ off \in 0 .. 1
    BY <1>1, PagesHold DEF Halves, PageSize
  <2>5. /\ L = len - (2 * (d + 1) - off) /\ L \in Nat \ {0} /\ (L > 2 <=> q < np)
    BY <1>1, <1>4, <1>8, <2>1, <2>3, <2>4 DEF Left, PieceStart, PageSize
  <2>6. PICK trans : trans = MinOf(L, 2)
    OBVIOUS
  <2>7. Left(len, off, d + 1) = L - trans
    BY <1>1, <1>4, <1>8, <2>1, <2>4, <2>5, <2>6 DEF Left, PieceStart, PageSize, MinOf
  <2>8. Piece(len, off, d + 2) = [base |-> BufPage(q), len |-> trans]
    <3>1. d + 2 # 1 /\ BufPage(q) + 0 = BufPage(q)
      BY <1>4, <2>1 DEF BufPage, PageSize
    <3>2. len - PieceStart(off, d + 2) = L /\ PieceRoom(off, d + 2) = 2
      BY <1>4, <2>5, <3>1 DEF PieceStart, PieceRoom, PageSize
    <3> QED BY <2>1, <2>6, <3>1, <3>2 DEF Piece
  <2>9. Pieces(len, off, d + 2) = Append(w.sg, [base |-> BufPage(q), len |-> trans])
    <3>1. PICK m \in Nat : m = d + 1 /\ m + 1 = d + 2
      BY <1>4
    <3>2. Pieces(len, off, m + 1) = Append(Pieces(len, off, m), Piece(len, off, m + 1))
      BY PiecesNext
    <3> QED BY <1>6, <2>8, <3>1, <3>2
  <2>10. /\ \A k \in Nat : UsableEntry(ListPage(k))
         /\ UsableEntry(BufPage(q))
    BY <2>1, <1>4 DEF UsableEntry, ListPage, BufPage, PageSize
  <2>11. \A k \in 0 .. np : mem[ListPage(k)] = PrpList(np, k)
    <3>1. \A k \in 0 .. np : HostMem(v, len, off)[ListPage(k)] = PrpList(np, k)
      BY <1>1, HostMemIs
    <3> QED BY <1>2, <3>1
  <2>12. PrpList(np, j)[i] = IF i = MaxPrpEnts /\ q < np THEN ListPage(j + 1) ELSE BufPage(q)
    BY <1>4, <2>2, ListEntry
  <2>13. mem[w.list] = PrpList(np, j)
    <3>1. j \in 0 .. np
      BY <1>4
    <3> QED BY <1>6, <2>11, <3>1
  <2>14. CASE i = MaxPrpEnts /\ q < np
    <3>1. mem[ListPage(j + 1)] = PrpList(np, j + 1)
      <4>1. j + 1 \in 0 .. np
        BY <1>4
      <4> QED BY <2>11, <4>1
    <3>2. ListStart(j + 1) = q
      BY <1>4, <2>2, <2>14, ListStarts
    <3>3. PrpList(np, j + 1)[1] = BufPage(q)
      <4>1. j + 1 \in Nat /\ 1 \in 1 .. MaxPrpEnts /\ q = ListStart(j + 1) + 1 - 1 /\ 1 # MaxPrpEnts
        BY <1>4, <2>1, <3>2
      <4> QED BY <2>2, <4>1, ListEntry
    <3>4. ListStep(mem, w) = [ok |-> TRUE, len |-> L - trans, list |-> ListPage(j + 1), i |-> 2,
                              sg |-> Append(w.sg, [base |-> BufPage(q), len |-> trans])]
      <4>1. w.i = MaxPrpEnts /\ w.len > PageSize /\ w.len = L /\ w.len # 0
        BY <1>6, <2>3, <2>5, <2>14 DEF PageSize
      <4>2. UsableEntry(ListPage(j + 1)) /\ mem[w.list][w.i] = ListPage(j + 1)
        BY <1>4, <1>6, <2>10, <2>12, <2>13, <2>14
      <4>3. mem[ListPage(j + 1)][1] = BufPage(q) /\ trans = MinOf(w.len, PageSize)
        BY <2>6, <3>1, <3>3, <4>1 DEF PageSize
      <4>4. PICK e0, e1 : /\ e0 = mem[w.list][w.i] /\ e1 = mem[e0][1]
                          /\ e0 = ListPage(j + 1) /\ e1 = BufPage(q)
        BY <4>2, <4>3
      <4>5. UsableEntry(e0) /\ UsableEntry(e1) /\ 1 + 1 = 2
        BY <2>10, <4>2, <4>4
      <4>6. ListStep(mem, w) = [ok |-> TRUE, len |-> L - trans, list |-> e0, i |-> 1 + 1,
                                sg |-> Append(w.sg, [base |-> e1, len |-> trans])]
        BY <1>6, <4>1, <4>3, <4>4, <4>5 DEF ListStep
      <4> QED
        BY <4>4, <4>5, <4>6
    <3>5. Walk(len, off, d + 1, j + 1, 2) =
            [ok |-> TRUE, len |-> L - trans, list |-> ListPage(j + 1), i |-> 2,
             sg |-> Append(w.sg, [base |-> BufPage(q), len |-> trans])]
      <4>1. (d + 1) + 1 = d + 2
        BY <1>4
      <4> QED BY <2>7, <2>9, <4>1 DEF Walk
    <3>6. Reached(np, d + 1, j + 1, 2)
      BY <1>4, <1>8, <2>1, <2>2, <3>2 DEF Reached
    <3> QED BY <1>5, <1>8, <3>4, <3>5, <3>6
  <2>15. CASE ~(i = MaxPrpEnts /\ q < np)
    <3>1. ListStep(mem, w) = [ok |-> TRUE, len |-> L - trans, list |-> ListPage(j), i |-> i + 1,
                              sg |-> Append(w.sg, [base |-> BufPage(q), len |-> trans])]
      <4>1. ~(w.i = MaxPrpEnts /\ w.len > PageSize) /\ w.len = L /\ w.len # 0
        BY <1>6, <2>3, <2>5, <2>15 DEF PageSize
      <4>2. mem[w.list][w.i] = BufPage(q)
        BY <1>6, <2>12, <2>13, <2>15
      <4>3. trans = MinOf(w.len, PageSize)
        BY <2>6, <4>1 DEF PageSize
      <4> QED
        BY <1>6, <2>10, <4>1, <4>2, <4>3 DEF ListStep
    <3>2. Walk(len, off, d + 1, j, i + 1) =
            [ok |-> TRUE, len |-> L - trans, list |-> ListPage(j), i |-> i + 1,
             sg |-> Append(w.sg, [base |-> BufPage(q), len |-> trans])]
      <4>1. (d + 1) + 1 = d + 2
        BY <1>4
      <4> QED BY <2>7, <2>9, <4>1 DEF Walk
    <3>3. Reached(np, d + 1, j, i + 1)
      BY <1>4, <1>8, <2>1, <2>2, <2>15, ListStarts DEF Reached
    <3> QED BY <1>5, <1>8, <3>1, <3>2, <3>3
  <2> QED BY <2>14, <2>15
<1> QED
  BY <1>4, <1>7, <1>8

\* The places a walk may be at.
Walks(len, off, np) ==
    {w \in {Walk(len, off, x[1], x[2], x[3]) : x \in Nat \X Nat \X Nat} :
        \E d, j, i \in Nat : Reached(np, d, j, i) /\ w = Walk(len, off, d, j, i)}

WalkOf(mem, rest, base) ==
    CHOOSE f : f = [k \in 0 .. rest |-> IF k = 0 THEN base ELSE ListStep(mem, f[k - 1])]

\* A walk that ended well.
Ended(w, len, off) == w.ok = TRUE /\ w.sg = Pieces(len, off, Pages(len, off))

\* After as many rounds as half pages are left, no page is.
LEMMA WalkEnds ==
    ASSUME NEW v, NEW len \in Nat \ {0}, NEW off \in Halves,
           NEW rest \in Nat, Pages(len, off) - 1 <= rest
    PROVE  Ended(WalkOf(HostMem(v, len, off), rest, Walk(len, off, 0, 0, 1))[rest], len, off)
<1>1. PICK np \in Nat : np = Pages(len, off)
  BY PagesHold
<1>2. PICK mem : mem = HostMem(v, len, off)
  OBVIOUS
<1>3. PICK g : g = WalkOf(mem, rest, Walk(len, off, 0, 0, 1))
  OBVIOUS
<1> DEFINE S == Walks(len, off, np)
           base == Walk(len, off, 0, 0, 1)
           Step(w) == ListStep(mem, w)
           D(f) == [k \in 0 .. rest |-> IF k = 0 THEN base ELSE Step(f[k - 1])]
           Far(w, m) == \E d, j, i \in Nat : /\ Reached(np, d, j, i) /\ w = Walk(len, off, d, j, i)
                                             /\ d >= m \/ d = np - 1
<1>4. ASSUME NEW d, NEW j, NEW i, Reached(np, d, j, i)
      PROVE  d \in Nat /\ j \in Nat /\ i \in Nat /\ d <= np - 1 /\ Walk(len, off, d, j, i) \in S
  <2>1. d \in Nat /\ j \in Nat /\ i \in Nat /\ d <= np - 1
    BY <1>4, BackendAssumption DEF Reached
  <2>2. <<d, j, i>> \in Nat \X Nat \X Nat
    BY <2>1
  <2>3. Walk(len, off, d, j, i) \in {Walk(len, off, x[1], x[2], x[3]) : x \in Nat \X Nat \X Nat}
    BY <2>2
  <2> QED BY <1>4, <2>1, <2>3 DEF Walks
<1>5. \A w \in S : \E d, j, i \in Nat : Reached(np, d, j, i) /\ w = Walk(len, off, d, j, i)
  BY DEF Walks
<1>6. ASSUME NEW d, NEW j, NEW i, Reached(np, d, j, i), NEW m \in Nat, d >= m \/ d = np - 1
      PROVE  Step(Walk(len, off, d, j, i)) \in S /\ Far(Step(Walk(len, off, d, j, i)), m + 1)
  <2>1. PICK e, j2, i2 :
              /\ Reached(np, e, j2, i2) /\ e = IF d < np - 1 THEN d + 1 ELSE d
              /\ ListStep(mem, Walk(len, off, d, j, i)) = Walk(len, off, e, j2, i2)
    <3>1. Reached(Pages(len, off), d, j, i)
      BY <1>1, <1>6
    <3>2. PICK e, j2, i2 :
              /\ Reached(Pages(len, off), e, j2, i2)
              /\ e = IF d < Pages(len, off) - 1 THEN d + 1 ELSE d
              /\ ListStep(HostMem(v, len, off), Walk(len, off, d, j, i)) =
                   Walk(len, off, e, j2, i2)
      BY <3>1, WalkStep
    <3> QED BY <1>1, <1>2, <3>2
  <2>2. /\ d \in Nat /\ e \in Nat /\ j2 \in Nat /\ i2 \in Nat /\ d <= np - 1
        /\ Walk(len, off, e, j2, i2) \in S
    BY <1>4, <1>6, <2>1
  <2>3. e >= m + 1 \/ e = np - 1
    BY <1>6, <2>1, <2>2
  <2> QED BY <2>1, <2>2, <2>3
<1>7. Reached(np, 0, 0, 1) /\ base \in S /\ Far(base, 0)
  <2>1. np >= 1
    BY <1>1, PagesHold
  <2>2. Reached(np, 0, 0, 1)
    BY <2>1, ListStarts, BackendAssumption DEF Reached
  <2> QED BY <1>4, <2>2
<1> HIDE DEF S, base, Step
<1> DEFINE F == [x \in S \X (1 .. rest) |-> Step(x[1])]
<1>8. \A w \in S : Step(w) \in S
  <2> TAKE w \in S
  <2>1. PICK d, j, i \in Nat : Reached(np, d, j, i) /\ w = Walk(len, off, d, j, i)
    BY <1>5
  <2>2. d >= 0
    OBVIOUS
  <2> QED BY <1>6, <2>1, <2>2
<1>9. F \in StepFunctions(S, rest) /\ \A w \in S, k \in 1 .. rest : F[<<w, k>>] = Step(w)
  BY <1>8 DEF StepFunctions
<1>10. PICK f : Runs(f, F, S, base, rest)
  <2> HIDE DEF F
  <2> QED BY <1>7, <1>9, RecursionExists
<1>11. f = D(f)
  <2>1. f \in [0 .. rest -> S] /\ f[0] = base /\ \A k \in 1 .. rest : f[k] = F[<<f[k - 1], k>>]
    BY <1>10 DEF Runs
  <2>2. \A k \in 1 .. rest : f[k] = Step(f[k - 1])
    <3> TAKE k \in 1 .. rest
    <3>1. k - 1 \in 0 .. rest
      OBVIOUS
    <3> QED BY <2>1, <3>1, <1>9
  <2>3. \A k \in 0 .. rest : f[k] = IF k = 0 THEN base ELSE Step(f[k - 1])
    BY <2>1, <2>2
  <2> QED BY <2>1, <2>3
<1>12. g = D(g)
  <2>1. g = CHOOSE h : h = D(h)
    BY <1>3 DEF WalkOf, base, Step
  <2> HIDE DEF D
  <2> QED BY <1>11, <2>1
<1>13. \A m \in Nat : m \in {k \in Nat : k <= rest => Far(g[k], k)}
  <2> DEFINE T == {k \in Nat : k <= rest => Far(g[k], k)}
  <2>1. \A k \in 0 .. rest : g[k] = IF k = 0 THEN base ELSE Step(g[k - 1])
    BY <1>12
  <2>2. 0 \in T
    BY <1>7, <2>1
  <2>3. ASSUME NEW m \in Nat, m \in T PROVE m + 1 \in T
    <3> SUFFICES ASSUME m + 1 <= rest PROVE Far(g[m + 1], m + 1)
      OBVIOUS
    <3>1. m + 1 \in 0 .. rest /\ m + 1 # 0 /\ (m + 1) - 1 = m
      OBVIOUS
    <3>2. g[m + 1] = Step(g[m])
      BY <2>1, <3>1
    <3>3. Far(g[m], m)
      BY <2>3
    <3>4. PICK d, j, i \in Nat : /\ Reached(np, d, j, i) /\ g[m] = Walk(len, off, d, j, i)
                                 /\ d >= m \/ d = np - 1
      BY <3>3
    <3> HIDE DEF Far
    <3> QED BY <1>6, <3>2, <3>4
  <2> HIDE DEF T
  <2>4. \A k \in Nat : k \in T
    BY <2>2, <2>3, NatSetInduction
  <2> QED BY <2>4 DEF T
<1>14. PICK d, j, i \in Nat : /\ Reached(np, d, j, i) /\ g[rest] = Walk(len, off, d, j, i)
                              /\ d >= rest \/ d = np - 1
  BY <1>13
<1>15. d + 1 = np
  BY <1>1, <1>4, <1>14
<1>16. g[rest].ok = TRUE /\ g[rest].sg = Pieces(len, off, np)
  BY <1>14, <1>15 DEF Walk
<1> QED
  BY <1>1, <1>2, <1>3, <1>16 DEF Ended

\* What nvme_map_prp does with the first entry, and where it begins its walk.
FirstLen(prp1, len) == MinOf(len, PageSize - (prp1 % PageSize))
FirstPiece(prp1, len) == <<[base |-> prp1, len |-> FirstLen(prp1, len)]>>
Rest(prp1, len) == len - FirstLen(prp1, len)
WalkStart(prp1, prp2, len) ==
    [ok |-> TRUE, len |-> Rest(prp1, len), list |-> prp2, i |-> 1, sg |-> FirstPiece(prp1, len)]
WholeWalk(mem, prp1, prp2, len) ==
    WalkOf(mem, Rest(prp1, len), WalkStart(prp1, prp2, len))[Rest(prp1, len)]

\* The three cases of nvme_map_prp.
MapCases(map, mem, prp1, prp2, len) ==
    /\ Rest(prp1, len) = 0 => map = [ok |-> TRUE, sg |-> FirstPiece(prp1, len)]
    /\ Rest(prp1, len) # 0 /\ prp2 # 0 /\ Rest(prp1, len) > PageSize =>
         map = [ok |-> WholeWalk(mem, prp1, prp2, len).ok, sg |-> WholeWalk(mem, prp1, prp2, len).sg]
    /\ Rest(prp1, len) # 0 /\ prp2 # 0 /\ ~(Rest(prp1, len) > PageSize) /\ prp2 % PageSize = 0 =>
         map = [ok |-> TRUE, sg |-> Append(FirstPiece(prp1, len),
                                           [base |-> prp2, len |-> Rest(prp1, len)])]

\* They are all there is for a first entry that is not null.
LEMMA MapPrp ==
    ASSUME NEW mem, NEW prp1, NEW prp2, NEW len, prp1 # 0
    PROVE  MapCases(nvme_map_prp(mem, prp1, prp2, len), mem, prp1, prp2, len)
<1> DEFINE rest == Rest(prp1, len)
           first == FirstPiece(prp1, len)
           none == [ok |-> FALSE, sg |-> <<>>]
           w == WholeWalk(mem, prp1, prp2, len)
<1>1. nvme_map_prp(mem, prp1, prp2, len) =
        IF prp1 = 0 THEN none
        ELSE IF rest = 0 THEN [ok |-> TRUE, sg |-> first]
        ELSE IF prp2 = 0 THEN none
        ELSE IF rest > PageSize THEN [ok |-> w.ok, sg |-> w.sg]
        ELSE IF prp2 % PageSize # 0 THEN none
        ELSE [ok |-> TRUE, sg |-> Append(first, [base |-> prp2, len |-> rest])]
  BY Zenon DEF nvme_map_prp, WalkOf, WholeWalk, WalkStart, Rest, FirstPiece, FirstLen
<1> HIDE DEF rest, first, none, w
<1>2. /\ rest = 0 => nvme_map_prp(mem, prp1, prp2, len) = [ok |-> TRUE, sg |-> first]
      /\ rest # 0 /\ prp2 # 0 /\ rest > PageSize =>
           nvme_map_prp(mem, prp1, prp2, len) = [ok |-> w.ok, sg |-> w.sg]
      /\ rest # 0 /\ prp2 # 0 /\ ~(rest > PageSize) /\ prp2 % PageSize = 0 =>
           nvme_map_prp(mem, prp1, prp2, len) =
             [ok |-> TRUE, sg |-> Append(first, [base |-> prp2, len |-> rest])]
  BY <1>1, Zenon
<1> QED
  BY <1>2, Zenon DEF MapCases, rest, first, w

\* However long the transfer, wherever its buffer starts and however often the list is
\* chained: nvme_map_prp accepts the entries a driver has prepared as it must, and the
\* pieces it finds are the buffer's pages in order, the first and the last in part.
THEOREM EntriesLeadToBuffer ==
    ASSUME NEW v, NEW len \in Nat \ {0}, NEW off \in Halves
    PROVE  /\ Mapped(v, len, off, TRUE).ok = TRUE
           /\ Mapped(v, len, off, TRUE).sg = Pieces(len, off, Pages(len, off))
<1>1. PICK np \in Nat : np = Pages(len, off)
  BY PagesHold
<1>2. np >= 1 /\ len + off <= 2 * np /\ 2 * np <= len + off + 1 /\ off \in 0 .. 1
  BY <1>1, PagesHold DEF Halves, PageSize
<1>3. PICK mem : mem = HostMem(v, len, off)
  OBVIOUS
<1>4. PICK prp1, prp2 : /\ prp1 = Prp1(off) /\ prp1 # 0 /\ prp1 % PageSize = off
                        /\ prp2 = Prp2(len, off)
  BY <1>2 DEF Prp1, BufPage, PageSize
<1>5. PICK map : map = nvme_map_prp(mem, prp1, prp2, len)
  OBVIOUS
<1>6. Mapped(v, len, off, TRUE) = map
  BY <1>3, <1>4, <1>5 DEF Mapped
<1>7. PICK trans, rest, first, base :
        /\ trans = MinOf(len, PageSize - (prp1 % PageSize)) /\ rest = len - trans
        /\ first = <<[base |-> prp1, len |-> trans]>>
        /\ base = [ok |-> TRUE, len |-> rest, list |-> prp2, i |-> 1, sg |-> first]
        /\ rest = Rest(prp1, len) /\ first = FirstPiece(prp1, len)
        /\ base = WalkStart(prp1, prp2, len)
  BY DEF Rest, FirstPiece, FirstLen, WalkStart
<1>8. /\ rest = 0 => map = [ok |-> TRUE, sg |-> first]
      /\ rest # 0 /\ prp2 # 0 /\ rest > PageSize =>
           map = [ok |-> WalkOf(mem, rest, base)[rest].ok, sg |-> WalkOf(mem, rest, base)[rest].sg]
      /\ rest # 0 /\ prp2 # 0 /\ ~(rest > PageSize) /\ prp2 % PageSize = 0 =>
           map = [ok |-> TRUE, sg |-> Append(first, [base |-> prp2, len |-> rest])]
  <2>1. WholeWalk(mem, prp1, prp2, len) = WalkOf(mem, rest, base)[rest]
    BY <1>7 DEF WholeWalk
  <2>2. MapCases(map, mem, prp1, prp2, len)
    <3>1. prp1 # 0
      BY <1>4
    <3>2. MapCases(nvme_map_prp(mem, prp1, prp2, len), mem, prp1, prp2, len)
      BY <3>1, MapPrp, Zenon
    <3> QED BY <1>5, <3>2, Zenon
  <2> QED BY <1>7, <2>1, <2>2, Zenon DEF MapCases
<1>9. /\ trans = MinOf(len, 2 - off) /\ trans \in Nat /\ rest \in Nat
      /\ (rest = 0 <=> np = 1) /\ (rest > 2 <=> np > 2) /\ np - 1 <= rest
  <2>1. trans = MinOf(len, 2 - off) /\ rest = len - trans
    BY <1>4, <1>7 DEF PageSize
  <2> QED BY <1>2, <2>1 DEF MinOf
<1>10. Pieces(len, off, 1) = first
  <2>1. PICK m \in Nat : m = 0 /\ m + 1 = 1
    OBVIOUS
  <2>2. Pieces(len, off, m) = <<>>
    BY <2>1 DEF Pieces
  <2>3. Pieces(len, off, m + 1) = Append(Pieces(len, off, m), Piece(len, off, m + 1))
    BY PiecesNext
  <2>4. Piece(len, off, 1) = [base |-> prp1, len |-> trans]
    BY <1>2, <1>4, <1>9 DEF Piece, PieceStart, PieceRoom, PageSize, Prp1
  <2> QED BY <1>7, <2>1, <2>2, <2>3, <2>4
<1> SUFFICES map.ok = TRUE /\ map.sg = Pieces(len, off, np)
  BY <1>1, <1>6
<1>11. CASE np = 1
  BY <1>8, <1>9, <1>10, <1>11
<1>12. CASE np = 2
  <2>1. prp2 = BufPage(2) /\ prp2 # 0 /\ prp2 % PageSize = 0
    BY <1>1, <1>4, <1>12 DEF Prp2, BufPage, PageSize
  <2>2. Piece(len, off, 2) = [base |-> prp2, len |-> rest]
    <3>1. prp2 + 0 = prp2
      BY <2>1 DEF BufPage, PageSize
    <3>2. MinOf(len - PieceStart(off, 2), PieceRoom(off, 2)) = rest
      BY <1>2, <1>7, <1>9, <1>12 DEF PieceStart, PieceRoom, PageSize, MinOf
    <3> QED BY <2>1, <3>1, <3>2 DEF Piece
  <2>3. PICK m \in Nat : m = 1 /\ m + 1 = 2
    OBVIOUS
  <2>4. Pieces(len, off, m + 1) = Append(Pieces(len, off, m), Piece(len, off, m + 1))
    BY PiecesNext
  <2>5. map = [ok |-> TRUE, sg |-> Append(first, [base |-> prp2, len |-> rest])]
    BY <1>8, <1>9, <1>12, <2>1 DEF PageSize
  <2> QED BY <1>10, <1>12, <2>2, <2>3, <2>4, <2>5
<1>13. CASE np > 2
  <2>1. prp2 = ListPage(0) /\ prp2 # 0
    BY <1>1, <1>4, <1>13 DEF Prp2, ListPage, PageSize
  <2>2. base = Walk(len, off, 0, 0, 1)
    <3>1. Left(len, off, 0) = rest
      BY <1>1, <1>2, <1>7, <1>9, <1>13 DEF Left, PieceStart, PageSize, MinOf
    <3>2. 0 + 1 = 1
      OBVIOUS
    <3> QED BY <1>7, <1>10, <2>1, <3>1, <3>2 DEF Walk
  <2>3. /\ WalkOf(mem, rest, base)[rest].ok = TRUE
        /\ WalkOf(mem, rest, base)[rest].sg = Pieces(len, off, np)
    <3>1. Pages(len, off) - 1 <= rest /\ rest \in Nat
      BY <1>1, <1>9
    <3>2. Ended(WalkOf(HostMem(v, len, off), rest, Walk(len, off, 0, 0, 1))[rest], len, off)
      BY <3>1, WalkEnds
    <3> QED BY <1>1, <1>3, <2>2, <3>2 DEF Ended
  <2>4. map = [ok |-> WalkOf(mem, rest, base)[rest].ok, sg |-> WalkOf(mem, rest, base)[rest].sg]
    BY <1>8, <1>9, <1>13, <2>1 DEF PageSize
  <2> QED BY <2>3, <2>4
<1>14. np = 1 \/ np = 2 \/ np > 2
  BY <1>2
<1> QED
  BY <1>11, <1>12, <1>13, <1>14, Zenon

\* The greatest number of a bounded set.
LEMMA MaxIs ==
    ASSUME NEW S, S \subseteq Nat, NEW m \in S, \A y \in S : m >= y
    PROVE  Max(S) = m
<1>1. \A x \in S : (\A y \in S : x >= y) => x = m
  <2> TAKE x \in S
  <2>1. x \in Nat /\ m \in Nat
    OBVIOUS
  <2> QED BY <2>1
<1> QED
  BY <1>1 DEF Max

\* Such a set has one.
LEMMA MaxExists ==
    ASSUME NEW n \in Nat, NEW S, S \subseteq 1 .. n, S # {}
    PROVE  \E m \in S : \A y \in S : m >= y
<1> DEFINE T == {n - x : x \in S}
<1>1. T \subseteq Nat /\ T # {}
  <2>1. PICK x \in S : TRUE
    OBVIOUS
  <2>2. n - x \in T
    BY <2>1
  <2>3. \A y \in S : n - y \in Nat
    OBVIOUS
  <2> QED BY <2>2, <2>3
<1>2. PICK t \in T : \A y \in T : t <= y
  <2> HIDE DEF T
  <2> QED BY <1>1, LeastNat
<1>3. PICK m \in S : t = n - m
  OBVIOUS
<1>4. ASSUME NEW y \in S PROVE m >= y
  <2>1. n - y \in T
    OBVIOUS
  <2> QED BY <1>2, <1>3, <2>1
<1> QED
  BY <1>4

\* What the handlers pass to the backend: one offset and a buffer of any size and place,
\* or an offset for each page of a buffer that starts with a page.
Transfer(ocssd, lbal, len, off) ==
    /\ len \in Nat \ {0} /\ off \in Halves
    /\ ocssd \in BOOLEAN
    /\ ~ocssd => lbal[1] \in Nat
    /\ ocssd => /\ off = 0
                /\ \E n \in Nat \ {0} : len = PageSize * n /\ \A k \in 1 .. n : lbal[k] \in Nat

\* The offset of a piece, and the piece of a half page.
OffsetOf(ocssd, lbal, off, k) == IF ocssd THEN lbal[k] ELSE lbal[1] + PieceStart(off, k)
PieceOf(off, j) == (j + off - 1) \div PageSize + 1

\* Where pieces begin and end.
LEMMA PieceEnds ==
    ASSUME NEW len \in Nat \ {0}, NEW off \in Halves, NEW k \in 1 .. Pages(len, off)
    PROVE  /\ PieceStart(off, k) \in Nat /\ Piece(len, off, k).len \in 1 .. PageSize
           /\ PieceStart(off, k) + Piece(len, off, k).len <= len
           /\ k < Pages(len, off) =>
                PieceStart(off, k + 1) = PieceStart(off, k) + Piece(len, off, k).len
           /\ k = Pages(len, off) => PieceStart(off, k) + Piece(len, off, k).len = len
           /\ k = 1 => PieceStart(off, k) = 0 /\ Piece(len, off, k).base = BufPage(1) + off
           /\ k # 1 => /\ PieceStart(off, k) = 2 * (k - 1) - off
                       /\ Piece(len, off, k).base = BufPage(k)
<1>1. PICK np \in Nat : np = Pages(len, off)
  BY PagesHold
<1>2. /\ len + off <= 2 * np /\ 2 * np <= len + off + 1 /\ off \in 0 .. 1 /\ k \in 1 .. np
      /\ len \in Nat /\ len >= 1
  BY <1>1, PagesHold DEF Halves, PageSize
<1>3. PICK l : l = Piece(len, off, k).len /\ l = MinOf(len - PieceStart(off, k), PieceRoom(off, k))
  BY DEF Piece
<1>4. CASE k = 1
  <2>1. PieceStart(off, k) = 0 /\ PieceRoom(off, k) = 2 - off /\ PieceStart(off, k + 1) = 2 - off
    BY <1>2, <1>4 DEF PieceStart, PieceRoom, PageSize
  <2>2. Piece(len, off, k).base = BufPage(1) + off
    BY <1>4 DEF Piece
  <2>3. l = IF len <= 2 - off THEN len ELSE 2 - off
    BY <1>2, <1>3, <2>1 DEF MinOf
  <2> QED BY <1>1, <1>2, <1>3, <1>4, <2>1, <2>2, <2>3 DEF PageSize
<1>5. CASE k # 1
  <2>1. /\ PieceStart(off, k) = 2 * (k - 1) - off /\ PieceRoom(off, k) = 2
        /\ PieceStart(off, k + 1) = 2 * k - off
    BY <1>2, <1>5 DEF PieceStart, PieceRoom, PageSize
  <2>2. Piece(len, off, k).base = BufPage(k)
    BY <1>2, <1>5 DEF Piece, BufPage, PageSize
  <2>3. l = IF len - (2 * (k - 1) - off) < 2 THEN len - (2 * (k - 1) - off) ELSE 2
    BY <1>2, <1>3, <2>1 DEF MinOf
  <2> QED BY <1>1, <1>2, <1>3, <1>5, <2>1, <2>2, <2>3 DEF PageSize
<1> QED
  BY <1>4, <1>5

\* Every half page lies in its piece, at its place.
LEMMA HalfInPiece ==
    ASSUME NEW len \in Nat \ {0}, NEW off \in Halves, NEW j \in 1 .. len
    PROVE  /\ PieceOf(off, j) \in 1 .. Pages(len, off)
           /\ PieceStart(off, PieceOf(off, j)) < j
           /\ j <= PieceStart(off, PieceOf(off, j)) + Piece(len, off, PieceOf(off, j)).len
           /\ BufAddr(off, j) =
                Piece(len, off, PieceOf(off, j)).base + (j - 1 - PieceStart(off, PieceOf(off, j)))
<1>1. PICK np \in Nat : np = Pages(len, off)
  BY PagesHold
<1>2. len + off <= 2 * np /\ off \in 0 .. 1 /\ len \in Nat /\ len >= 1
  BY <1>1, PagesHold DEF Halves, PageSize
<1>3. PICK k \in Nat, h \in 0 .. 1 :
        /\ k = PieceOf(off, j) /\ k >= 1 /\ j + off - 1 = 2 * (k - 1) + h
        /\ h = (j + off - 1) % PageSize
  BY <1>2 DEF PieceOf, PageSize
<1>4. k \in 1 .. np
  BY <1>2, <1>3
<1>5. /\ PieceStart(off, k) \in Nat /\ Piece(len, off, k).len \in 1 .. 2
      /\ k < np => PieceStart(off, k + 1) = PieceStart(off, k) + Piece(len, off, k).len
      /\ k = np => PieceStart(off, k) + Piece(len, off, k).len = len
      /\ k = 1 => PieceStart(off, k) = 0 /\ Piece(len, off, k).base = BufPage(1) + off
      /\ k # 1 => PieceStart(off, k) = 2 * (k - 1) - off /\ Piece(len, off, k).base = BufPage(k)
  <2>1. k \in 1 .. Pages(len, off)
    BY <1>1, <1>4
  <2> QED BY <1>1, <2>1, PieceEnds DEF PageSize
<1>6. BufAddr(off, j) = BufPage(k) + h
  BY <1>3 DEF BufAddr, PieceOf
<1>7. BufPage(k) \in Nat
  BY DEF BufPage, PageSize
<1>8. PieceStart(off, k) < j
  BY <1>2, <1>3, <1>4, <1>5
<1>9. j <= PieceStart(off, k) + Piece(len, off, k).len
  <2>1. CASE k < np
    <3>1. PieceStart(off, k + 1) = 2 * k - off
      BY <1>3 DEF PieceStart, PageSize
    <3>2. j <= 2 * k - off
      BY <1>2, <1>3
    <3>3. PieceStart(off, k) + Piece(len, off, k).len = 2 * k - off
      BY <1>5, <2>1, <3>1
    <3> QED BY <3>2, <3>3
  <2>2. CASE k = np
    <3>1. PieceStart(off, k) + Piece(len, off, k).len = len
      BY <1>5, <2>2
    <3> QED BY <3>1
  <2> QED BY <1>4, <2>1, <2>2
<1>10. BufAddr(off, j) = Piece(len, off, k).base + (j - 1 - PieceStart(off, k))
  <2>1. CASE k = 1
    BY <1>2, <1>3, <1>5, <1>6, <1>7, <2>1
  <2>2. CASE k # 1
    BY <1>2, <1>3, <1>5, <1>6, <1>7, <2>2
  <2> QED BY <2>1, <2>2
<1> QED
  BY <1>1, <1>3, <1>4, <1>8, <1>9, <1>10

\* A place in a piece is a half page of that piece.
LEMMA PieceOfHalf ==
    ASSUME NEW len \in Nat \ {0}, NEW off \in Halves, NEW k \in 1 .. Pages(len, off),
           NEW x \in Nat, x < Piece(len, off, k).len
    PROVE  /\ PieceStart(off, k) + x + 1 \in 1 .. len
           /\ PieceOf(off, PieceStart(off, k) + x + 1) = k
<1>1. PICK l, s : l = Piece(len, off, k).len /\ s = PieceStart(off, k)
  OBVIOUS
<1>2. /\ s \in Nat /\ l \in 1 .. 2 /\ s + l <= len /\ off \in 0 .. 1 /\ k \in Nat /\ k >= 1
      /\ k = 1 => s = 0
      /\ k # 1 => s = 2 * (k - 1) - off
  <2>1. /\ PieceStart(off, k) \in Nat /\ Piece(len, off, k).len \in 1 .. PageSize
        /\ PieceStart(off, k) + Piece(len, off, k).len <= len
        /\ k = 1 => PieceStart(off, k) = 0
        /\ k # 1 => PieceStart(off, k) = 2 * (k - 1) - off
    BY PieceEnds
  <2>2. Pages(len, off) \in Nat
    BY PagesHold
  <2> QED BY <1>1, <2>1, <2>2 DEF Halves, PageSize
<1>3. k = 1 => l <= 2 - off
  <2>1. k = 1 => l = MinOf(len - 0, 2 - off)
    BY <1>1 DEF Piece, PieceStart, PieceRoom, PageSize
  <2> QED BY <1>2, <2>1 DEF MinOf
<1>4. PieceOf(off, s + x + 1) = k
  <2>1. CASE k = 1
    BY <1>1, <1>2, <1>3, <2>1 DEF PieceOf, PageSize
  <2>2. CASE k # 1
    <3>1. (s + x + 1) + off - 1 = 2 * (k - 1) + x /\ x \in 0 .. 1
      BY <1>1, <1>2, <2>2
    <3> QED BY <1>2, <3>1 DEF PieceOf, PageSize
  <2> QED BY <2>1, <2>2
<1> QED
  BY <1>1, <1>2, <1>4

\* A later piece holds later half pages.
LEMMA PiecesInOrder ==
    ASSUME NEW len \in Nat \ {0}, NEW off \in Halves,
           NEW i \in 1 .. len, NEW j \in 1 .. len, PieceOf(off, i) < PieceOf(off, j)
    PROVE  i < j
  BY DEF PieceOf, PageSize, Halves

\* Where a half page goes, from the offset of its piece.
LEMMA TargetIs ==
    ASSUME NEW ocssd, NEW lbal, NEW len, NEW off, Transfer(ocssd, lbal, len, off),
           NEW j \in 1 .. len
    PROVE  Target(ocssd, lbal, j) =
             OffsetOf(ocssd, lbal, off, PieceOf(off, j)) + (j - 1 - PieceStart(off, PieceOf(off, j)))
<1>1. len \in Nat \ {0} /\ off \in Halves
  BY DEF Transfer
<1>2. PICK k \in Nat : k = PieceOf(off, j) /\ k \in 1 .. Pages(len, off) /\ PieceStart(off, k) \in Nat
  BY <1>1, HalfInPiece, PieceEnds, PagesHold
<1>3. CASE ~ocssd
  <2>1. Target(ocssd, lbal, j) = lbal[1] + j - 1 /\ lbal[1] \in Nat
    BY <1>3 DEF Target, Transfer
  <2>2. OffsetOf(ocssd, lbal, off, k) = lbal[1] + PieceStart(off, k)
    BY <1>3 DEF OffsetOf
  <2> QED BY <1>2, <2>1, <2>2
<1>4. CASE ocssd
  <2>1. /\ off = 0 /\ j \in Nat /\ j >= 1
        /\ \A m \in 1 .. Pages(len, off) : lbal[m] \in Nat
    <3>1. PICK n \in Nat \ {0} : len = PageSize * n /\ \A m \in 1 .. n : lbal[m] \in Nat
      BY <1>4 DEF Transfer
    <3>2. off = 0
      BY <1>4 DEF Transfer
    <3>3. Pages(len, off) = n
      BY <3>1, <3>2 DEF Pages, PageSize
    <3> QED BY <1>1, <3>1, <3>2, <3>3
  <2>2. lbal[k] \in Nat
    BY <1>2, <2>1
  <2>3. PICK d \in Nat, h \in 0 .. 1 :
          /\ d = (j - 1) \div PageSize /\ h = (j - 1) % PageSize /\ j - 1 = 2 * d + h
    BY <2>1 DEF PageSize
  <2>4. k = d + 1
    BY <1>2, <2>1, <2>3 DEF PieceOf, PageSize
  <2>5. Target(ocssd, lbal, j) = lbal[k] + h
    BY <1>4, <2>3, <2>4 DEF Target
  <2>6. PieceStart(off, k) = 2 * (k - 1)
    BY <1>2, <2>1, <2>3, <2>4 DEF PieceStart, PageSize
  <2>7. OffsetOf(ocssd, lbal, off, k) = lbal[k] /\ j - 1 - PieceStart(off, k) = h
    BY <1>4, <2>1, <2>3, <2>4, <2>6 DEF OffsetOf
  <2> QED BY <1>2, <2>5, <2>7
<1> QED
  BY <1>3, <1>4

\* The offsets a caller passes are numbers.
LEMMA OffsetType ==
    ASSUME NEW ocssd, NEW lbal, NEW len, NEW off, Transfer(ocssd, lbal, len, off),
           NEW k \in 1 .. Pages(len, off)
    PROVE  OffsetOf(ocssd, lbal, off, k) \in Nat
<1>1. len \in Nat \ {0} /\ off \in Halves
  BY DEF Transfer
<1>2. CASE ~ocssd
  BY <1>1, <1>2, PieceEnds DEF OffsetOf, Transfer
<1>3. CASE ocssd
  <2>1. PICK n \in Nat \ {0} : len = PageSize * n /\ \A m \in 1 .. n : lbal[m] \in Nat
    BY <1>3 DEF Transfer
  <2>2. Pages(len, off) = n
    <3>1. off = 0
      BY <1>3 DEF Transfer
    <3> QED BY <2>1, <3>1 DEF Pages, PageSize
  <2> QED BY <1>3, <2>1, <2>2 DEF OffsetOf
<1> QED
  BY <1>2, <1>3

\* The backend puts piece after piece, in the modes with one offset.
LEMMA OffsetIs ==
    ASSUME NEW ocssd, NEW lbal, NEW len, NEW off, Transfer(ocssd, lbal, len, off),
           NEW k \in 1 .. Pages(len, off)
    PROVE  PieceOffset(ocssd, Pieces(len, off, Pages(len, off)), lbal, k) =
             OffsetOf(ocssd, lbal, off, k)
<1>1. CASE ocssd
  BY <1>1 DEF PieceOffset, OffsetOf
<1>2. CASE ~ocssd
  <2>1. len \in Nat \ {0} /\ off \in Halves /\ lbal[1] \in Nat
    BY <1>2 DEF Transfer
  <2>2. PICK np \in Nat : np = Pages(len, off)
    BY <2>1, PagesHold
  <2>3. PICK sg : /\ sg = Pieces(len, off, Pages(len, off)) /\ Len(sg) = np
                  /\ \A j \in 1 .. np : sg[j] = Piece(len, off, j)
    BY <2>2, PiecesNext
  <2> DEFINE D(f) == [j \in 1 .. Len(sg) |-> IF j = 1 THEN lbal[1] ELSE f[j - 1] + sg[j - 1].len]
             b == CHOOSE f : f = D(f)
             G == [j \in 1 .. np |-> lbal[1] + PieceStart(off, j)]
  <2>4. PieceOffset(ocssd, sg, lbal, k) = b[k]
    BY <1>2 DEF PieceOffset
  <2>5. ASSUME NEW j \in 1 .. np, j # 1
        PROVE  /\ PieceStart(off, j) = PieceStart(off, j - 1) + sg[j - 1].len
               /\ PieceStart(off, j - 1) \in Nat /\ sg[j - 1].len \in Nat
    <3>1. j - 1 \in 1 .. np /\ j - 1 \in 1 .. Pages(len, off) /\ j - 1 < np /\ (j - 1) + 1 = j
      BY <2>2, <2>5
    <3>2. sg[j - 1] = Piece(len, off, j - 1)
      BY <2>3, <3>1
    <3>3. PICK m \in 1 .. Pages(len, off) : m = j - 1
      BY <3>1
    <3>4. /\ PieceStart(off, m) \in Nat /\ Piece(len, off, m).len \in 1 .. PageSize
          /\ m < Pages(len, off) =>
               PieceStart(off, m + 1) = PieceStart(off, m) + Piece(len, off, m).len
      BY <2>1, PieceEnds
    <3> QED BY <2>2, <3>1, <3>2, <3>3, <3>4 DEF PageSize
  <2>6. PieceStart(off, 1) = 0
    BY DEF PieceStart
  <2>7. \A j \in 1 .. np :
          G[j] = IF j = 1 THEN lbal[1] ELSE G[j - 1] + sg[j - 1].len
    <3> TAKE j \in 1 .. np
    <3>1. CASE j = 1
      BY <2>1, <2>6, <3>1
    <3>2. CASE j # 1
      <4>1. /\ G[j] = lbal[1] + PieceStart(off, j) /\ G[j - 1] = lbal[1] + PieceStart(off, j - 1)
        BY <3>2
      <4> HIDE DEF G
      <4> QED BY <2>1, <2>5, <3>2, <4>1
    <3> QED BY <3>1, <3>2
  <2>8. G = D(G)
    BY <2>3, <2>7
  <2>9. b = D(b)
    <3> HIDE DEF D
    <3> QED BY <2>8
  <2> HIDE DEF b
  <2>10. \A m \in Nat : m \in {j \in Nat : j + 1 <= np => b[j + 1] = lbal[1] + PieceStart(off, j + 1)}
    <3> DEFINE T == {j \in Nat : j + 1 <= np => b[j + 1] = lbal[1] + PieceStart(off, j + 1)}
    <3>1. \A j \in 1 .. np : b[j] = IF j = 1 THEN lbal[1] ELSE b[j - 1] + sg[j - 1].len
      BY <2>3, <2>9
    <3>2. 0 \in T
      <4>1. 0 + 1 = 1
        OBVIOUS
      <4> QED BY <2>1, <2>6, <3>1, <4>1
    <3>3. ASSUME NEW j \in Nat, j \in T PROVE j + 1 \in T
      <4> SUFFICES ASSUME (j + 1) + 1 <= np
                   PROVE  b[(j + 1) + 1] = lbal[1] + PieceStart(off, (j + 1) + 1)
        OBVIOUS
      <4>1. PICK i \in 1 .. np : i = (j + 1) + 1 /\ i # 1 /\ i - 1 = j + 1
        OBVIOUS
      <4>2. b[i] = b[i - 1] + sg[i - 1].len
        BY <3>1, <4>1
      <4>3. b[i - 1] = lbal[1] + PieceStart(off, i - 1)
        BY <3>3, <4>1
      <4>4. b[i] = lbal[1] + PieceStart(off, i)
        BY <2>1, <2>5, <4>1, <4>2, <4>3
      <4> QED BY <4>1, <4>4
    <3> HIDE DEF T
    <3>4. \A j \in Nat : j \in T
      BY <3>2, <3>3, NatSetInduction
    <3> QED BY <3>4 DEF T
  <2>11. b[k] = lbal[1] + PieceStart(off, k)
    <3>1. PICK j \in Nat : j + 1 = k /\ j + 1 <= np
      BY <2>2
    <3> QED BY <2>10, <3>1
  <2> QED BY <1>2, <2>3, <2>4, <2>11 DEF OffsetOf
<1> QED
  BY <1>1, <1>2 DEF Transfer

\* What the driver has put into a piece of its buffer.
LEMMA PieceHolds ==
    ASSUME NEW v, NEW len \in Nat \ {0}, NEW off \in Halves, NEW k \in 1 .. Pages(len, off),
           NEW x \in Nat, x < Piece(len, off, k).len
    PROVE  /\ Piece(len, off, k).base + x \in DOMAIN HostMem(v, len, off)
           /\ HostMem(v, len, off)[Piece(len, off, k).base + x] =
                <<v, PieceStart(off, k) + x + 1>>
<1>1. PICK j \in 1 .. len : j = PieceStart(off, k) + x + 1 /\ PieceOf(off, j) = k
  BY PieceOfHalf
<1>2. BufAddr(off, j) = Piece(len, off, k).base + (j - 1 - PieceStart(off, k))
  BY <1>1, HalfInPiece
<1>3. j - 1 - PieceStart(off, k) = x
  BY <1>1, PieceEnds
<1>4. PICK h \in Halves : h = (j + off - 1) % PageSize
  BY DEF Halves, PageSize
<1>5. BufAddr(off, j) = BufPage(k) + h
  BY <1>1, <1>4 DEF BufAddr, PieceOf
<1>6. 2 * (k - 1) + h - off + 1 = j
  <2>1. k = (j + off - 1) \div 2 + 1 /\ h = (j + off - 1) % 2
    BY <1>1, <1>4 DEF PieceOf, PageSize
  <2> QED BY <2>1 DEF Halves, PageSize
<1>7. /\ BufPage(k) + h \in DOMAIN HostMem(v, len, off)
      /\ HostMem(v, len, off)[BufPage(k) + h] = <<v, 2 * (k - 1) + h - off + 1>>
  BY HostMemIs
<1> QED
  BY <1>1, <1>2, <1>3, <1>5, <1>6, <1>7

\* The half pages that go to a half sector, and the pieces that cover it.
GoingTo(ocssd, lbal, len, u) == {j \in 1 .. len : Target(ocssd, lbal, j) = u}
Covering(ocssd, sg, lbal, u) == {k \in DOMAIN sg : Covers(ocssd, sg, lbal, k, u)}

\* A piece covers a half sector when one of its half pages goes there.
LEMMA CoverMeans ==
    ASSUME NEW ocssd, NEW lbal, NEW len, NEW off, Transfer(ocssd, lbal, len, off), NEW u \in Nat
    PROVE  /\ \A j \in GoingTo(ocssd, lbal, len, u) :
                 /\ PieceOf(off, j) \in Covering(ocssd, Pieces(len, off, Pages(len, off)), lbal, u)
                 /\ j = PieceStart(off, PieceOf(off, j))
                          + (u - OffsetOf(ocssd, lbal, off, PieceOf(off, j))) + 1
           /\ \A k \in Covering(ocssd, Pieces(len, off, Pages(len, off)), lbal, u) :
                 /\ k \in 1 .. Pages(len, off)
                 /\ u - OffsetOf(ocssd, lbal, off, k) \in Nat
                 /\ u - OffsetOf(ocssd, lbal, off, k) < Piece(len, off, k).len
                 /\ PieceStart(off, k) + (u - OffsetOf(ocssd, lbal, off, k)) + 1
                      \in GoingTo(ocssd, lbal, len, u)
                 /\ PieceOf(off, PieceStart(off, k) + (u - OffsetOf(ocssd, lbal, off, k)) + 1) = k
<1>1. len \in Nat \ {0} /\ off \in Halves
  BY DEF Transfer
<1>2. PICK np \in Nat : np = Pages(len, off)
  BY <1>1, PagesHold
<1>3. PICK sg : /\ sg = Pieces(len, off, Pages(len, off)) /\ DOMAIN sg = 1 .. np
                /\ \A k \in 1 .. np : sg[k] = Piece(len, off, k)
  BY <1>2, PiecesNext
<1>4. ASSUME NEW k \in 1 .. np
      PROVE  /\ Covers(ocssd, sg, lbal, k, u) <=>
                  /\ u >= OffsetOf(ocssd, lbal, off, k)
                  /\ u < OffsetOf(ocssd, lbal, off, k) + Piece(len, off, k).len
             /\ OffsetOf(ocssd, lbal, off, k) \in Nat
             /\ PieceStart(off, k) \in Nat /\ Piece(len, off, k).len \in Nat
  <2>1. k \in 1 .. Pages(len, off)
    BY <1>2
  <2>2. PieceOffset(ocssd, sg, lbal, k) = OffsetOf(ocssd, lbal, off, k)
    BY <1>3, <2>1, OffsetIs
  <2>3. OffsetOf(ocssd, lbal, off, k) \in Nat
    BY <2>1, OffsetType
  <2>4. PieceStart(off, k) \in Nat /\ Piece(len, off, k).len \in Nat
    BY <1>1, <2>1, PieceEnds DEF PageSize
  <2> QED BY <1>3, <2>2, <2>3, <2>4 DEF Covers
<1>5. ASSUME NEW j \in GoingTo(ocssd, lbal, len, u)
      PROVE  /\ PieceOf(off, j) \in Covering(ocssd, sg, lbal, u)
             /\ j = PieceStart(off, PieceOf(off, j))
                      + (u - OffsetOf(ocssd, lbal, off, PieceOf(off, j))) + 1
  <2>1. j \in 1 .. len /\ j \in Nat /\ Target(ocssd, lbal, j) = u
    BY <1>1 DEF GoingTo
  <2>2. PICK k \in 1 .. np : /\ k = PieceOf(off, j) /\ PieceStart(off, k) < j
                             /\ j <= PieceStart(off, k) + Piece(len, off, k).len
    BY <1>1, <1>2, <2>1, HalfInPiece
  <2>3. u = OffsetOf(ocssd, lbal, off, k) + (j - 1 - PieceStart(off, k))
    BY <2>1, <2>2, TargetIs
  <2>4. /\ OffsetOf(ocssd, lbal, off, k) \in Nat /\ PieceStart(off, k) \in Nat
        /\ Piece(len, off, k).len \in Nat
    BY <1>4
  <2>5. /\ u >= OffsetOf(ocssd, lbal, off, k)
        /\ u < OffsetOf(ocssd, lbal, off, k) + Piece(len, off, k).len
        /\ j = PieceStart(off, k) + (u - OffsetOf(ocssd, lbal, off, k)) + 1
    BY <2>1, <2>2, <2>3, <2>4
  <2>6. k \in Covering(ocssd, sg, lbal, u)
    BY <1>3, <1>4, <2>5 DEF Covering
  <2> QED BY <2>2, <2>5, <2>6
<1>6. ASSUME NEW k \in Covering(ocssd, sg, lbal, u)
      PROVE  /\ k \in 1 .. Pages(len, off)
             /\ u - OffsetOf(ocssd, lbal, off, k) \in Nat
             /\ u - OffsetOf(ocssd, lbal, off, k) < Piece(len, off, k).len
             /\ PieceStart(off, k) + (u - OffsetOf(ocssd, lbal, off, k)) + 1
                  \in GoingTo(ocssd, lbal, len, u)
             /\ PieceOf(off, PieceStart(off, k) + (u - OffsetOf(ocssd, lbal, off, k)) + 1) = k
  <2>1. k \in 1 .. np /\ Covers(ocssd, sg, lbal, k, u)
    BY <1>3 DEF Covering
  <2>2. PICK x \in Nat : /\ x = u - OffsetOf(ocssd, lbal, off, k) /\ x < Piece(len, off, k).len
                         /\ u = OffsetOf(ocssd, lbal, off, k) + x
    BY <1>4, <2>1
  <2>3. PICK j \in 1 .. len : j = PieceStart(off, k) + x + 1 /\ PieceOf(off, j) = k
    BY <1>1, <1>2, <2>1, <2>2, PieceOfHalf
  <2>4. Target(ocssd, lbal, j) = OffsetOf(ocssd, lbal, off, k) + (j - 1 - PieceStart(off, k))
    BY <2>3, TargetIs
  <2>5. PieceStart(off, k) \in Nat /\ OffsetOf(ocssd, lbal, off, k) \in Nat
    BY <1>4, <2>1
  <2>6. Target(ocssd, lbal, j) = u
    BY <2>2, <2>3, <2>4, <2>5
  <2> QED BY <1>2, <2>1, <2>2, <2>3, <2>6 DEF GoingTo
<1> QED
  BY <1>3, <1>5, <1>6

\* The last half page that goes to a half sector lies in the last piece that covers it.
LEMMA LastOne ==
    ASSUME NEW ocssd, NEW lbal, NEW len, NEW off, Transfer(ocssd, lbal, len, off), NEW u \in Nat,
           Covering(ocssd, Pieces(len, off, Pages(len, off)), lbal, u) # {}
    PROVE  \E k : /\ k = Max(Covering(ocssd, Pieces(len, off, Pages(len, off)), lbal, u))
                  /\ k \in Covering(ocssd, Pieces(len, off, Pages(len, off)), lbal, u)
                  /\ Max(GoingTo(ocssd, lbal, len, u)) =
                       PieceStart(off, k) + (u - OffsetOf(ocssd, lbal, off, k)) + 1
<1>1. len \in Nat \ {0} /\ off \in Halves
  BY DEF Transfer
<1>2. PICK np \in Nat : np = Pages(len, off)
  BY <1>1, PagesHold
<1>3. PICK K : K = Covering(ocssd, Pieces(len, off, Pages(len, off)), lbal, u) /\ K # {}
  OBVIOUS
<1>4. PICK J : J = GoingTo(ocssd, lbal, len, u)
  OBVIOUS
<1>5. K \subseteq 1 .. np /\ K \subseteq Nat
  BY <1>2, <1>3, CoverMeans
<1>6. PICK k \in K : k = Max(K) /\ \A i \in K : k >= i
  <2>1. PICK m \in K : \A i \in K : m >= i
    BY <1>3, <1>5, MaxExists
  <2>2. Max(K) = m
    BY <1>5, <2>1, MaxIs
  <2> QED BY <1>3, <2>1, <2>2
<1>7. PICK j : /\ j = PieceStart(off, k) + (u - OffsetOf(ocssd, lbal, off, k)) + 1
               /\ j \in J /\ PieceOf(off, j) = k
  BY <1>3, <1>4, <1>6, CoverMeans
<1>8. J \subseteq 1 .. len /\ J \subseteq Nat
  BY <1>1, <1>4 DEF GoingTo
<1>9. ASSUME NEW i \in J PROVE j >= i
  <2>1. /\ PieceOf(off, i) \in K
        /\ i = PieceStart(off, PieceOf(off, i)) + (u - OffsetOf(ocssd, lbal, off, PieceOf(off, i))) + 1
    BY <1>3, <1>4, CoverMeans
  <2>2. PieceOf(off, i) \in Nat /\ k \in Nat /\ k >= PieceOf(off, i)
    BY <1>5, <1>6, <2>1
  <2>3. CASE PieceOf(off, i) = k
    BY <1>7, <1>8, <2>1, <2>3
  <2>4. CASE PieceOf(off, i) < k
    <3>1. i < j
      BY <1>1, <1>7, <1>8, <2>4, PiecesInOrder
    <3> QED BY <1>7, <1>8, <3>1
  <2> QED BY <2>2, <2>3, <2>4
<1>10. Max(J) = j
  BY <1>7, <1>8, <1>9, MaxIs
<1> QED
  BY <1>3, <1>4, <1>6, <1>7, <1>10

\* A write puts into the backend what the host is told it has written.
LEMMA WriteIs ==
    ASSUME NEW ocssd, NEW lbal, NEW len, NEW off, Transfer(ocssd, lbal, len, off), NEW v,
           logical_space = expected, WriteData(lbal, len, v, off, ocssd)
    PROVE  logical_space' = expected' /\ truthful' = truthful
<1>1. len \in Nat \ {0} /\ off \in Halves
  BY DEF Transfer
<1>2. PICK sg : /\ sg = Pieces(len, off, Pages(len, off)) /\ sg = Mapped(v, len, off, TRUE).sg
                /\ \A k \in 1 .. Pages(len, off) : sg[k] = Piece(len, off, k)
  <2>1. Mapped(v, len, off, TRUE).sg = Pieces(len, off, Pages(len, off))
    BY <1>1, EntriesLeadToBuffer
  <2>2. \A k \in 1 .. Pages(len, off) :
          Pieces(len, off, Pages(len, off))[k] = Piece(len, off, k)
    <3>1. Pages(len, off) \in Nat
      BY <1>1, PagesHold
    <3> QED BY <3>1, PiecesNext
  <2> QED BY <2>1, <2>2
<1>3. PICK mem : mem = HostMem(v, len, off)
  OBVIOUS
<1> DEFINE K(u) == Covering(ocssd, sg, lbal, u)
           J(u) == GoingTo(ocssd, lbal, len, u)
           W(u) == IF K(u) = {} THEN logical_space[u]
                   ELSE mem[sg[Max(K(u))].base + u - PieceOffset(ocssd, sg, lbal, Max(K(u)))]
           X(u) == IF J(u) = {} THEN expected[u] ELSE <<v, Max(J(u))>>
<1>4. /\ logical_space' = backend_write(mem, sg, lbal, ocssd)
      /\ expected' = [u \in HalfSectors |->
                         LET hits == {j \in 1 .. len : Target(ocssd, lbal, j) = u}
                         IN  IF hits = {} THEN expected[u] ELSE <<v, Max(hits)>>]
      /\ truthful' = truthful
  BY <1>2, <1>3 DEF WriteData
<1>5. backend_write(mem, sg, lbal, ocssd) = [u \in HalfSectors |-> W(u)]
  BY DEF backend_write, Covering
<1>6. expected' = [u \in HalfSectors |-> X(u)]
  BY <1>4 DEF GoingTo
<1> HIDE DEF K, J
<1>7. ASSUME NEW u \in HalfSectors PROVE W(u) = X(u)
  <2>1. u \in Nat
    BY BackendAssumption DEF HalfSectors, PageSize
  <2>2. K(u) = Covering(ocssd, Pieces(len, off, Pages(len, off)), lbal, u)
    BY <1>2 DEF K
  <2>3. J(u) = GoingTo(ocssd, lbal, len, u)
    BY DEF J
  <2>4. CASE K(u) = {}
    <3>1. \A j \in GoingTo(ocssd, lbal, len, u) :
            PieceOf(off, j) \in Covering(ocssd, Pieces(len, off, Pages(len, off)), lbal, u)
      BY <2>1, CoverMeans
    <3>2. J(u) = {}
      BY <2>2, <2>4, <2>3, <3>1
    <3> QED BY <2>4, <3>2
  <2>5. CASE K(u) # {}
    <3>1. PICK k : /\ k = Max(K(u)) /\ k \in K(u)
                   /\ Max(J(u)) = PieceStart(off, k) + (u - OffsetOf(ocssd, lbal, off, k)) + 1
      <4>1. Covering(ocssd, Pieces(len, off, Pages(len, off)), lbal, u) # {}
        BY <2>2, <2>5
      <4>2. PICK k : /\ k = Max(Covering(ocssd, Pieces(len, off, Pages(len, off)), lbal, u))
                     /\ k \in Covering(ocssd, Pieces(len, off, Pages(len, off)), lbal, u)
                     /\ Max(GoingTo(ocssd, lbal, len, u)) =
                          PieceStart(off, k) + (u - OffsetOf(ocssd, lbal, off, k)) + 1
        BY <2>1, <4>1, LastOne
      <4> QED BY <2>2, <2>3, <4>2
    <3>2. PICK x \in Nat : /\ x = u - OffsetOf(ocssd, lbal, off, k) /\ x < Piece(len, off, k).len
                           /\ k \in 1 .. Pages(len, off) /\ PieceStart(off, k) + x + 1 \in J(u)
      <4>1. k \in Covering(ocssd, Pieces(len, off, Pages(len, off)), lbal, u)
        BY <2>2, <3>1
      <4>2. /\ k \in 1 .. Pages(len, off)
            /\ u - OffsetOf(ocssd, lbal, off, k) \in Nat
            /\ u - OffsetOf(ocssd, lbal, off, k) < Piece(len, off, k).len
            /\ PieceStart(off, k) + (u - OffsetOf(ocssd, lbal, off, k)) + 1
                 \in GoingTo(ocssd, lbal, len, u)
        BY <2>1, <4>1, CoverMeans
      <4> QED BY <2>3, <4>2
    <3>3. J(u) # {} /\ Max(J(u)) = PieceStart(off, k) + x + 1
      BY <3>1, <3>2
    <3>4. mem[Piece(len, off, k).base + x] = <<v, PieceStart(off, k) + x + 1>>
      <4>1. HostMem(v, len, off)[Piece(len, off, k).base + x] = <<v, PieceStart(off, k) + x + 1>>
        <5>1. /\ len \in Nat \ {0} /\ off \in Halves /\ k \in 1 .. Pages(len, off)
              /\ x \in Nat /\ x < Piece(len, off, k).len
          BY <1>1, <3>2
        <5> QED BY <5>1, PieceHolds, Zenon
      <4> QED BY <1>3, <4>1
    <3>5. PieceOffset(ocssd, sg, lbal, k) = OffsetOf(ocssd, lbal, off, k)
      BY <1>2, <3>2, OffsetIs
    <3>6. sg[k] = Piece(len, off, k)
      BY <1>2, <3>2
    <3>7. sg[k].base + u - PieceOffset(ocssd, sg, lbal, k) = Piece(len, off, k).base + x
      <4>1. Piece(len, off, k).base \in Nat /\ OffsetOf(ocssd, lbal, off, k) \in Nat
        <5>1. OffsetOf(ocssd, lbal, off, k) \in Nat
          BY <3>2, OffsetType
        <5>2. Piece(len, off, k).base \in Nat
          BY <1>1, <3>2 DEF Piece, BufPage, PageSize, Halves
        <5> QED BY <5>1, <5>2
      <4> QED BY <2>1, <3>2, <3>5, <3>6, <4>1
    <3>8. W(u) = mem[Piece(len, off, k).base + x]
      BY <2>5, <3>1, <3>7
    <3> HIDE DEF W
    <3> QED BY <3>3, <3>4, <3>8
  <2> QED BY <2>4, <2>5
<1> HIDE DEF W, X
<1> QED
  BY <1>4, <1>5, <1>6, <1>7

\* A read delivers to each half page of the buffer the half sector it is for.
LEMMA ReadIs ==
    ASSUME NEW ocssd, NEW lbal, NEW len, NEW off, Transfer(ocssd, lbal, len, off),
           logical_space = expected, ReadData(lbal, len, off, ocssd)
    PROVE  logical_space' = expected' /\ truthful' = TRUE
<1>1. len \in Nat \ {0} /\ off \in Halves
  BY DEF Transfer
<1>2. PICK np \in Nat : np = Pages(len, off)
  BY <1>1, PagesHold
<1>3. PICK sg : /\ sg = Pieces(len, off, Pages(len, off)) /\ sg = Mapped(0, len, off, TRUE).sg
                /\ DOMAIN sg = 1 .. np /\ \A k \in 1 .. np : sg[k] = Piece(len, off, k)
  <2>1. Mapped(0, len, off, TRUE).sg = Pieces(len, off, Pages(len, off))
    BY <1>1, EntriesLeadToBuffer
  <2>2. /\ DOMAIN Pieces(len, off, np) = 1 .. np
        /\ \A k \in 1 .. np : Pieces(len, off, np)[k] = Piece(len, off, k)
    BY <1>2, PiecesNext
  <2> QED BY <1>2, <2>1, <2>2
<1>4. PICK mem : mem = HostMem(0, len, off)
  OBVIOUS
<1>5. PICK got : got = backend_read(mem, sg, lbal, ocssd)
  OBVIOUS
<1>6. /\ truthful' = \A j \in 1 .. len : got[BufAddr(off, j)] = expected[Target(ocssd, lbal, j)]
      /\ logical_space' = logical_space /\ expected' = expected
  BY <1>3, <1>4, <1>5 DEF ReadData
<1>7. ASSUME NEW j \in 1 .. len
      PROVE  got[BufAddr(off, j)] = logical_space[Target(ocssd, lbal, j)]
  <2>1. PICK k \in 1 .. np, x \in Nat :
          /\ k = PieceOf(off, j) /\ x = j - 1 - PieceStart(off, k) /\ x < Piece(len, off, k).len
          /\ BufAddr(off, j) = Piece(len, off, k).base + x
    <3>1. PICK k \in 1 .. np :
            /\ k = PieceOf(off, j) /\ PieceStart(off, k) < j
            /\ j <= PieceStart(off, k) + Piece(len, off, k).len
            /\ BufAddr(off, j) = Piece(len, off, k).base + (j - 1 - PieceStart(off, k))
      BY <1>1, <1>2, HalfInPiece
    <3>2. PieceStart(off, k) \in Nat /\ Piece(len, off, k).len \in Nat
      BY <1>1, <1>2, PieceEnds DEF PageSize
    <3>3. /\ j - 1 - PieceStart(off, k) \in Nat
          /\ j - 1 - PieceStart(off, k) < Piece(len, off, k).len
      BY <1>1, <3>1, <3>2
    <3> QED BY <3>1, <3>3
  <2>2. PICK a : a = BufAddr(off, j)
    OBVIOUS
  <2>3. a \in DOMAIN mem
    <3>1. k \in 1 .. Pages(len, off)
      BY <1>2
    <3>2. Piece(len, off, k).base + x \in DOMAIN HostMem(0, len, off)
      BY <1>1, <2>1, <3>1, PieceHolds
    <3> QED BY <1>4, <2>1, <2>2, <3>2
  <2> DEFINE H == {i \in DOMAIN sg : a >= sg[i].base /\ a < sg[i].base + sg[i].len}
  <2>4. got[a] = IF H = {} THEN mem[a]
                 ELSE logical_space[PieceOffset(ocssd, sg, lbal, Max(H)) + a - sg[Max(H)].base]
    BY <1>5, <2>3 DEF backend_read
  <2>5. ASSUME NEW i \in 1 .. np
        PROVE  /\ sg[i].base \in {BufPage(i), BufPage(i) + 1} /\ sg[i].len \in 1 .. 2
               /\ sg[i].base + sg[i].len <= BufPage(i) + 2
               /\ BufPage(i) = 4 * i
    <3>1. sg[i] = Piece(len, off, i) /\ off \in 0 .. 1 /\ BufPage(i) = 4 * i
      <4>1. BufPage(i) = 4 * i
        BY DEF BufPage, PageSize
      <4>2. off \in 0 .. 1
        BY <1>1 DEF Halves, PageSize
      <4> QED BY <1>3, <4>1, <4>2
    <3>2. Piece(len, off, i).len \in 1 .. 2
      BY <1>1, <1>2, PieceEnds DEF PageSize
    <3>3. CASE i = 1
      <4>1. PICK n \in Int : n = len - 0
        BY <1>1
      <4>2. Piece(len, off, i).len = MinOf(n, 2 - off) /\ Piece(len, off, i).base = BufPage(i) + off
        BY <3>3, <4>1 DEF Piece, PieceStart, PieceRoom, PageSize
      <4> QED BY <3>1, <3>2, <4>1, <4>2 DEF MinOf
    <3>4. CASE i # 1
      BY <1>1, <1>2, <3>1, <3>2, <3>4, PieceEnds
    <3> QED BY <3>3, <3>4
  <2>6. sg[k].base \in Nat /\ a = sg[k].base + x /\ x < sg[k].len
    <3>1. sg[k] = Piece(len, off, k)
      BY <1>3
    <3>2. sg[k].base \in Nat
      <4>1. sg[k].base \in {BufPage(k), BufPage(k) + 1} /\ BufPage(k) = 4 * k
        BY <2>5
      <4> QED BY <4>1
    <3> QED BY <2>1, <2>2, <3>1, <3>2
  <2>7. H = {k}
    <3>1. k \in H
      <4>1. k \in DOMAIN sg
        BY <1>3
      <4>2. sg[k].len \in Nat
        <5>1. sg[k].len \in 1 .. 2
          BY <2>5
        <5> QED BY <5>1
      <4>3. a >= sg[k].base /\ a < sg[k].base + sg[k].len
        BY <2>6, <4>2
      <4> QED BY <4>1, <4>3
    <3>2. ASSUME NEW i \in H PROVE i = k
      <4>1. i \in 1 .. np /\ a >= sg[i].base /\ a < sg[i].base + sg[i].len
        BY <1>3
      <4>2. 4 * i <= a /\ a < 4 * i + 2
        BY <2>5, <2>6, <4>1
      <4>3. 4 * k <= a /\ a < 4 * k + 2
        BY <2>5, <2>6, <2>1
      <4> QED BY <4>1, <4>2, <4>3, <2>6, <2>1
    <3> QED BY <3>1, <3>2
  <2>8. Max(H) = k
    BY <2>7, MaxIs
  <2>9. PieceOffset(ocssd, sg, lbal, k) = OffsetOf(ocssd, lbal, off, k)
    BY <1>2, <1>3, <2>1, OffsetIs
  <2>10. OffsetOf(ocssd, lbal, off, k) \in Nat
    BY <1>2, <2>1, OffsetType
  <2>11. Target(ocssd, lbal, j) = OffsetOf(ocssd, lbal, off, k) + x
    BY <2>1, TargetIs
  <2>12. PieceOffset(ocssd, sg, lbal, k) + a - sg[k].base = Target(ocssd, lbal, j)
    BY <2>6, <2>9, <2>10, <2>11, <2>1
  <2> HIDE DEF H
  <2> QED BY <2>2, <2>4, <2>7, <2>8, <2>12
<1> QED
  BY <1>6, <1>7

\* A list of sectors is a transfer.
LEMMA ListIsTransfer ==
    ASSUME NEW addrs \in Seq(Nat), addrs # <<>>
    PROVE  Transfer(TRUE, SectorOffsets(addrs), PageSize * Len(addrs), 0)
<1>1. PICK n \in Nat \ {0} : n = Len(addrs) /\ DOMAIN addrs = 1 .. n
  <2>1. Len(addrs) \in Nat /\ Len(addrs) # 0 /\ DOMAIN addrs = 1 .. Len(addrs)
    BY EmptySeq, LenProperties
  <2> QED BY <2>1
<1>2. \A k \in 1 .. n : SectorOffsets(addrs)[k] \in Nat
  <2>1. \A k \in 1 .. n : addrs[k] \in Nat
    BY <1>1, ElementOfSeq
  <2> QED BY <1>1, <2>1 DEF SectorOffsets, PageSize
<1>3. PageSize * n \in Nat \ {0} /\ 0 \in Halves
  BY DEF PageSize, Halves
<1> QED
  BY <1>1, <1>2, <1>3 DEF Transfer

\* The backend holds what was acknowledged, and every read has said so.
ReadBackInv ==
    /\ ModeOK /\ lba_ds \in 1 .. PageSize
    /\ logical_space = expected
    /\ truthful = TRUE

\* Both are blank at first.
LEMMA ReadBackInit == Init => ReadBackInv
<1> SUFFICES ASSUME Init PROVE ReadBackInv
  OBVIOUS
<1>1. mode \in {"ocssd12", "ocssd20", "nossd", "bbssd"} /\ ModeOK
  BY ModesAssumption DEF Init, ModeOK
<1>2. lba_ds \in {PageSize, InitLba}
  BY <1>1 DEF Init, BlockInit
<1>3. lba_ds \in 1 .. PageSize
  BY <1>2, BlockAssumption DEF PageSize
<1> QED
  BY <1>1, <1>3 DEF ReadBackInv, Init, BackendInit

\* A transfer, or nothing, keeps the two in step.
LEMMA TransferKeeps ==
    ASSUME NEW ocssd, NEW lbal, NEW len, NEW off, Transfer(ocssd, lbal, len, off), NEW v,
           logical_space = expected, truthful = TRUE,
           \/ UNCHANGED backendVars
           \/ WriteData(lbal, len, v, off, ocssd)
           \/ ReadData(lbal, len, off, ocssd)
    PROVE  logical_space' = expected' /\ truthful' = TRUE
<1>1. CASE UNCHANGED backendVars
  BY <1>1 DEF backendVars
<1>2. CASE WriteData(lbal, len, v, off, ocssd)
  BY <1>2, WriteIs
<1>3. CASE ReadData(lbal, len, off, ocssd)
  BY <1>3, ReadIs
<1> QED
  BY <1>1, <1>2, <1>3

\* Every command of open-channel 1.2 is a transfer or leaves the backend alone.
LEMMA ReadBackOc12 ==
    ASSUME logical_space = expected, truthful = TRUE, Oc12Next
    PROVE  logical_space' = expected' /\ truthful' = TRUE
<1>1. ASSUME NEW psl \in Sendable \cup Refusable
      PROVE  Transfer(TRUE, SectorOffsets(psl), PageSize * Len(psl), 0)
  <2>1. psl \in Seq(Nat) /\ psl # <<>>
    BY Oc12Assumption DEF Sendable, Refusable
  <2> QED BY <2>1, ListIsTransfer
<1>2. ASSUME NEW psl \in Sendable \cup Refusable, NEW now \in Times, NEW v \in Vals,
             NEW oob \in Oobs \cup {"none"}, NEW prp_ok \in BOOLEAN,
             oc12_write(psl, now, v, oob, prp_ok)
      PROVE  logical_space' = expected' /\ truthful' = TRUE
  <2>1. \/ UNCHANGED backendVars
        \/ WriteData(SectorOffsets(psl), PageSize * Len(psl), v, 0, TRUE)
    BY <1>2 DEF oc12_write, oc12_refused
  <2> QED BY <1>1, <2>1, TransferKeeps
<1>3. ASSUME NEW psl \in Sendable \cup Refusable, NEW now \in Times, NEW prp_ok \in BOOLEAN,
             oc12_read(psl, now, prp_ok)
      PROVE  logical_space' = expected' /\ truthful' = TRUE
  <2>1. \/ UNCHANGED backendVars
        \/ ReadData(SectorOffsets(psl), PageSize * Len(psl), 0, TRUE)
    BY <1>3 DEF oc12_read, oc12_refused
  <2> QED BY <1>1, <2>1, TransferKeeps
<1>4. ASSUME NEW now \in Times, oc12_erase_async(now)
      PROVE  UNCHANGED backendVars
  BY <1>4 DEF oc12_erase_async
<1>5. ASSUME NEW psl \in Sendable, NEW value \in BbtValues, NEW prp_ok \in BOOLEAN,
             oc12_bbt_set(psl, value, prp_ok)
      PROVE  UNCHANGED backendVars
  BY <1>5 DEF oc12_bbt_set, oc12_refused
<1> QED
  BY <1>2, <1>3, <1>4, <1>5 DEF Oc12Next, backendVars

\* The same for open-channel 2.0.
LEMMA ReadBackOc20 ==
    ASSUME logical_space = expected, truthful = TRUE, Oc20Next
    PROVE  logical_space' = expected' /\ truthful' = TRUE
<1>1. ASSUME NEW lbas \in Vectors
      PROVE  Transfer(TRUE, SectorOffsets(lbas), PageSize * Len(lbas), 0)
  <2>1. lbas \in Seq(Nat) /\ lbas # <<>>
    BY Oc20Assumption
  <2> QED BY <2>1, ListIsTransfer
<1>2. ASSUME NEW lbas \in Vectors, NEW now \in Times, NEW v \in Vals, NEW prp_ok \in BOOLEAN,
             oc20_write(lbas, now, v, prp_ok)
      PROVE  logical_space' = expected' /\ truthful' = TRUE
  <2>1. \/ UNCHANGED backendVars
        \/ WriteData(SectorOffsets(lbas), PageSize * Len(lbas), v, 0, TRUE)
    BY <1>2 DEF oc20_write, Refused
  <2> QED BY <1>1, <2>1, TransferKeeps
<1>3. ASSUME NEW lbas \in ReadableVectors, NEW now \in Times, NEW prp_ok \in BOOLEAN,
             oc20_read(lbas, now, prp_ok)
      PROVE  logical_space' = expected' /\ truthful' = TRUE
  <2>1. \/ UNCHANGED backendVars
        \/ ReadData(SectorOffsets(lbas), PageSize * Len(lbas), 0, TRUE)
    BY <1>3 DEF oc20_read, Refused
  <2>2. lbas \in Vectors
    BY DEF ReadableVectors
  <2> QED BY <1>1, <2>1, <2>2, TransferKeeps
<1>4. ASSUME NEW lbas \in Vectors, NEW now \in Times, oc20_erase(lbas, now)
      PROVE  UNCHANGED backendVars
  BY <1>4 DEF oc20_erase
<1>5. ASSUME NEW cd \in HostDescs, oc20_set_log(cd[1], cd[2])
      PROVE  UNCHANGED backendVars
  BY <1>5 DEF oc20_set_log
<1> QED
  BY <1>2, <1>3, <1>4, <1>5 DEF Oc20Next, backendVars

\* The same for ranges of sectors, of the size the format selects.
LEMMA ReadBackBlock ==
    ASSUME logical_space = expected, truthful = TRUE, lba_ds \in 1 .. PageSize, BlockNext
    PROVE  logical_space' = expected' /\ truthful' = TRUE /\ lba_ds' \in 1 .. PageSize
<1>1. ASSUME NEW slba \in Slbas, NEW nlb \in Nlbs, NEW is_write \in BOOLEAN, NEW v \in Vals,
             NEW off \in 0 .. PageSize - 1, NEW prp_ok \in BOOLEAN,
             nvme_rw(slba, nlb, is_write, v, off, prp_ok)
      PROVE  logical_space' = expected' /\ truthful' = TRUE /\ lba_ds' \in 1 .. PageSize
  <2>1. /\ lba_ds' = lba_ds
        /\ \/ UNCHANGED backendVars
           \/ WriteData(<<slba * lba_ds>>, nlb * lba_ds, v, off, FALSE)
           \/ ReadData(<<slba * lba_ds>>, nlb * lba_ds, off, FALSE)
    BY <1>1 DEF nvme_rw, Answered, blockVars
  <2>2. slba * lba_ds \in Nat /\ nlb * lba_ds \in Nat \ {0} /\ off \in Halves
    <3>1. slba \in Nat /\ nlb \in Nat \ {0} /\ lba_ds \in 1 .. 2
      BY BlockAssumption DEF PageSize
    <3> QED BY <3>1 DEF Halves
  <2>3. Transfer(FALSE, <<slba * lba_ds>>, nlb * lba_ds, off)
    BY <2>2 DEF Transfer
  <2> QED BY <2>1, <2>3, TransferKeeps
<1>2. ASSUME NEW size \in LbaSizes, nvme_format(size)
      PROVE  UNCHANGED backendVars /\ lba_ds' \in 1 .. PageSize
  BY <1>2, BlockAssumption DEF nvme_format, nvme_format_namespace
<1> QED
  BY <1>1, <1>2 DEF BlockNext, backendVars

\* The same for the commands of every mode.
LEMMA ReadBackStep == ReadBackInv /\ [Next]_vars => ReadBackInv'
<1> SUFFICES ASSUME ReadBackInv, [Next]_vars PROVE ReadBackInv'
  OBVIOUS
<1>1. mode \in {"ocssd12", "ocssd20", "nossd", "bbssd"} /\ UNCHANGED mode /\ ModeOK'
  BY ModesAssumption DEF ReadBackInv, ModeOK, Next, vars
<1>2. ASSUME UNCHANGED backendVars, UNCHANGED lba_ds
      PROVE  ReadBackInv'
  BY <1>1, <1>2 DEF ReadBackInv, backendVars
<1>3. CASE UNCHANGED vars
  BY <1>2, <1>3 DEF vars, blockVars
<1>4. CASE nvme_io_cmd(Oncs[mode])
  <2>1. UNCHANGED backendVars /\ UNCHANGED lba_ds
    BY <1>4 DEF nvme_io_cmd, nvme_dsm, nvme_compare, nvme_write_zeros, nvme_write_uncor,
                nvme_flush, Answered, blockVars
  <2> QED BY <1>2, <2>1
<1>5. CASE Oc12Next /\ UNCHANGED blockVars
  BY <1>1, <1>5, ReadBackOc12 DEF ReadBackInv, blockVars
<1>6. CASE Oc20Next /\ UNCHANGED blockVars
  BY <1>1, <1>6, ReadBackOc20 DEF ReadBackInv, blockVars
<1>7. CASE BlockNext
  BY <1>1, <1>7, ReadBackBlock DEF ReadBackInv
<1>8. CASE UNCHANGED <<backendVars, blockVars>>
  BY <1>2, <1>8 DEF blockVars
<1> QED
  BY <1>1, <1>3, <1>4, <1>5, <1>6, <1>7, <1>8 DEF Next, nvme_register_extensions

\* In every mode, for every size of the drive and of its list pages, every offset of the
\* buffer and every list of sectors: each half page a read delivers is what the last
\* acknowledged write put there (nvme_map_prp's walk and backend_rw's copy).
THEOREM DataAlwaysReadBack == Spec => []DataReadBack
<1>1. Init => ReadBackInv
  BY ReadBackInit
<1>2. ReadBackInv /\ [Next]_vars => ReadBackInv'
  BY ReadBackStep
<1>3. ReadBackInv => DataReadBack
  BY DEF ReadBackInv, DataReadBack
<1> QED
  BY <1>1, <1>2, <1>3, PTL DEF Spec
=============================================================================
