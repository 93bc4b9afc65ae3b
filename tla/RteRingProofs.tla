---------------------------- MODULE RteRingProofs ---------------------------
(***************************************************************************)
(* The ring keeps its four indices in order for every number of producers  *)
(* and consumers, every size and every width of the index words: no slot   *)
(* is reserved twice or filled again before it was read and released.      *)
(*                                                                         *)
(* Indices wrap, so the argument measures each by its distance from the    *)
(* index s at which the ring was empty in the beginning. These distances   *)
(* never wrap, because no more than MaxObjects < IndexMod objects are      *)
(* reserved, and comparing them is comparing the reservations in time.     *)
(*                                                                         *)
(* From this order, and from what stands in the reserved slots, follows    *)
(* that the ring is a first-in first-out queue (RingImplementsFifo).       *)
(***************************************************************************)
EXTENDS RteRing, FiniteSetTheorems, SequenceTheorems, TLAPS

Word    == 0 .. IndexMod - 1
Threads == Producers \cup Consumers

Labels == {"idle", "head", "room", "entries", "cas", "copy", "publish", "nothing"}
Local  == [pc : Labels, old : Word, n : Nat, i : Nat, objs : Seq(Nat)]

TypeOK ==
  /\ prod \in [head : Word, tail : Word]
  /\ cons \in [head : Word, tail : Word]
  /\ ring \in [0 .. size - 1 -> Nat]
  /\ th \in [Threads -> Local]
  /\ sent \in 0 .. MaxObjects

(* How far index a is from s, where the ring was empty.                    *)
Pos(s, a) == Dist(s, a)
From(s, t) == Pos(s, th[t].old)
To(s, t)   == Pos(s, th[t].old) + th[t].n

Pending(p)  == th[p].pc \in {"head", "room", "cas"}
Reserved(t) == th[t].pc \in {"copy", "publish"}

(* The indices in their order.                                             *)
Ordered(s) ==
  /\ Pos(s, cons.tail) <= Pos(s, cons.head)
  /\ Pos(s, cons.head) <= Pos(s, prod.tail)
  /\ Pos(s, prod.tail) <= Pos(s, prod.head)
  /\ Pos(s, prod.head) <= Pos(s, cons.tail) + capacity

(* What a producer has read and reserved. A stale head is behind the head, *)
(* and room found for a head that is still current is still there.         *)
EnqOK(s, p) ==
  /\ th[p].pc # "idle" => th[p].n \in Nat \ {0} /\ Len(th[p].objs) = th[p].n
  /\ Pending(p) => th[p].i = 0
  /\ th[p].pc = "copy" => th[p].i < th[p].n
  /\ th[p].pc \in {"room", "cas"} => From(s, p) <= Pos(s, prod.head)
  /\ th[p].pc = "cas" /\ th[p].old = prod.head =>
       To(s, p) <= Pos(s, cons.tail) + capacity
  /\ Reserved(p) => /\ Pos(s, prod.tail) <= From(s, p)
                    /\ To(s, p) <= Pos(s, prod.head)

DeqOK(s, c) ==
  /\ th[c].pc \in {"entries", "cas"} => From(s, c) <= Pos(s, cons.head)
  /\ th[c].pc \in {"head", "entries", "cas", "copy", "publish"} =>
       th[c].n \in Nat \ {0}
  /\ th[c].pc = "cas" => To(s, c) <= Pos(s, prod.tail)
  /\ Reserved(c) => /\ Pos(s, cons.tail) <= From(s, c)
                    /\ To(s, c) <= Pos(s, cons.head)

(* Reservations of two threads of a side do not overlap.                   *)
Apart(s, t, u) ==
  Reserved(t) /\ Reserved(u) => To(s, t) <= From(s, u) \/ To(s, u) <= From(s, t)

(* A thread that is alone on its side has no reservation but its own.      *)
EnqAlone(s, p) ==
  /\ th[p].pc \in {"room", "cas"} => th[p].old = prod.head
  /\ Reserved(p)  => th[p].old = prod.tail /\ To(s, p) = Pos(s, prod.head)
  /\ ~Reserved(p) => prod.tail = prod.head

(* The same for a consumer, which also still finds what it counted.        *)
DeqAlone(s, c) ==
  /\ th[c].pc \in {"entries", "cas"} => th[c].old = cons.head
  /\ th[c].pc \in {"head", "entries"} => cons.head # prod.tail
  /\ th[c].pc # "nothing"
  /\ Reserved(c)  => th[c].old = cons.tail /\ To(s, c) = Pos(s, cons.head)
  /\ ~Reserved(c) => cons.tail = cons.head

(* The objects of a call that has reserved nothing yet.                    *)
Offered(p) == {th[p].objs[k] : k \in 1 .. th[p].n}

(* Objects of no such call: an upper bound of the slots ever reserved.     *)
Spent == {o \in 1 .. sent : \A p \in Producers : Pending(p) => o \notin Offered(p)}

OffersOK ==
  /\ \A p \in Producers : Pending(p) =>
       Offered(p) \subseteq 1 .. sent /\ Cardinality(Offered(p)) = th[p].n
  /\ \A p, q \in Producers : p # q /\ Pending(p) /\ Pending(q) =>
       Offered(p) \cap Offered(q) = {}

IndexInv(s) ==
  /\ TypeOK
  /\ Ordered(s)
  /\ \A p \in Producers : EnqOK(s, p)
  /\ \A c \in Consumers : DeqOK(s, c)
  /\ \A p, q \in Producers : p # q => Apart(s, p, q)
  /\ \A c, d \in Consumers : c # d => Apart(s, c, d)
  /\ single_prod => \A p \in Producers : EnqAlone(s, p)
  /\ single_cons => \A c \in Consumers : DeqAlone(s, c)
  /\ OffersOK
  /\ Pos(s, prod.head) <= Cardinality(Spent)

Inv == \E s \in Starts : IndexInv(s)

-----------------------------------------------------------------------------
(* Arithmetic of index words *)

(* A number below the modulus is its own remainder.                        *)
LEMMA ModLow ==
  ASSUME NEW m \in Nat \ {0}, NEW x \in 0 .. m - 1 PROVE x % m = x
OBVIOUS

(* One round above the modulus, the remainder is the excess ...            *)
LEMMA ModHigh ==
  ASSUME NEW m \in Nat \ {0}, NEW x \in m .. 2 * m - 1 PROVE x % m = x - m
OBVIOUS

(* ... and below zero, what is left of the modulus.                        *)
LEMMA ModBelow ==
  ASSUME NEW m \in Nat \ {0}, NEW x \in -m .. -1 PROVE x % m = x + m
OBVIOUS

(* How far b is ahead of a, as the 32-bit subtraction gives it.            *)
LEMMA DistValue ==
  ASSUME NEW a \in Word, NEW b \in Word
  PROVE  Dist(a, b) = IF b >= a THEN b - a ELSE b - a + IndexMod
<1>1. /\ IndexMod \in Nat \ {0} /\ a \in 0 .. IndexMod - 1
      /\ b \in 0 .. IndexMod - 1
  BY RingAssumption DEF Word
<1>2. CASE b >= a
  <2>1. b - a \in 0 .. IndexMod - 1
    BY <1>1, <1>2
  <2>2. (b - a) % IndexMod = b - a
    BY ONLY <1>1, <2>1, ModLow
  <2> QED
    BY <1>2, <2>2 DEF Dist
<1>3. CASE ~(b >= a)
  <2>1. b - a \in -IndexMod .. -1
    BY <1>1, <1>3
  <2>2. (b - a) % IndexMod = (b - a) + IndexMod
    BY ONLY <1>1, <2>1, ModBelow
  <2> QED
    BY <1>3, <2>2 DEF Dist
<1> QED
  BY <1>2, <1>3

(* The index n places on, as the 32-bit addition gives it.                 *)
LEMMA PlusValue ==
  ASSUME NEW a \in Word, NEW n \in 0 .. IndexMod
  PROVE  Plus(a, n) = IF a + n < IndexMod THEN a + n ELSE a + n - IndexMod
<1>1. IndexMod \in Nat \ {0} /\ a \in 0 .. IndexMod - 1
  BY RingAssumption DEF Word
<1>2. CASE a + n < IndexMod
  <2>1. a + n \in 0 .. IndexMod - 1
    BY <1>1, <1>2
  <2>2. (a + n) % IndexMod = a + n
    BY ONLY <1>1, <2>1, ModLow
  <2> QED
    BY <1>2, <2>2 DEF Plus
<1>3. CASE ~(a + n < IndexMod)
  <2>1. a + n \in IndexMod .. 2 * IndexMod - 1
    BY <1>1, <1>3
  <2>2. (a + n) % IndexMod = (a + n) - IndexMod
    BY ONLY <1>1, <2>1, ModHigh
  <2> QED
    BY <1>1, <1>3, <2>2 DEF Plus
<1> QED
  BY <1>2, <1>3

(* Distances from s tell index words apart.                                *)
LEMMA PosType ==
  ASSUME NEW s \in Word, NEW a \in Word
  PROVE  Pos(s, a) \in Word /\ Pos(s, a) \in Nat
BY DistValue, RingAssumption DEF Pos, Word

(* Two indices at one distance from the start are equal.                   *)
LEMMA PosInjective ==
  ASSUME NEW s \in Word, NEW a \in Word, NEW b \in Word, Pos(s, a) = Pos(s, b)
  PROVE  a = b
BY DistValue, RingAssumption DEF Pos, Word

(* Moving an index by n moves its distance by n, below the word's size.    *)
LEMMA PosPlus ==
  ASSUME NEW s \in Word, NEW a \in Word, NEW n \in Nat, Pos(s, a) + n < IndexMod
  PROVE  Plus(a, n) \in Word /\ Pos(s, Plus(a, n)) = Pos(s, a) + n
<1>1. n \in 0 .. IndexMod
  BY PosType, RingAssumption DEF Word
<1>2. Plus(a, n) = IF a + n < IndexMod THEN a + n ELSE a + n - IndexMod
  BY <1>1, PlusValue
<1>3. Plus(a, n) \in Word
  BY <1>1, <1>2, RingAssumption DEF Word
<1> QED
  BY <1>1, <1>2, <1>3, DistValue, RingAssumption DEF Pos, Word

(* The distance of two words is the difference of their distances.         *)
LEMMA DistPos ==
  ASSUME NEW s \in Word, NEW a \in Word, NEW b \in Word, Pos(s, a) <= Pos(s, b)
  PROVE  Dist(a, b) = Pos(s, b) - Pos(s, a)
BY DistValue, RingAssumption DEF Pos, Word

(* What is left of the capacity, computed as __rte_ring_move_prod_head     *)
(* does.                                                                   *)
LEMMA RoomValue ==
  ASSUME NEW s \in Word, NEW t \in Word, NEW h \in Word,
         Pos(s, t) <= Pos(s, h), Pos(s, h) <= Pos(s, t) + capacity
  PROVE  (capacity + t - h) % IndexMod = capacity - (Pos(s, h) - Pos(s, t))
<1>1. capacity \in Nat /\ capacity < IndexMod /\ IndexMod \in Nat \ {0}
  BY RingAssumption DEF capacity
<1>2. /\ Pos(s, t) = IF t >= s THEN t - s ELSE t - s + IndexMod
      /\ Pos(s, h) = IF h >= s THEN h - s ELSE h - s + IndexMod
  BY DistValue DEF Pos
<1>3. /\ t \in 0 .. IndexMod - 1 /\ h \in 0 .. IndexMod - 1
      /\ s \in 0 .. IndexMod - 1
  BY DEF Word
<1> DEFINE x == capacity + t - h
           d == capacity - (Pos(s, h) - Pos(s, t))
<1>4. x \in Int /\ d \in 0 .. IndexMod - 1 /\ (x = d \/ x = d - IndexMod \/ x = d + IndexMod)
  BY <1>1, <1>2, <1>3
<1> HIDE DEF x, d
<1>5. x % IndexMod = d
  <2>1. CASE x = d
    BY <1>1, <1>4, <2>1, ModLow
  <2>2. CASE x = d - IndexMod
    <3>1. x \in -IndexMod .. -1
      BY <1>1, <1>4, <2>2
    <3> QED
      BY <1>1, <1>4, <2>2, <3>1, ModBelow
  <2>3. CASE x = d + IndexMod
    <3>1. x \in IndexMod .. 2 * IndexMod - 1
      BY <1>1, <1>4, <2>3
    <3> QED
      BY <1>1, <1>4, <2>3, <3>1, ModHigh
  <2> QED
    BY <1>4, <2>1, <2>2, <2>3
<1> QED
  BY <1>5 DEF x, d

-----------------------------------------------------------------------------
(* Consequences of the invariant used by every action *)

(* The indices of the ring and of its threads are words.                   *)
LEMMA Words ==
  ASSUME NEW s \in Starts, TypeOK
  PROVE  /\ s \in Word
         /\ prod.head \in Word /\ prod.tail \in Word
         /\ cons.head \in Word /\ cons.tail \in Word
         /\ \A t \in Threads : th[t].old \in Word /\ th[t].n \in Nat
         /\ Pos(s, prod.head) \in Nat /\ Pos(s, prod.tail) \in Nat
         /\ Pos(s, cons.head) \in Nat /\ Pos(s, cons.tail) \in Nat
         /\ \A t \in Threads : From(s, t) \in Nat /\ To(s, t) \in Nat
<1>1. /\ s \in Word
      /\ prod.head \in Word /\ prod.tail \in Word
      /\ cons.head \in Word /\ cons.tail \in Word
  BY RingAssumption DEF TypeOK, Word
<1>2. \A t \in Threads : th[t].old \in Word /\ th[t].n \in Nat
  BY DEF TypeOK, Local
<1> QED
  BY <1>1, <1>2, PosType DEF From, To

(* Objects handed over are numbered up to sent, so no distance reaches the *)
(* width of the words.                                                     *)
SpentFacts ==
  /\ Spent \subseteq 1 .. sent
  /\ IsFiniteSet(Spent) /\ Cardinality(Spent) \in Nat
  /\ Cardinality(Spent) <= sent /\ sent < IndexMod

(* Fewer objects are spent than were offered, and these are bounded.       *)
LEMMA SpentBound == TypeOK => SpentFacts
<1> SUFFICES ASSUME TypeOK PROVE SpentFacts
  OBVIOUS
<1>1. sent \in Nat /\ sent < IndexMod
  BY RingAssumption DEF TypeOK
<1>2. IsFiniteSet(1 .. sent) /\ Cardinality(1 .. sent) = sent
  BY <1>1, FS_Interval
<1>3. Spent \in SUBSET (1 .. sent)
  BY DEF Spent
<1> HIDE DEF Spent
<1> QED
  BY <1>1, <1>2, <1>3, FS_Subset, FS_CardinalityType DEF SpentFacts

(* The same, after a step.                                                 *)
LEMMA SpentBoundNext == TypeOK' => SpentFacts'
BY SpentBound, PTL

(* A call that is about to reserve: its objects have not been reserved     *)
(* and there are as many as it will reserve.                               *)
LEMMA PendingBound ==
  ASSUME TypeOK, OffersOK, NEW p \in Producers, Pending(p)
  PROVE  /\ Cardinality(Spent \cup Offered(p)) = Cardinality(Spent) + th[p].n
         /\ Cardinality(Spent) + th[p].n <= sent
<1>1. /\ Spent \subseteq 1 .. sent /\ Offered(p) \subseteq 1 .. sent
      /\ Spent \cap Offered(p) = {} /\ Cardinality(Offered(p)) = th[p].n
  BY DEF Spent, OffersOK
<1>2. sent \in Nat
  BY DEF TypeOK
<1>3. IsFiniteSet(1 .. sent) /\ Cardinality(1 .. sent) = sent
  BY <1>2, FS_Interval
<1> HIDE DEF Spent, Offered
<1>4. IsFiniteSet(Spent) /\ IsFiniteSet(Offered(p))
  BY <1>1, <1>3, FS_Subset
<1>5. Cardinality(Spent \cup Offered(p)) = Cardinality(Spent) + Cardinality(Offered(p))
  <2>1. Cardinality(Spent \cap Offered(p)) = 0
    BY <1>1, FS_EmptySet
  <2>2. /\ Cardinality(Spent) \in Nat /\ Cardinality(Offered(p)) \in Nat
    BY <1>4, FS_CardinalityType
  <2>3. Cardinality(Spent \cup Offered(p)) =
          Cardinality(Spent) + Cardinality(Offered(p))
            - Cardinality(Spent \cap Offered(p))
    BY <1>4, FS_Union
  <2> QED
    BY <2>1, <2>2, <2>3
<1>6. Cardinality(Spent \cup Offered(p)) <= sent
  <2>1. Spent \cup Offered(p) \in SUBSET (1 .. sent)
    BY <1>1
  <2> QED
    BY <2>1, <1>3, FS_Subset
<1> QED
  BY <1>1, <1>5, <1>6

-----------------------------------------------------------------------------
(* Frames *)

(* A step of one thread leaves the others where they are.                  *)
LEMMA OneThread ==
  ASSUME TypeOK, NEW t \in Threads, NEW r \in Local, th' = [th EXCEPT ![t] = r]
  PROVE  /\ th' \in [Threads -> Local]
         /\ th'[t] = r
         /\ \A u \in Threads : u # t => th'[u] = th[u]
BY DEF TypeOK

(* Nothing new is offered: what a call no longer offers is spent.          *)
LEMMA OffersShrink ==
  ASSUME TypeOK, TypeOK', OffersOK, sent' = sent,
         \A p \in Producers : Pending(p)' =>
            Pending(p) /\ th'[p].objs = th[p].objs /\ th'[p].n = th[p].n
  PROVE  /\ OffersOK'
         /\ Cardinality(Spent) <= Cardinality(Spent)'
         /\ \A p \in Producers : Pending(p) /\ ~Pending(p)' =>
              Cardinality(Spent) + th[p].n <= Cardinality(Spent)'
<1>1. \A p \in Producers : Pending(p)' => Pending(p) /\ Offered(p)' = Offered(p)
  BY DEF Offered
<1>2. OffersOK'
  BY <1>1 DEF OffersOK
<1>3. IsFiniteSet(Spent') /\ Spent' \subseteq 1 .. sent
  BY SpentBoundNext DEF SpentFacts
<1>4. Spent \subseteq Spent'
  BY <1>1 DEF Spent
<1>5. Cardinality(Spent) <= Cardinality(Spent)'
  BY <1>3, <1>4, FS_Subset
<1>6. ASSUME NEW p \in Producers, Pending(p), ~Pending(p)'
      PROVE  Cardinality(Spent) + th[p].n <= Cardinality(Spent)'
  <2>1. Offered(p) \subseteq Spent'
    <3> SUFFICES ASSUME NEW o \in Offered(p) PROVE o \in Spent'
      OBVIOUS
    <3>1. o \in 1 .. sent'
      BY <1>6 DEF OffersOK
    <3>2. ASSUME NEW q \in Producers, Pending(q)' PROVE o \notin Offered(q)'
      <4>1. q # p
        BY <1>6, <3>2
      <4> QED
        BY <4>1, <1>1, <1>6, <3>2 DEF OffersOK
    <3> QED
      BY <3>1, <3>2 DEF Spent
  <2>2. Spent \cup Offered(p) \in SUBSET Spent'
    BY <1>4, <2>1
  <2>3. Cardinality(Spent \cup Offered(p)) <= Cardinality(Spent')
    BY <1>3, <2>2, FS_Subset
  <2> QED
    BY <1>6, <2>3, PendingBound
<1> QED
  BY <1>2, <1>5, <1>6

(* A step of thread t that moves no index and makes no reservation.        *)
LEMMA LocalStep ==
  ASSUME NEW s \in Starts, IndexInv(s), NEW t \in Threads, NEW r \in Local,
         th' = [th EXCEPT ![t] = r],
         UNCHANGED <<prod, cons, sent>>, ring' \in [0 .. size - 1 -> Nat],
         t \in Producers => EnqOK(s, t)' /\ (single_prod => EnqAlone(s, t)'),
         t \in Consumers => DeqOK(s, t)' /\ (single_cons => DeqAlone(s, t)'),
         Reserved(t)' => Reserved(t) /\ r.old = th[t].old /\ r.n = th[t].n,
         t \in Producers /\ Pending(t)' =>
           Pending(t) /\ r.objs = th[t].objs /\ r.n = th[t].n
  PROVE  IndexInv(s)'
<1>1. /\ th' \in [Threads -> Local] /\ th'[t] = r
      /\ \A u \in Threads : u # t => th'[u] = th[u]
  BY OneThread DEF IndexInv
<1>2. TypeOK'
  BY <1>1 DEF IndexInv, TypeOK
<1>3. Ordered(s)'
  BY DEF IndexInv, Ordered
<1>4. \A p \in Producers : EnqOK(s, p)'
  <2> SUFFICES ASSUME NEW p \in Producers, p # t PROVE EnqOK(s, p)'
    OBVIOUS
  <2>1. EnqOK(s, p) /\ th'[p] = th[p]
    BY <1>1 DEF IndexInv, Threads
  <2> QED
    BY <2>1 DEF EnqOK, From, To, Reserved, Pending
<1>5. \A c \in Consumers : DeqOK(s, c)'
  <2> SUFFICES ASSUME NEW c \in Consumers, c # t PROVE DeqOK(s, c)'
    OBVIOUS
  <2>1. DeqOK(s, c) /\ th'[c] = th[c]
    BY <1>1 DEF IndexInv, Threads
  <2> QED
    BY <2>1 DEF DeqOK, From, To, Reserved
<1>6. \A u, v \in Threads : u # v /\ Apart(s, u, v) => Apart(s, u, v)'
  BY <1>1 DEF Apart, From, To, Reserved
<1>7. /\ \A p, q \in Producers : p # q => Apart(s, p, q)'
      /\ \A c, d \in Consumers : c # d => Apart(s, c, d)'
  BY <1>6 DEF IndexInv, Threads
<1>8. single_prod => \A p \in Producers : EnqAlone(s, p)'
  <2> SUFFICES ASSUME single_prod, NEW p \in Producers, p # t PROVE EnqAlone(s, p)'
    OBVIOUS
  <2>1. EnqAlone(s, p) /\ th'[p] = th[p]
    BY <1>1 DEF IndexInv, Threads
  <2> QED
    BY <2>1 DEF EnqAlone, From, To, Reserved
<1>9. single_cons => \A c \in Consumers : DeqAlone(s, c)'
  <2> SUFFICES ASSUME single_cons, NEW c \in Consumers, c # t PROVE DeqAlone(s, c)'
    OBVIOUS
  <2>1. DeqAlone(s, c) /\ th'[c] = th[c]
    BY <1>1 DEF IndexInv, Threads
  <2> QED
    BY <2>1 DEF DeqAlone, From, To, Reserved
<1>10. /\ OffersOK' /\ Cardinality(Spent) <= Cardinality(Spent)'
  <2>1. \A p \in Producers : Pending(p)' =>
          Pending(p) /\ th'[p].objs = th[p].objs /\ th'[p].n = th[p].n
    BY <1>1 DEF Pending, Threads
  <2> QED
    BY <1>2, <2>1, OffersShrink DEF IndexInv
<1>11. Pos(s, prod.head)' <= Cardinality(Spent)'
  <2>1. /\ Pos(s, prod.head) \in Nat /\ Cardinality(Spent) \in Nat
        /\ Cardinality(Spent)' \in Nat
    BY <1>2, Words, SpentBound, SpentBoundNext DEF IndexInv, SpentFacts
  <2> QED
    BY <1>10, <2>1 DEF IndexInv
<1> QED
  BY <1>2, <1>3, <1>4, <1>5, <1>7, <1>8, <1>9, <1>10, <1>11 DEF IndexInv

-----------------------------------------------------------------------------
(* Steps of a producer *)

(* A producer reads the head and the tail of the consumers.                *)
LEMMA EnqReadHeadInv ==
  ASSUME NEW s \in Starts, IndexInv(s), NEW p \in Producers, EnqReadHead(p)
  PROVE  IndexInv(s)'
<1> DEFINE r == [th[p] EXCEPT !.old = prod.head, !.pc = "room"]
<1>1. /\ p \in Threads /\ p \notin Consumers /\ th[p] \in Local
      /\ prod.head \in Word
  BY RingAssumption, Words DEF Threads, IndexInv, TypeOK
<1>2. r \in Local /\ r.pc = "room" /\ r.old = prod.head /\ r.n = th[p].n
      /\ r.objs = th[p].objs /\ r.i = th[p].i
  BY <1>1 DEF Local, Labels
<1>3. /\ th[p].pc = "head" /\ th' = [th EXCEPT ![p] = r]
      /\ UNCHANGED <<prod, cons, ring, sent>>
  BY DEF EnqReadHead, At
<1> HIDE DEF r
<1>4. th'[p] = r
  BY <1>1, <1>2, <1>3, OneThread DEF IndexInv
<1>5. EnqOK(s, p)'
  <2>1. Pos(s, prod.head) \in Nat
    BY Words DEF IndexInv
  <2> QED
    BY <1>2, <1>3, <1>4, <2>1 DEF IndexInv, EnqOK, From, Reserved, Pending
<1>6. single_prod => EnqAlone(s, p)'
  BY <1>2, <1>3, <1>4 DEF IndexInv, EnqAlone, Reserved
<1>7. ~Reserved(p)' /\ Pending(p)
  BY <1>2, <1>3, <1>4 DEF Reserved, Pending
<1> QED
  BY <1>1, <1>2, <1>3, <1>5, <1>6, <1>7, LocalStep DEF IndexInv, TypeOK

(* The room found is that of a head which, if it is still current, has     *)
(* just been read.                                                         *)
LEMMA EnqCheckRoomInv ==
  ASSUME NEW s \in Starts, IndexInv(s), NEW p \in Producers, EnqCheckRoom(p)
  PROVE  IndexInv(s)'
<1> DEFINE r == IF th[p].n > free_entries(p) THEN Idle
                ELSE [th[p] EXCEPT !.pc = "cas"]
<1>1. /\ p \in Threads /\ p \notin Consumers /\ th[p] \in Local
      /\ prod.head \in Word /\ cons.tail \in Word /\ th[p].old \in Word
      /\ s \in Word
  BY RingAssumption, Words DEF Threads, IndexInv, TypeOK
<1>2. /\ th[p].pc = "room" /\ th' = [th EXCEPT ![p] = r]
      /\ UNCHANGED <<prod, cons, ring, sent>>
  BY DEF EnqCheckRoom, At
<1>3. CASE th[p].n > free_entries(p)
  <2>1. r = Idle /\ Idle \in Local
    BY <1>3, RingAssumption DEF Idle, Local, Labels, Word
  <2>2. th' = [th EXCEPT ![p] = Idle]
    BY <1>2, <2>1
  <2>3. th'[p] = Idle /\ Idle.pc = "idle"
    BY <1>1, <2>1, <2>2, OneThread DEF IndexInv, Idle
  <2>4. EnqOK(s, p)' /\ ~Reserved(p)' /\ ~Pending(p)'
    BY <2>3 DEF EnqOK, Reserved, Pending
  <2>5. single_prod => EnqAlone(s, p)'
    BY <1>2, <2>3 DEF IndexInv, EnqAlone, Reserved
  <2> QED
    BY <1>1, <1>2, <2>1, <2>2, <2>4, <2>5, LocalStep DEF IndexInv, TypeOK
<1>4. CASE ~(th[p].n > free_entries(p))
  <2>1. /\ r \in Local /\ r.pc = "cas" /\ r.old = th[p].old /\ r.n = th[p].n
        /\ r.objs = th[p].objs /\ r.i = th[p].i
    BY <1>1, <1>4 DEF Local, Labels
  <2> HIDE DEF r
  <2>2. th'[p] = r
    BY <1>1, <1>2, <2>1, OneThread DEF IndexInv
  <2>3. ASSUME th[p].old = prod.head
        PROVE  To(s, p) <= Pos(s, cons.tail) + capacity
    <3>1. /\ Pos(s, cons.tail) <= Pos(s, prod.head)
          /\ Pos(s, prod.head) <= Pos(s, cons.tail) + capacity
      BY Words DEF IndexInv, Ordered
    <3>2. free_entries(p) = capacity - (Pos(s, prod.head) - Pos(s, cons.tail))
      BY <1>1, <2>3, <3>1, RoomValue DEF free_entries
    <3>3. /\ th[p].n \in Nat /\ capacity \in Nat /\ Pos(s, prod.head) \in Nat
          /\ Pos(s, cons.tail) \in Nat
      BY <1>1, Words, RingAssumption DEF IndexInv, capacity
    <3> QED
      BY <1>4, <2>3, <3>2, <3>3 DEF To
  <2>4. EnqOK(s, p)'
    BY <1>2, <2>1, <2>2, <2>3 DEF IndexInv, EnqOK, From, To, Reserved, Pending
  <2>5. single_prod => EnqAlone(s, p)'
    BY <1>2, <2>1, <2>2 DEF IndexInv, EnqAlone, Reserved
  <2>6. ~Reserved(p)' /\ Pending(p)
    BY <1>2, <2>1, <2>2 DEF Reserved, Pending
  <2> QED
    BY <1>1, <1>2, <2>1, <2>4, <2>5, <2>6, LocalStep DEF IndexInv, TypeOK
<1> QED
  BY <1>3, <1>4

(* The compare-and-set succeeds only if the head has not moved at all      *)
(* since it was read, since a distance determines the index: so the room   *)
(* found is there, and the slots reserved are nobody else's.               *)
LEMMA EnqMoveHeadInv ==
  ASSUME NEW s \in Starts, IndexInv(s), NEW p \in Producers, EnqMoveHead(p)
  PROVE  IndexInv(s)'
<1>1. /\ p \in Threads /\ p \notin Consumers /\ th[p] \in Local
      /\ prod.head \in Word /\ th[p].old \in Word /\ s \in Word
      /\ th[p].n \in Nat
      /\ Pos(s, prod.head) \in Nat /\ Pos(s, prod.tail) \in Nat
      /\ Pos(s, cons.head) \in Nat /\ Pos(s, cons.tail) \in Nat
      /\ capacity \in Nat /\ IndexMod \in Nat
  <2>1. p \in Threads /\ p \notin Consumers /\ TypeOK
    BY RingAssumption DEF Threads, IndexInv
  <2>2. th[p] \in Local
    BY <2>1 DEF TypeOK
  <2>3. capacity \in Nat /\ IndexMod \in Nat
    BY RingAssumption DEF capacity
  <2> QED
    BY <2>1, <2>2, <2>3, Words
<1>2. th[p].pc = "cas" /\ UNCHANGED <<cons, ring, sent>>
  BY DEF EnqMoveHead, At
<1>3. CASE ~(single_prod \/ prod.head = th[p].old)
  <2> DEFINE r == [th[p] EXCEPT !.pc = "head"]
  <2>1. /\ r \in Local /\ r.pc = "head" /\ r.n = th[p].n /\ r.objs = th[p].objs
        /\ r.i = th[p].i
    BY <1>1 DEF Local, Labels
  <2>2. th' = [th EXCEPT ![p] = r] /\ prod' = prod
    BY <1>3 DEF EnqMoveHead
  <2> HIDE DEF r
  <2>3. th'[p] = r
    BY <1>1, <2>1, <2>2, OneThread DEF IndexInv
  <2>4. EnqOK(s, p)'
    BY <1>2, <2>1, <2>2, <2>3 DEF IndexInv, EnqOK, Reserved, Pending
  <2>5. ~Reserved(p)' /\ Pending(p)
    BY <1>2, <2>1, <2>3 DEF Reserved, Pending
  <2> QED
    BY <1>1, <1>2, <1>3, <2>1, <2>2, <2>4, <2>5, LocalStep DEF IndexInv, TypeOK
<1>4. CASE single_prod \/ prod.head = th[p].old
  <2> DEFINE r == [th[p] EXCEPT !.pc = "copy"]
             h == Plus(th[p].old, th[p].n)
  <2>1. /\ r \in Local /\ r.pc = "copy" /\ r.old = th[p].old /\ r.n = th[p].n
        /\ r.objs = th[p].objs /\ r.i = th[p].i
    BY <1>1 DEF Local, Labels
  <2>2. th' = [th EXCEPT ![p] = r] /\ prod' = [prod EXCEPT !.head = h]
    BY <1>4 DEF EnqMoveHead
  <2>3. /\ th'[p] = r /\ th' \in [Threads -> Local]
        /\ \A u \in Threads : u # p => th'[u] = th[u]
    BY <1>1, <2>1, <2>2, OneThread DEF IndexInv
  <2>4. th[p].old = prod.head
    BY <1>2, <1>4 DEF IndexInv, EnqAlone
  <2>5. Pending(p) /\ ~Reserved(p)
    BY <1>2 DEF Pending, Reserved
  <2>6. Pos(s, prod.head) + th[p].n < IndexMod
    <3>1. /\ TypeOK /\ OffersOK /\ Pos(s, prod.head) <= Cardinality(Spent)
      BY DEF IndexInv
    <3>2. sent \in Nat
      BY <3>1 DEF TypeOK
    <3>3. Cardinality(Spent) + th[p].n <= sent
      BY <2>5, <3>1, PendingBound
    <3>4. sent < IndexMod /\ Cardinality(Spent) \in Nat
      BY <3>1, SpentBound DEF SpentFacts
    <3> QED
      BY <1>1, <3>1, <3>2, <3>3, <3>4
  <2>7. h \in Word /\ Pos(s, h) = Pos(s, prod.head) + th[p].n
    BY <1>1, <2>4, <2>6, PosPlus
  <2>8. prod'.head = h /\ prod'.tail = prod.tail /\ cons' = cons
    BY <1>2, <2>2 DEF IndexInv, TypeOK
  <2> HIDE DEF r, h
  <2>9. TypeOK'
    BY <1>2, <2>2, <2>3, <2>7 DEF IndexInv, TypeOK
  <2>10. /\ th[p].n >= 1 /\ From(s, p) = Pos(s, prod.head)
         /\ To(s, p) = Pos(s, h)
         /\ Pos(s, h) <= Pos(s, cons.tail) + capacity
    BY <1>1, <1>2, <2>4, <2>7 DEF IndexInv, EnqOK, From, To
  <2>11. Ordered(s)'
    BY <1>1, <2>7, <2>8, <2>10 DEF IndexInv, Ordered
  <2>12. EnqOK(s, p)'
    <3>1. th'[p].i < th'[p].n /\ Len(th'[p].objs) = th'[p].n
      BY <1>2, <2>1, <2>3, <2>5 DEF IndexInv, EnqOK
    <3>2. Pos(s, prod.tail) <= From(s, p)' /\ To(s, p)' <= Pos(s, h)
      BY <1>1, <2>1, <2>3, <2>10 DEF IndexInv, Ordered, From, To
    <3> QED
      BY <1>1, <2>1, <2>3, <2>8, <2>10, <3>1, <3>2 DEF EnqOK, Pending
  <2>13. ASSUME NEW q \in Producers, q # p PROVE EnqOK(s, q)'
    <3>1. EnqOK(s, q) /\ th'[q] = th[q] /\ q \in Threads
      BY <2>3, <2>13 DEF IndexInv, Threads
    <3>2. th[q].pc \in {"room", "cas"} => From(s, q) < Pos(s, h) /\ th[q].old # h
      BY <1>1, <2>7, <2>10, <3>1, Words DEF IndexInv, EnqOK, From
    <3>3. Reserved(q) => To(s, q) <= Pos(s, h)
      BY <1>1, <2>7, <2>10, <3>1, Words DEF IndexInv, EnqOK
    <3>4. From(s, q) \in Nat /\ Pos(s, h) \in Nat
      BY <1>1, <2>7, <3>1, Words DEF IndexInv
    <3> QED
      BY <2>8, <3>1, <3>2, <3>3, <3>4 DEF EnqOK, From, To, Reserved, Pending
  <2>14. \A c \in Consumers : DeqOK(s, c)'
    <3> SUFFICES ASSUME NEW c \in Consumers PROVE DeqOK(s, c)'
      OBVIOUS
    <3>1. DeqOK(s, c) /\ th'[c] = th[c]
      BY <1>1, <2>3 DEF IndexInv, Threads
    <3> QED
      BY <2>8, <3>1 DEF DeqOK, From, To, Reserved
  <2>15. ASSUME NEW q \in Producers, q # p PROVE Apart(s, p, q)' /\ Apart(s, q, p)'
    <3>1. th'[q] = th[q] /\ From(s, p)' = Pos(s, prod.head)
      BY <2>1, <2>3, <2>10, <2>15 DEF Threads, From
    <3>2. Reserved(q) => To(s, q) <= Pos(s, prod.head)
      BY DEF IndexInv, EnqOK
    <3> QED
      BY <3>1, <3>2 DEF Apart, From, To, Reserved
  <2>16. \A q, u \in Producers : q # u => Apart(s, q, u)'
    <3> SUFFICES ASSUME NEW q \in Producers, NEW u \in Producers, q # u,
                        q # p, u # p
                 PROVE  Apart(s, q, u)'
      BY <2>15
    <3>1. Apart(s, q, u) /\ th'[q] = th[q] /\ th'[u] = th[u]
      BY <2>3 DEF IndexInv, Threads
    <3> QED
      BY <3>1 DEF Apart, From, To, Reserved
  <2>17. \A c, d \in Consumers : c # d => Apart(s, c, d)'
    <3> SUFFICES ASSUME NEW c \in Consumers, NEW d \in Consumers, c # d
                 PROVE  Apart(s, c, d)'
      OBVIOUS
    <3>1. Apart(s, c, d) /\ th'[c] = th[c] /\ th'[d] = th[d]
      BY <1>1, <2>3 DEF IndexInv, Threads
    <3> QED
      BY <3>1 DEF Apart, From, To, Reserved
  <2>18. single_prod => \A q \in Producers : EnqAlone(s, q)'
    <3> SUFFICES ASSUME single_prod PROVE EnqAlone(s, p)'
      BY SingleAssumption
    <3>1. prod.tail = prod.head
      BY <2>5 DEF IndexInv, EnqAlone
    <3>2. Reserved(p)' /\ th'[p].old = prod'.tail /\ To(s, p)' = Pos(s, prod'.head)
      BY <2>1, <2>3, <2>4, <2>8, <2>10, <3>1 DEF Reserved, To
    <3> QED
      BY <2>1, <2>3, <3>2 DEF EnqAlone
  <2>19. single_cons => \A c \in Consumers : DeqAlone(s, c)'
    <3> SUFFICES ASSUME single_cons, NEW c \in Consumers PROVE DeqAlone(s, c)'
      OBVIOUS
    <3>1. DeqAlone(s, c) /\ th'[c] = th[c]
      BY <1>1, <2>3 DEF IndexInv, Threads
    <3> QED
      BY <2>8, <3>1 DEF DeqAlone, From, To, Reserved
  <2>20. /\ OffersOK'
         /\ Cardinality(Spent) + th[p].n <= Cardinality(Spent)'
    <3>1. \A q \in Producers : Pending(q)' =>
            Pending(q) /\ th'[q].objs = th[q].objs /\ th'[q].n = th[q].n
      BY <2>1, <2>3 DEF Pending, Threads
    <3>2. ~Pending(p)'
      BY <2>1, <2>3 DEF Pending
    <3> QED
      BY <1>2, <2>5, <2>9, <3>1, <3>2, OffersShrink DEF IndexInv
  <2>21. Pos(s, prod.head)' <= Cardinality(Spent)'
    BY <1>1, <2>7, <2>8, <2>9, <2>20, SpentBound, SpentBoundNext
       DEF IndexInv, SpentFacts
  <2> QED
    BY <2>9, <2>11, <2>12, <2>13, <2>14, <2>16, <2>17, <2>18, <2>19, <2>20, <2>21
       DEF IndexInv
<1> QED
  BY <1>3, <1>4

(* A producer writes its object into the slot it reserved.                 *)
LEMMA EnqCopyInv ==
  ASSUME NEW s \in Starts, IndexInv(s), NEW p \in Producers, EnqCopy(p)
  PROVE  IndexInv(s)'
<1> DEFINE l == IF th[p].i + 1 = th[p].n THEN "publish" ELSE "copy"
           r == [th[p] EXCEPT !.i = th[p].i + 1, !.pc = l]
<1>1. /\ p \in Threads /\ p \notin Consumers /\ th[p] \in Local
      /\ th[p].n \in Nat /\ th[p].i \in Nat /\ th[p].objs \in Seq(Nat)
  BY RingAssumption DEF Threads, IndexInv, TypeOK, Local
<1>2. /\ r \in Local /\ r.pc \in {"copy", "publish"} /\ r.old = th[p].old
      /\ r.n = th[p].n /\ r.objs = th[p].objs /\ r.i = th[p].i + 1
      /\ r.pc = "copy" => th[p].i + 1 # th[p].n
  <2>1. l \in {"copy", "publish"} /\ (l = "copy" => th[p].i + 1 # th[p].n)
    OBVIOUS
  <2>2. l \in Labels /\ th[p].i + 1 \in Nat
    BY <1>1 DEF Labels
  <2> HIDE DEF l
  <2> QED
    <3>1. PICK k \in Nat : k = th[p].i + 1
      BY <2>2
    <3>2. r = [th[p] EXCEPT !.i = k, !.pc = l]
      BY <3>1, Zenon
    <3>3. /\ r \in Local /\ r.pc = l /\ r.old = th[p].old /\ r.n = th[p].n
          /\ r.objs = th[p].objs /\ r.i = k
      <4>1. PICK o \in Local : o = th[p]
        BY <1>1
      <4>2. r = [o EXCEPT !.i = k, !.pc = l]
        BY <3>2, <4>1
      <4> HIDE DEF r
      <4> QED
        BY ONLY o \in Local, k \in Nat, <2>2, <4>1, <4>2 DEF Local
    <3> QED
      BY <2>1, <3>1, <3>3
<1>3. /\ th[p].pc = "copy" /\ th' = [th EXCEPT ![p] = r]
      /\ ring' = [ring EXCEPT ![Slot(th[p].old + th[p].i)] = th[p].objs[th[p].i + 1]]
      /\ UNCHANGED <<prod, cons, sent>>
  BY DEF EnqCopy, At
<1> HIDE DEF r
<1>4. th'[p] = r
  BY <1>1, <1>2, <1>3, OneThread DEF IndexInv
<1>5. th[p].i < th[p].n /\ Len(th[p].objs) = th[p].n
  BY <1>3 DEF IndexInv, EnqOK
<1>6. ring' \in [0 .. size - 1 -> Nat]
  <2>1. th[p].objs[th[p].i + 1] \in Nat
    BY <1>1, <1>5
  <2> QED
    BY <1>3, <2>1 DEF IndexInv, TypeOK
<1>7. EnqOK(s, p)'
  BY <1>1, <1>2, <1>3, <1>4, <1>5 DEF IndexInv, EnqOK, From, To, Reserved, Pending
<1>8. single_prod => EnqAlone(s, p)'
  BY <1>2, <1>3, <1>4 DEF IndexInv, EnqAlone, From, To, Reserved
<1>9. Reserved(p) /\ ~Pending(p)'
  BY <1>2, <1>3, <1>4 DEF Reserved, Pending
<1> QED
  BY <1>1, <1>2, <1>3, <1>6, <1>7, <1>8, <1>9, LocalStep DEF IndexInv

(* The tail moves over the reservation that follows it: another one that   *)
(* is not published yet starts behind it.                                  *)
LEMMA EnqUpdateTailInv ==
  ASSUME NEW s \in Starts, IndexInv(s), NEW p \in Producers, EnqUpdateTail(p)
  PROVE  IndexInv(s)'
<1> DEFINE e == Plus(th[p].old, th[p].n)
<1>1. /\ p \in Threads /\ p \notin Consumers
      /\ prod.head \in Word /\ prod.tail \in Word /\ cons.head \in Word
      /\ th[p].old \in Word /\ s \in Word /\ th[p].n \in Nat
      /\ Pos(s, prod.head) \in Nat /\ Pos(s, prod.tail) \in Nat
      /\ Pos(s, cons.head) \in Nat /\ Pos(s, cons.tail) \in Nat
      /\ From(s, p) \in Nat
  <2>1. p \in Threads /\ p \notin Consumers /\ TypeOK
    BY RingAssumption DEF Threads, IndexInv
  <2> QED
    BY <2>1, Words
<1>2. /\ th[p].pc = "publish" /\ th' = [th EXCEPT ![p] = Idle]
      /\ prod' = [prod EXCEPT !.tail = e] /\ UNCHANGED <<cons, ring, sent>>
  BY DEF EnqUpdateTail, At
<1>3. Reserved(p) /\ th[p].old = prod.tail
  BY <1>2 DEF EnqUpdateTail, IndexInv, EnqAlone, Reserved
<1>4. /\ From(s, p) = Pos(s, prod.tail) /\ To(s, p) = Pos(s, prod.tail) + th[p].n
      /\ To(s, p) <= Pos(s, prod.head) /\ th[p].n >= 1
  BY <1>1, <1>2, <1>3 DEF IndexInv, EnqOK, From, To
<1>5. e \in Word /\ Pos(s, e) = To(s, p)
  <2>1. Pos(s, prod.head) < IndexMod /\ IndexMod \in Nat
    <3>1. Pos(s, prod.head) \in Word
      BY <1>1, PosType
    <3> QED
      BY <3>1, RingAssumption DEF Word
  <2>2. Pos(s, th[p].old) = Pos(s, prod.tail)
    BY <1>3
  <2>3. Pos(s, th[p].old) + th[p].n < IndexMod
    BY <1>1, <1>4, <2>1, <2>2
  <2> QED
    BY <1>1, <2>3, PosPlus DEF To
<1>6. Idle \in Local /\ Idle.pc = "idle"
  BY RingAssumption DEF Idle, Local, Labels, Word
<1>7. /\ th'[p] = Idle /\ th' \in [Threads -> Local]
      /\ \A u \in Threads : u # p => th'[u] = th[u]
  BY <1>1, <1>2, <1>6, OneThread DEF IndexInv
<1>8. prod'.tail = e /\ prod'.head = prod.head /\ cons' = cons
  BY <1>2 DEF IndexInv, TypeOK
<1> HIDE DEF e
<1>9. TypeOK'
  BY <1>2, <1>5, <1>7 DEF IndexInv, TypeOK
<1>10. Ordered(s)'
  BY <1>1, <1>4, <1>5, <1>8 DEF IndexInv, Ordered
<1>11. ~Reserved(p)' /\ ~Pending(p)' /\ EnqOK(s, p)'
  BY <1>6, <1>7 DEF Reserved, Pending, EnqOK
<1>12. ASSUME NEW q \in Producers, q # p PROVE EnqOK(s, q)'
  <2>1. EnqOK(s, q) /\ th'[q] = th[q] /\ q \in Threads
    BY <1>7, <1>12 DEF IndexInv, Threads
  <2>2. From(s, q) \in Nat /\ th[q].n \in Nat
    BY <2>1, Words DEF IndexInv
  <2>3. Reserved(q) => Pos(s, e) <= From(s, q)
    <3>1. Reserved(q) => th[q].n >= 1 /\ Pos(s, prod.tail) <= From(s, q)
      BY <2>1, <2>2 DEF EnqOK, Reserved
    <3>2. Apart(s, p, q)
      BY <1>12 DEF IndexInv
    <3> QED
      BY <1>1, <1>3, <1>4, <1>5, <2>2, <3>1, <3>2 DEF Apart, From, To
  <2> QED
    BY <1>8, <2>1, <2>3 DEF EnqOK, From, To, Reserved, Pending
<1>13. \A c \in Consumers : DeqOK(s, c)'
  <2> SUFFICES ASSUME NEW c \in Consumers PROVE DeqOK(s, c)'
    OBVIOUS
  <2>1. DeqOK(s, c) /\ th'[c] = th[c] /\ To(s, c) \in Nat
    BY <1>1, <1>7, Words DEF IndexInv, Threads
  <2>2. th[c].pc = "cas" => To(s, c) <= Pos(s, e)
    BY <1>1, <1>4, <1>5, <2>1 DEF DeqOK
  <2> QED
    BY <1>8, <2>1, <2>2 DEF DeqOK, From, To, Reserved
<1>14. \A q, u \in Producers : q # u => Apart(s, q, u)'
  <2> SUFFICES ASSUME NEW q \in Producers, NEW u \in Producers, q # u,
                      q # p, u # p
               PROVE  Apart(s, q, u)'
    BY <1>11 DEF Apart
  <2>1. Apart(s, q, u) /\ th'[q] = th[q] /\ th'[u] = th[u]
    BY <1>7 DEF IndexInv, Threads
  <2> QED
    BY <2>1 DEF Apart, From, To, Reserved
<1>15. \A c, d \in Consumers : c # d => Apart(s, c, d)'
  <2> SUFFICES ASSUME NEW c \in Consumers, NEW d \in Consumers, c # d
               PROVE  Apart(s, c, d)'
    OBVIOUS
  <2>1. Apart(s, c, d) /\ th'[c] = th[c] /\ th'[d] = th[d]
    BY <1>1, <1>7 DEF IndexInv, Threads
  <2> QED
    BY <2>1 DEF Apart, From, To, Reserved
<1>16. single_prod => \A q \in Producers : EnqAlone(s, q)'
  <2> SUFFICES ASSUME single_prod PROVE EnqAlone(s, p)'
    BY SingleAssumption
  <2>1. Pos(s, e) = Pos(s, prod.head)
    BY <1>3, <1>5 DEF IndexInv, EnqAlone
  <2>2. e = prod.head
    BY <1>1, <1>5, <2>1, PosInjective
  <2> QED
    BY <1>6, <1>7, <1>8, <1>11, <2>2 DEF EnqAlone
<1>17. single_cons => \A c \in Consumers : DeqAlone(s, c)'
  <2> SUFFICES ASSUME single_cons, NEW c \in Consumers PROVE DeqAlone(s, c)'
    OBVIOUS
  <2>1. DeqAlone(s, c) /\ th'[c] = th[c]
    BY <1>1, <1>7 DEF IndexInv, Threads
  <2>2. cons.head # e
    BY <1>1, <1>4, <1>5 DEF IndexInv, Ordered
  <2> QED
    BY <1>8, <2>1, <2>2 DEF DeqAlone, From, To, Reserved
<1>18. /\ OffersOK' /\ Cardinality(Spent) <= Cardinality(Spent)'
  <2>1. \A q \in Producers : Pending(q)' =>
          Pending(q) /\ th'[q].objs = th[q].objs /\ th'[q].n = th[q].n
    BY <1>7, <1>11 DEF Pending, Threads
  <2> QED
    BY <1>2, <1>9, <2>1, OffersShrink DEF IndexInv
<1>19. Pos(s, prod.head)' <= Cardinality(Spent)'
  BY <1>1, <1>8, <1>9, <1>18, SpentBound, SpentBoundNext DEF IndexInv, SpentFacts
<1> QED
  BY <1>9, <1>10, <1>11, <1>12, <1>13, <1>14, <1>15, <1>16, <1>17, <1>18, <1>19
     DEF IndexInv

(* The locals at the beginning of a call.                                  *)
LEMMA NewCall ==
  ASSUME NEW r, NEW n \in Nat, NEW objs \in Seq(Nat),
         r = [Idle EXCEPT !.pc = "head", !.n = n, !.objs = objs]
  PROVE  /\ r \in Local /\ r.pc = "head" /\ r.n = n /\ r.objs = objs /\ r.i = 0
<1>1. 0 \in Word /\ "head" \in Labels
  BY RingAssumption DEF Word, Labels
<1> QED
  BY <1>1 DEF Idle, Local

(* A new call offers objects that were never offered before.               *)
LEMMA EnqueueInv ==
  ASSUME NEW s \in Starts, IndexInv(s), NEW p \in Producers, NEW n \in 1 .. MaxBurst,
         femu_ring_enqueue(p, n)
  PROVE  IndexInv(s)'
<1> DEFINE objs == [k \in 1 .. n |-> sent + k]
           r == [Idle EXCEPT !.pc = "head", !.n = n, !.objs = objs]
<1>1. /\ p \in Threads /\ p \notin Consumers /\ TypeOK
      /\ n \in Nat \ {0} /\ sent \in Nat
  BY RingAssumption DEF Threads, IndexInv, TypeOK
<1>2. objs \in Seq(Nat) /\ Len(objs) = n
  BY <1>1
<1>3. {objs[k] : k \in 1 .. n} = sent + 1 .. sent + n
  <2>1. ASSUME NEW o \in sent + 1 .. sent + n PROVE o \in {objs[k] : k \in 1 .. n}
    <3>1. o - sent \in 1 .. n /\ o = objs[o - sent]
      BY <1>1
    <3> QED
      BY <3>1
  <2>2. ASSUME NEW k \in 1 .. n PROVE objs[k] \in sent + 1 .. sent + n
    BY <1>1
  <2> QED
    BY <2>1, <2>2
<1> HIDE DEF objs
<1>4. /\ r \in Local /\ r.pc = "head" /\ r.n = n /\ r.objs = objs /\ r.i = 0
  <2> HIDE DEF r
  <2>1. r = [Idle EXCEPT !.pc = "head", !.n = n, !.objs = objs]
    BY DEF r
  <2> QED
    BY ONLY n \in Nat \ {0}, <1>2, <2>1, NewCall
<1>5. /\ th[p].pc = "idle" /\ th' = [th EXCEPT ![p] = r]
      /\ sent + n <= MaxObjects /\ sent' = sent + n
      /\ UNCHANGED <<prod, cons, ring>>
  BY DEF femu_ring_enqueue, At, objs
<1> HIDE DEF r
<1>6. /\ th'[p] = r /\ th' \in [Threads -> Local]
      /\ \A u \in Threads : u # p => th'[u] = th[u]
  BY <1>1, <1>4, <1>5, OneThread
<1>7. TypeOK'
  BY <1>1, <1>5, <1>6, RingAssumption DEF TypeOK
<1>8. Ordered(s)'
  BY <1>5 DEF IndexInv, Ordered
<1>9. /\ EnqOK(s, p)' /\ ~Reserved(p)' /\ ~Reserved(p)
      /\ single_prod => EnqAlone(s, p)'
  BY <1>1, <1>2, <1>4, <1>5, <1>6
     DEF IndexInv, EnqOK, EnqAlone, Reserved, Pending
<1>10. ASSUME NEW q \in Producers, q # p PROVE EnqOK(s, q)'
  <2>1. EnqOK(s, q) /\ th'[q] = th[q]
    BY <1>6, <1>10 DEF IndexInv, Threads
  <2> QED
    BY <1>5, <2>1 DEF EnqOK, From, To, Reserved, Pending
<1>11. ASSUME NEW c \in Consumers
       PROVE  DeqOK(s, c)' /\ (single_cons => DeqAlone(s, c)')
  <2>1. DeqOK(s, c) /\ (single_cons => DeqAlone(s, c)) /\ th'[c] = th[c]
    BY <1>1, <1>6 DEF IndexInv, Threads
  <2> QED
    BY <1>5, <2>1 DEF DeqOK, DeqAlone, From, To, Reserved
<1>12. \A u, v \in Threads : u # v /\ Apart(s, u, v) => Apart(s, u, v)'
  BY <1>6, <1>9 DEF Apart, From, To, Reserved
<1>13. /\ \A q, u \in Producers : q # u => Apart(s, q, u)'
       /\ \A c, d \in Consumers : c # d => Apart(s, c, d)'
  BY <1>12 DEF IndexInv, Threads
<1>14. single_prod => \A q \in Producers : EnqAlone(s, q)'
  BY <1>9, SingleAssumption
<1>15. /\ Offered(p)' = sent + 1 .. sent + n /\ Pending(p)'
       /\ \A q \in Producers : q # p =>
            (Pending(q)' <=> Pending(q)) /\ Offered(q)' = Offered(q)
  <2>1. Offered(p)' = sent + 1 .. sent + n
    BY <1>3, <1>4, <1>6 DEF Offered
  <2> QED
    BY <1>4, <1>6, <2>1 DEF Pending, Offered, Threads
<1>16. OffersOK'
  <2>1. Cardinality(sent + 1 .. sent + n) = n
    BY <1>1, FS_Interval
  <2>2. ASSUME NEW q \in Producers, Pending(q)'
        PROVE  Offered(q)' \subseteq 1 .. sent' /\ Cardinality(Offered(q)') = th'[q].n
    <3>1. CASE q = p
      BY <1>1, <1>4, <1>5, <1>6, <1>15, <2>1, <3>1
    <3>2. CASE q # p
      <4>1. Offered(q) \subseteq 1 .. sent /\ Cardinality(Offered(q)) = th[q].n
        BY <1>15, <2>2, <3>2 DEF IndexInv, OffersOK
      <4>2. 1 .. sent \subseteq 1 .. sent' /\ th'[q] = th[q]
        BY <1>1, <1>5, <1>6, <3>2 DEF Threads
      <4> QED
        BY <1>15, <3>2, <4>1, <4>2
    <3> QED
      BY <3>1, <3>2
  <2>3. ASSUME NEW q \in Producers, q # p, Pending(q)
        PROVE  Offered(q) \cap (sent + 1 .. sent + n) = {}
    <3>1. Offered(q) \subseteq 1 .. sent
      BY <2>3 DEF IndexInv, OffersOK
    <3> QED
      BY <1>1, <3>1
  <2>4. ASSUME NEW q \in Producers, NEW u \in Producers, q # u,
               Pending(q)', Pending(u)'
        PROVE  Offered(q)' \cap Offered(u)' = {}
    <3>1. CASE q = p
      BY <1>15, <2>3, <2>4, <3>1
    <3>2. CASE u = p
      BY <1>15, <2>3, <2>4, <3>2
    <3>3. CASE q # p /\ u # p
      BY <1>15, <2>4, <3>3 DEF IndexInv, OffersOK
    <3> QED
      BY <3>1, <3>2, <3>3
  <2> QED
    BY <2>2, <2>4 DEF OffersOK
<1>17. Pos(s, prod.head)' <= Cardinality(Spent)'
  <2>1. Spent \subseteq Spent'
    <3> SUFFICES ASSUME NEW o \in Spent PROVE o \in Spent'
      OBVIOUS
    <3>1. o \in 1 .. sent
      BY DEF Spent
    <3>2. o \in 1 .. sent' /\ o \notin sent + 1 .. sent + n
      BY <1>1, <1>5, <3>1
    <3>3. \A q \in Producers : Pending(q)' => o \notin Offered(q)'
      BY <1>15, <3>2 DEF Spent
    <3> QED
      BY <3>2, <3>3 DEF Spent
  <2>2. IsFiniteSet(Spent') /\ Cardinality(Spent') \in Nat /\ Cardinality(Spent) \in Nat
    BY <1>1, <1>7, SpentBound, SpentBoundNext DEF SpentFacts
  <2>3. Cardinality(Spent) <= Cardinality(Spent')
    BY <2>1, <2>2, FS_Subset
  <2>4. Pos(s, prod.head) \in Nat /\ Pos(s, prod.head) <= Cardinality(Spent)
    BY <1>1, Words DEF IndexInv
  <2> QED
    BY <1>5, <2>2, <2>3, <2>4
<1> QED
  BY <1>7, <1>8, <1>9, <1>10, <1>11, <1>13, <1>14, <1>16, <1>17 DEF IndexInv

-----------------------------------------------------------------------------
(* Steps of a consumer *)

(* A thread between two calls.                                             *)
LEMMA IdleLocal ==
  /\ Idle \in Local /\ Idle.pc = "idle" /\ Idle.i = 0 /\ Idle.objs = <<>>
BY RingAssumption DEF Idle, Local, Labels, Word

(* A consumer begins a call ...                                            *)
LEMMA NewDequeue ==
  ASSUME NEW r, NEW n \in Nat, r = [Idle EXCEPT !.pc = "head", !.n = n]
  PROVE  r \in Local /\ r.pc = "head" /\ r.n = n /\ r.i = 0 /\ r.objs = <<>>
<1>1. "head" \in Labels
  BY DEF Labels
<1> QED
  BY <1>1, IdleLocal DEF Local

(* ... and may find nothing.                                               *)
LEMMA NothingFound ==
  ASSUME NEW r, r = [Idle EXCEPT !.pc = "nothing"]
  PROVE  r \in Local /\ r.pc = "nothing"
<1>1. "nothing" \in Labels
  BY DEF Labels
<1> QED
  BY <1>1, IdleLocal DEF Local

(* A consumer alone on its side counts from its own head.                  *)
LEMMA DequeueInv ==
  ASSUME NEW s \in Starts, IndexInv(s), NEW c \in Consumers, NEW n \in 1 .. MaxBurst,
         femu_ring_dequeue(c, n)
  PROVE  IndexInv(s)'
<1> DEFINE r == [Idle EXCEPT !.pc = "head", !.n = n]
<1>1. /\ c \in Threads /\ c \notin Producers /\ TypeOK /\ n \in Nat \ {0}
  BY RingAssumption DEF Threads, IndexInv
<1>2. /\ r \in Local /\ r.pc = "head" /\ r.n = n
  <2> HIDE DEF r
  <2>1. r = [Idle EXCEPT !.pc = "head", !.n = n]
    BY DEF r
  <2> QED
    BY ONLY n \in Nat \ {0}, <2>1, NewDequeue
<1>3. /\ th[c].pc = "idle" /\ rte_ring_count > 0 /\ th' = [th EXCEPT ![c] = r]
      /\ UNCHANGED <<prod, cons, ring, sent>>
  BY DEF femu_ring_dequeue, At
<1> HIDE DEF r
<1>4. th'[c] = r
  BY <1>1, <1>2, <1>3, OneThread
<1>5. DeqOK(s, c)' /\ ~Reserved(c)' /\ ~Reserved(c)
  BY <1>1, <1>2, <1>3, <1>4 DEF DeqOK, Reserved
<1>6. ASSUME single_cons PROVE DeqAlone(s, c)'
  <2>1. cons.tail = cons.head
    BY <1>5, <1>6 DEF IndexInv, DeqAlone
  <2>2. cons.head # prod.tail
    <3> SUFFICES ASSUME cons.head = prod.tail PROVE FALSE
      OBVIOUS
    <3>1. cons.head \in Word /\ s \in Word
      BY <1>1, Words
    <3>2. Dist(cons.head, cons.head) = 0
      BY <3>1, DistValue DEF Word
    <3>3. 0 % size = 0
      BY RingAssumption, ModLow
    <3> QED
      BY <1>3, <2>1, <3>2, <3>3 DEF rte_ring_count
  <2> QED
    BY <1>2, <1>3, <1>4, <1>5, <2>1, <2>2 DEF DeqAlone
<1> QED
  BY <1>1, <1>2, <1>3, <1>5, <1>6, LocalStep DEF TypeOK

(* A consumer reads the head.                                              *)
LEMMA DeqReadHeadInv ==
  ASSUME NEW s \in Starts, IndexInv(s), NEW c \in Consumers, DeqReadHead(c)
  PROVE  IndexInv(s)'
<1> DEFINE r == [th[c] EXCEPT !.old = cons.head, !.pc = "entries"]
<1>1. /\ c \in Threads /\ c \notin Producers /\ TypeOK /\ th[c] \in Local
      /\ cons.head \in Word /\ Pos(s, cons.head) \in Nat
  BY RingAssumption, Words DEF Threads, IndexInv, TypeOK
<1>2. r \in Local /\ r.pc = "entries" /\ r.old = cons.head /\ r.n = th[c].n
  BY <1>1 DEF Local, Labels
<1>3. /\ th[c].pc = "head" /\ th' = [th EXCEPT ![c] = r]
      /\ UNCHANGED <<prod, cons, ring, sent>>
  BY DEF DeqReadHead, At
<1> HIDE DEF r
<1>4. th'[c] = r
  BY <1>1, <1>2, <1>3, OneThread
<1>5. DeqOK(s, c)' /\ ~Reserved(c)'
  BY <1>1, <1>2, <1>3, <1>4 DEF IndexInv, DeqOK, From, Reserved
<1>6. single_cons => DeqAlone(s, c)'
  BY <1>2, <1>3, <1>4 DEF IndexInv, DeqAlone, Reserved
<1> QED
  BY <1>1, <1>2, <1>3, <1>5, <1>6, LocalStep DEF TypeOK

(* A consumer compares it with the tail of the producers.                  *)
LEMMA DeqCheckEntriesInv ==
  ASSUME NEW s \in Starts, IndexInv(s), NEW c \in Consumers, DeqCheckEntries(c)
  PROVE  IndexInv(s)'
<1> DEFINE entries == Dist(th[c].old, prod.tail)
           n == IF th[c].n > entries THEN entries ELSE th[c].n
<1>1. /\ c \in Threads /\ c \notin Producers /\ TypeOK /\ s \in Word
      /\ th[c] \in Local
      /\ th[c].old \in Word /\ prod.tail \in Word /\ th[c].n \in Nat
      /\ Pos(s, prod.tail) \in Nat /\ From(s, c) \in Nat
      /\ Pos(s, cons.head) \in Nat
  <2>1. c \in Threads /\ c \notin Producers /\ TypeOK
    BY RingAssumption DEF Threads, IndexInv
  <2>2. th[c] \in Local
    BY <2>1 DEF TypeOK
  <2> QED
    BY <2>1, <2>2, Words
<1>2. /\ th[c].pc = "entries"
      /\ th' = [th EXCEPT ![c] = IF n = 0 THEN [Idle EXCEPT !.pc = "nothing"]
                                 ELSE [th[c] EXCEPT !.n = n, !.pc = "cas"]]
      /\ UNCHANGED <<prod, cons, ring, sent>>
  BY DEF DeqCheckEntries, At
<1>3. From(s, c) <= Pos(s, cons.head) /\ Pos(s, cons.head) <= Pos(s, prod.tail)
  BY <1>2 DEF IndexInv, DeqOK, Ordered
<1>4. entries = Pos(s, prod.tail) - From(s, c) /\ entries \in Nat
  BY <1>1, <1>3, DistPos DEF From
<1>5. n \in Nat /\ n <= entries /\ (n = 0 => entries = 0)
  BY <1>1, <1>2, <1>4 DEF IndexInv, DeqOK
<1> HIDE DEF entries, n
<1>6. CASE n = 0
  <2> DEFINE r == [Idle EXCEPT !.pc = "nothing"]
  <2>1. r \in Local /\ r.pc = "nothing"
    <3> HIDE DEF r
    <3>1. r = [Idle EXCEPT !.pc = "nothing"]
      BY DEF r
    <3> QED
      BY ONLY <3>1, NothingFound
  <2>2. th' = [th EXCEPT ![c] = r]
    BY <1>2, <1>6
  <2> HIDE DEF r
  <2>3. th'[c] = r
    BY <1>1, <2>1, <2>2, OneThread
  <2>4. DeqOK(s, c)' /\ ~Reserved(c)'
    BY <2>1, <2>3 DEF DeqOK, Reserved
  <2>5. ~single_cons
    <3> SUFFICES ASSUME single_cons PROVE FALSE
      OBVIOUS
    <3>1. th[c].old = cons.head /\ cons.head # prod.tail
      BY <1>2 DEF IndexInv, DeqAlone
    <3>2. Pos(s, th[c].old) = Pos(s, prod.tail)
      BY <1>1, <1>4, <1>5, <1>6 DEF From
    <3> QED
      BY <1>1, <3>1, <3>2, PosInjective
  <2> QED
    BY <1>1, <1>2, <2>1, <2>2, <2>4, <2>5, LocalStep DEF TypeOK
<1>7. CASE n # 0
  <2> DEFINE r == [th[c] EXCEPT !.n = n, !.pc = "cas"]
  <2>1. r \in Local /\ r.pc = "cas" /\ r.old = th[c].old /\ r.n = n
    BY <1>1, <1>5 DEF Local, Labels
  <2>2. th' = [th EXCEPT ![c] = r]
    BY <1>2, <1>7
  <2> HIDE DEF r
  <2>3. th'[c] = r
    BY <1>1, <2>1, <2>2, OneThread
  <2>4. DeqOK(s, c)' /\ ~Reserved(c)'
    BY <1>1, <1>2, <1>3, <1>4, <1>5, <1>7, <2>1, <2>3
       DEF DeqOK, Reserved, From, To
  <2>5. single_cons => DeqAlone(s, c)'
    BY <1>2, <2>1, <2>3 DEF IndexInv, DeqAlone, Reserved
  <2> QED
    BY <1>1, <1>2, <2>1, <2>2, <2>4, <2>5, LocalStep DEF TypeOK
<1> QED
  BY <1>6, <1>7

(* As for the producers: the reservation is of objects published and not   *)
(* reserved by another consumer.                                           *)
LEMMA DeqMoveHeadInv ==
  ASSUME NEW s \in Starts, IndexInv(s), NEW c \in Consumers, DeqMoveHead(c)
  PROVE  IndexInv(s)'
<1>1. /\ c \in Threads /\ c \notin Producers /\ TypeOK /\ s \in Word
      /\ th[c] \in Local
      /\ cons.head \in Word /\ th[c].old \in Word /\ th[c].n \in Nat
      /\ Pos(s, prod.head) \in Nat /\ Pos(s, prod.tail) \in Nat
      /\ Pos(s, cons.head) \in Nat /\ Pos(s, cons.tail) \in Nat
      /\ From(s, c) \in Nat
  <2>1. c \in Threads /\ c \notin Producers /\ TypeOK
    BY RingAssumption DEF Threads, IndexInv
  <2>2. th[c] \in Local
    BY <2>1 DEF TypeOK
  <2> QED
    BY <2>1, <2>2, Words
<1>2. th[c].pc = "cas" /\ UNCHANGED <<prod, ring, sent>>
  BY DEF DeqMoveHead, At
<1>3. CASE ~(single_cons \/ cons.head = th[c].old)
  <2> DEFINE r == [th[c] EXCEPT !.pc = "head"]
  <2>1. r \in Local /\ r.pc = "head" /\ r.n = th[c].n
    BY <1>1 DEF Local, Labels
  <2>2. th' = [th EXCEPT ![c] = r] /\ cons' = cons
    BY <1>3 DEF DeqMoveHead
  <2> HIDE DEF r
  <2>3. th'[c] = r
    BY <1>1, <2>1, <2>2, OneThread
  <2>4. DeqOK(s, c)' /\ ~Reserved(c)'
    BY <1>2, <2>1, <2>3 DEF IndexInv, DeqOK, Reserved
  <2> QED
    BY <1>1, <1>2, <1>3, <2>1, <2>2, <2>4, LocalStep DEF TypeOK
<1>4. CASE single_cons \/ cons.head = th[c].old
  <2> DEFINE r == [th[c] EXCEPT !.pc = "copy"]
             h == Plus(th[c].old, th[c].n)
  <2>1. r \in Local /\ r.pc = "copy" /\ r.old = th[c].old /\ r.n = th[c].n
    BY <1>1 DEF Local, Labels
  <2>2. th' = [th EXCEPT ![c] = r] /\ cons' = [cons EXCEPT !.head = h]
    BY <1>4 DEF DeqMoveHead
  <2>3. /\ th'[c] = r /\ th' \in [Threads -> Local]
        /\ \A u \in Threads : u # c => th'[u] = th[u]
    BY <1>1, <2>1, <2>2, OneThread
  <2>4. th[c].old = cons.head /\ ~Reserved(c)
    BY <1>2, <1>4 DEF IndexInv, DeqAlone, Reserved
  <2>5. /\ To(s, c) <= Pos(s, prod.tail) /\ th[c].n >= 1
        /\ From(s, c) = Pos(s, cons.head) /\ To(s, c) = Pos(s, cons.head) + th[c].n
    BY <1>1, <1>2, <2>4 DEF IndexInv, DeqOK, From, To
  <2>6. h \in Word /\ Pos(s, h) = To(s, c)
    <3>1. Pos(s, prod.tail) \in Word /\ IndexMod \in Nat
      BY <1>1, Words, PosType, RingAssumption
    <3>2. Pos(s, th[c].old) + th[c].n < IndexMod
      BY <1>1, <2>5, <3>1 DEF Word, To
    <3> QED
      BY <1>1, <3>2, PosPlus DEF To
  <2>7. cons'.head = h /\ cons'.tail = cons.tail /\ prod' = prod
    BY <1>1, <1>2, <2>2 DEF TypeOK
  <2> HIDE DEF r, h
  <2>8. TypeOK'
    BY <1>1, <1>2, <2>2, <2>3, <2>6 DEF TypeOK
  <2>9. Ordered(s)'
    BY <1>1, <2>5, <2>6, <2>7 DEF IndexInv, Ordered
  <2>10. /\ Reserved(c)' /\ DeqOK(s, c)'
    <3>1. Pos(s, cons.tail) <= From(s, c)
      BY <2>5 DEF IndexInv, Ordered
    <3>2. From(s, c)' = From(s, c) /\ To(s, c)' = To(s, c)
      BY <2>1, <2>3 DEF From, To
    <3> QED
      BY <1>1, <2>1, <2>3, <2>5, <2>6, <2>7, <3>1, <3>2 DEF DeqOK, Reserved
  <2>11. ASSUME NEW d \in Consumers, d # c PROVE DeqOK(s, d)'
    <3>1. DeqOK(s, d) /\ th'[d] = th[d] /\ d \in Threads
      BY <2>3, <2>11 DEF IndexInv, Threads
    <3>2. From(s, d) \in Nat /\ To(s, d) \in Nat
      BY <1>1, <3>1, Words
    <3>3. Pos(s, cons.head) <= Pos(s, h) /\ Pos(s, h) \in Nat
      BY <1>1, <2>5, <2>6
    <3>4. /\ th[d].pc \in {"entries", "cas"} => From(s, d) <= Pos(s, h)
          /\ Reserved(d) => To(s, d) <= Pos(s, h)
      BY <1>1, <3>1, <3>2, <3>3 DEF DeqOK
    <3> QED
      BY <2>7, <3>1, <3>4 DEF DeqOK, From, To, Reserved
  <2>12. \A p \in Producers : EnqOK(s, p)'
    <3> SUFFICES ASSUME NEW p \in Producers PROVE EnqOK(s, p)'
      OBVIOUS
    <3>1. EnqOK(s, p) /\ th'[p] = th[p]
      BY <1>1, <2>3 DEF IndexInv, Threads
    <3> QED
      BY <2>7, <3>1 DEF EnqOK, From, To, Reserved, Pending
  <2>13. ASSUME NEW d \in Consumers, d # c PROVE Apart(s, c, d)' /\ Apart(s, d, c)'
    <3>1. th'[d] = th[d] /\ From(s, c)' = Pos(s, cons.head)
      BY <2>1, <2>3, <2>5, <2>13 DEF Threads, From
    <3>2. Reserved(d) => To(s, d) <= Pos(s, cons.head)
      BY DEF IndexInv, DeqOK
    <3> QED
      BY <3>1, <3>2 DEF Apart, From, To, Reserved
  <2>14. \A d, u \in Consumers : d # u => Apart(s, d, u)'
    <3> SUFFICES ASSUME NEW d \in Consumers, NEW u \in Consumers, d # u,
                        d # c, u # c
                 PROVE  Apart(s, d, u)'
      BY <2>13
    <3>1. Apart(s, d, u) /\ th'[d] = th[d] /\ th'[u] = th[u]
      BY <2>3 DEF IndexInv, Threads
    <3> QED
      BY <3>1 DEF Apart, From, To, Reserved
  <2>15. \A p, q \in Producers : p # q => Apart(s, p, q)'
    <3> SUFFICES ASSUME NEW p \in Producers, NEW q \in Producers, p # q
                 PROVE  Apart(s, p, q)'
      OBVIOUS
    <3>1. Apart(s, p, q) /\ th'[p] = th[p] /\ th'[q] = th[q]
      BY <1>1, <2>3 DEF IndexInv, Threads
    <3> QED
      BY <3>1 DEF Apart, From, To, Reserved
  <2>16. single_cons => \A d \in Consumers : DeqAlone(s, d)'
    <3> SUFFICES ASSUME single_cons PROVE DeqAlone(s, c)'
      BY SingleAssumption
    <3>1. cons.tail = cons.head
      BY <2>4 DEF IndexInv, DeqAlone
    <3>2. th'[c].old = cons'.tail /\ To(s, c)' = Pos(s, cons'.head)
      BY <2>1, <2>3, <2>4, <2>6, <2>7, <3>1 DEF To
    <3> QED
      BY <2>1, <2>3, <2>10, <3>2 DEF DeqAlone
  <2>17. single_prod => \A p \in Producers : EnqAlone(s, p)'
    <3> SUFFICES ASSUME single_prod, NEW p \in Producers PROVE EnqAlone(s, p)'
      OBVIOUS
    <3>1. EnqAlone(s, p) /\ th'[p] = th[p]
      BY <1>1, <2>3 DEF IndexInv, Threads
    <3> QED
      BY <2>7, <3>1 DEF EnqAlone, From, To, Reserved
  <2>18. OffersOK' /\ Cardinality(Spent) <= Cardinality(Spent)'
    <3>1. \A p \in Producers : Pending(p)' =>
            Pending(p) /\ th'[p].objs = th[p].objs /\ th'[p].n = th[p].n
      BY <1>1, <2>3 DEF Pending, Threads
    <3> QED
      BY <1>1, <1>2, <2>8, <3>1, OffersShrink DEF IndexInv
  <2>19. Pos(s, prod.head)' <= Cardinality(Spent)'
    BY <1>1, <2>7, <2>8, <2>18, SpentBound, SpentBoundNext DEF IndexInv, SpentFacts
  <2> QED
    BY <2>8, <2>9, <2>10, <2>11, <2>12, <2>14, <2>15, <2>16, <2>17, <2>18, <2>19
       DEF IndexInv
<1> QED
  BY <1>3, <1>4

(* A consumer reads the objects it reserved.                               *)
LEMMA DeqCopyInv ==
  ASSUME NEW s \in Starts, IndexInv(s), NEW c \in Consumers, DeqCopy(c)
  PROVE  IndexInv(s)'
<1> DEFINE l == IF th[c].i + 1 = th[c].n THEN "publish" ELSE "copy"
           slot == Slot(th[c].old + th[c].i)
           objs == Append(th[c].objs, ring[slot])
           r == [th[c] EXCEPT !.i = th[c].i + 1, !.objs = objs, !.pc = l]
<1>1. /\ c \in Threads /\ c \notin Producers /\ TypeOK /\ th[c] \in Local
      /\ th[c].old \in Nat /\ th[c].i \in Nat /\ th[c].objs \in Seq(Nat)
  BY RingAssumption DEF Threads, IndexInv, TypeOK, Local, Word
<1>2. /\ th[c].pc = "copy" /\ th' = [th EXCEPT ![c] = r]
      /\ UNCHANGED <<prod, cons, ring, sent>>
  BY DEF DeqCopy, At
<1>3. slot \in 0 .. size - 1
  <2>1. th[c].old + th[c].i \in Nat /\ size \in Nat \ {0}
    BY <1>1, RingAssumption
  <2> QED
    BY <2>1 DEF Slot
<1>4. objs \in Seq(Nat)
  <2>1. ring[slot] \in Nat
    BY <1>1, <1>3 DEF TypeOK
  <2> QED
    BY <1>1, <2>1
<1>5. l \in {"copy", "publish"} /\ l \in Labels
  BY DEF Labels
<1> HIDE DEF l, objs, slot
<1>6. /\ r \in Local /\ r.pc = l /\ r.old = th[c].old /\ r.n = th[c].n
  <2>1. PICK k \in Nat : k = th[c].i + 1
    BY <1>1
  <2>2. PICK o \in Local : o = th[c]
    BY <1>1
  <2>3. r = [o EXCEPT !.i = k, !.objs = objs, !.pc = l]
    BY <2>1, <2>2
  <2> HIDE DEF r
  <2> QED
    BY ONLY o \in Local, k \in Nat, <1>4, <1>5, <2>2, <2>3 DEF Local
<1> HIDE DEF r
<1>7. th'[c] = r
  BY <1>1, <1>2, <1>6, OneThread
<1>8. DeqOK(s, c)' /\ Reserved(c)
  BY <1>2, <1>5, <1>6, <1>7 DEF IndexInv, DeqOK, From, To, Reserved
<1>9. single_cons => DeqAlone(s, c)'
  BY <1>2, <1>5, <1>6, <1>7 DEF IndexInv, DeqAlone, From, To, Reserved
<1> QED
  BY <1>1, <1>2, <1>6, <1>8, <1>9, LocalStep DEF TypeOK

(* A consumer gives back the slots it has read.                            *)
LEMMA DeqUpdateTailInv ==
  ASSUME NEW s \in Starts, IndexInv(s), NEW c \in Consumers, DeqUpdateTail(c)
  PROVE  IndexInv(s)'
<1> DEFINE e == Plus(th[c].old, th[c].n)
<1>1. /\ c \in Threads /\ c \notin Producers /\ TypeOK /\ s \in Word
      /\ cons.head \in Word /\ cons.tail \in Word /\ th[c].old \in Word
      /\ th[c].n \in Nat
      /\ Pos(s, prod.head) \in Nat /\ Pos(s, prod.tail) \in Nat
      /\ Pos(s, cons.head) \in Nat /\ Pos(s, cons.tail) \in Nat
      /\ From(s, c) \in Nat /\ capacity \in Nat
  <2>1. c \in Threads /\ c \notin Producers /\ TypeOK /\ capacity \in Nat
    BY RingAssumption DEF Threads, IndexInv, capacity
  <2> QED
    BY <2>1, Words
<1>2. /\ th[c].pc = "publish" /\ th' = [th EXCEPT ![c] = Idle]
      /\ cons' = [cons EXCEPT !.tail = e] /\ UNCHANGED <<prod, ring, sent>>
  BY DEF DeqUpdateTail, At
<1>3. Reserved(c) /\ th[c].old = cons.tail
  BY <1>2 DEF DeqUpdateTail, IndexInv, DeqAlone, Reserved
<1>4. /\ From(s, c) = Pos(s, cons.tail) /\ To(s, c) = Pos(s, cons.tail) + th[c].n
      /\ To(s, c) <= Pos(s, cons.head) /\ th[c].n >= 1
  BY <1>1, <1>2, <1>3 DEF IndexInv, DeqOK, From, To
<1>5. e \in Word /\ Pos(s, e) = To(s, c)
  <2>1. Pos(s, cons.head) \in Word /\ IndexMod \in Nat
    BY <1>1, PosType, RingAssumption
  <2>2. Pos(s, th[c].old) + th[c].n < IndexMod
    BY <1>1, <1>4, <2>1 DEF Word, To
  <2> QED
    BY <1>1, <2>2, PosPlus DEF To
<1>6. /\ th'[c] = Idle /\ th' \in [Threads -> Local]
      /\ \A u \in Threads : u # c => th'[u] = th[u]
  BY <1>1, <1>2, IdleLocal, OneThread
<1>7. cons'.tail = e /\ cons'.head = cons.head /\ prod' = prod
  BY <1>1, <1>2 DEF TypeOK
<1> HIDE DEF e
<1>8. TypeOK'
  BY <1>1, <1>2, <1>5, <1>6 DEF TypeOK
<1>9. Ordered(s)'
  BY <1>1, <1>4, <1>5, <1>7 DEF IndexInv, Ordered
<1>10. ~Reserved(c)' /\ DeqOK(s, c)'
  BY <1>6, IdleLocal DEF Reserved, DeqOK
<1>11. ASSUME NEW d \in Consumers, d # c PROVE DeqOK(s, d)'
  <2>1. DeqOK(s, d) /\ th'[d] = th[d] /\ d \in Threads
    BY <1>6, <1>11 DEF IndexInv, Threads
  <2>2. From(s, d) \in Nat /\ th[d].n \in Nat
    BY <1>1, <2>1, Words
  <2>3. Reserved(d) => Pos(s, e) <= From(s, d)
    <3>1. Reserved(d) => th[d].n >= 1 /\ Pos(s, cons.tail) <= From(s, d)
      BY <2>1, <2>2 DEF DeqOK, Reserved
    <3>2. Apart(s, c, d)
      BY <1>11 DEF IndexInv
    <3> QED
      BY <1>1, <1>3, <1>4, <1>5, <2>2, <3>1, <3>2 DEF Apart, From, To
  <2> QED
    BY <1>7, <2>1, <2>3 DEF DeqOK, From, To, Reserved
<1>12. \A p \in Producers : EnqOK(s, p)'
  <2> SUFFICES ASSUME NEW p \in Producers PROVE EnqOK(s, p)'
    OBVIOUS
  <2>1. EnqOK(s, p) /\ th'[p] = th[p] /\ To(s, p) \in Nat
    BY <1>1, <1>6, Words DEF IndexInv, Threads
  <2>2. th[p].pc = "cas" /\ th[p].old = prod.head => To(s, p) <= Pos(s, e) + capacity
    BY <1>1, <1>4, <1>5, <2>1 DEF EnqOK
  <2> QED
    BY <1>7, <2>1, <2>2 DEF EnqOK, From, To, Reserved, Pending
<1>13. \A d, u \in Consumers : d # u => Apart(s, d, u)'
  <2> SUFFICES ASSUME NEW d \in Consumers, NEW u \in Consumers, d # u,
                      d # c, u # c
               PROVE  Apart(s, d, u)'
    BY <1>10 DEF Apart
  <2>1. Apart(s, d, u) /\ th'[d] = th[d] /\ th'[u] = th[u]
    BY <1>6 DEF IndexInv, Threads
  <2> QED
    BY <2>1 DEF Apart, From, To, Reserved
<1>14. \A p, q \in Producers : p # q => Apart(s, p, q)'
  <2> SUFFICES ASSUME NEW p \in Producers, NEW q \in Producers, p # q
               PROVE  Apart(s, p, q)'
    OBVIOUS
  <2>1. Apart(s, p, q) /\ th'[p] = th[p] /\ th'[q] = th[q]
    BY <1>1, <1>6 DEF IndexInv, Threads
  <2> QED
    BY <2>1 DEF Apart, From, To, Reserved
<1>15. single_cons => \A d \in Consumers : DeqAlone(s, d)'
  <2> SUFFICES ASSUME single_cons PROVE DeqAlone(s, c)'
    BY SingleAssumption
  <2>1. Pos(s, e) = Pos(s, cons.head)
    BY <1>3, <1>5 DEF IndexInv, DeqAlone
  <2>2. e = cons.head
    BY <1>1, <1>5, <2>1, PosInjective
  <2> QED
    BY <1>6, <1>7, <1>10, <2>2, IdleLocal DEF DeqAlone
<1>16. single_prod => \A p \in Producers : EnqAlone(s, p)'
  <2> SUFFICES ASSUME single_prod, NEW p \in Producers PROVE EnqAlone(s, p)'
    OBVIOUS
  <2>1. EnqAlone(s, p) /\ th'[p] = th[p]
    BY <1>1, <1>6 DEF IndexInv, Threads
  <2> QED
    BY <1>7, <2>1 DEF EnqAlone, From, To, Reserved
<1>17. OffersOK' /\ Cardinality(Spent) <= Cardinality(Spent)'
  <2>1. \A p \in Producers : Pending(p)' =>
          Pending(p) /\ th'[p].objs = th[p].objs /\ th'[p].n = th[p].n
    BY <1>1, <1>6 DEF Pending, Threads
  <2> QED
    BY <1>1, <1>2, <1>8, <2>1, OffersShrink DEF IndexInv
<1>18. Pos(s, prod.head)' <= Cardinality(Spent)'
  BY <1>1, <1>7, <1>8, <1>17, SpentBound, SpentBoundNext DEF IndexInv, SpentFacts
<1> QED
  BY <1>8, <1>9, <1>10, <1>11, <1>12, <1>13, <1>14, <1>15, <1>16, <1>17, <1>18
     DEF IndexInv

-----------------------------------------------------------------------------
(* The invariant *)

(* An empty ring satisfies the invariant from its start index.             *)
LEMMA InitInv == Init => Inv
<1> SUFFICES ASSUME Init PROVE Inv
  OBVIOUS
<1>1. PICK s \in Starts : /\ prod = [head |-> s, tail |-> s]
                          /\ cons = [head |-> s, tail |-> s]
  BY DEF Init
<1>2. /\ th = [t \in Threads |-> Idle] /\ sent = 0
      /\ ring = [k \in 0 .. size - 1 |-> 0]
  BY DEF Init, Threads, NoObject
<1>3. s \in Word
  BY RingAssumption DEF Word
<1>4. /\ prod.head = s /\ prod.tail = s /\ cons.head = s /\ cons.tail = s
  BY <1>1
<1>5. Pos(s, s) = 0
  BY <1>3, DistValue DEF Pos, Word
<1>6. TypeOK
  <2>1. th \in [Threads -> Local]
    BY <1>2, IdleLocal
  <2> QED
    BY <1>1, <1>2, <1>3, <2>1, RingAssumption DEF TypeOK
<1>7. \A t \in Threads : th[t].pc = "idle"
  BY <1>2, IdleLocal
<1>8. Ordered(s)
  BY <1>4, <1>5, RingAssumption DEF Ordered, capacity
<1>9. \A t \in Threads : ~Reserved(t) /\ ~Pending(t) /\ EnqOK(s, t) /\ DeqOK(s, t)
  BY <1>7 DEF Reserved, Pending, EnqOK, DeqOK
<1>10. \A t \in Threads : EnqAlone(s, t) /\ DeqAlone(s, t)
  BY <1>4, <1>7, <1>9 DEF EnqAlone, DeqAlone
<1>11. OffersOK
  BY <1>9 DEF OffersOK, Threads
<1>12. Pos(s, prod.head) <= Cardinality(Spent)
  BY <1>4, <1>5, <1>6, SpentBound DEF SpentFacts
<1> QED
  BY <1>6, <1>8, <1>9, <1>10, <1>11, <1>12 DEF Inv, IndexInv, Threads, Apart

(* Every step preserves the invariant from a start index.                  *)
LEMMA StepInv ==
  ASSUME NEW s \in Starts, IndexInv(s), [Next]_vars
  PROVE  IndexInv(s)'
<1>1. ASSUME NEW p \in Producers, EnqStep(p) PROVE IndexInv(s)'
  BY <1>1, EnqReadHeadInv, EnqCheckRoomInv, EnqMoveHeadInv, EnqCopyInv,
     EnqUpdateTailInv DEF EnqStep
<1>2. ASSUME NEW p \in Producers, NEW n \in 1 .. MaxBurst, femu_ring_enqueue(p, n)
      PROVE  IndexInv(s)'
  BY <1>2, EnqueueInv
<1>3. ASSUME NEW c \in Consumers, DeqStep(c) PROVE IndexInv(s)'
  BY <1>3, DeqReadHeadInv, DeqCheckEntriesInv, DeqMoveHeadInv, DeqCopyInv,
     DeqUpdateTailInv DEF DeqStep
<1>4. ASSUME NEW c \in Consumers, NEW n \in 1 .. MaxBurst, femu_ring_dequeue(c, n)
      PROVE  IndexInv(s)'
  BY <1>4, DequeueInv
<1>5. CASE UNCHANGED vars
  <2>1. UNCHANGED <<prod, cons, ring, th, sent>>
    BY <1>5 DEF vars
  <2>2. TypeOK' /\ Ordered(s)'
    BY <2>1 DEF IndexInv, TypeOK, Ordered
  <2>3. /\ \A p : EnqOK(s, p)' = EnqOK(s, p) /\ EnqAlone(s, p)' = EnqAlone(s, p)
        /\ \A c : DeqOK(s, c)' = DeqOK(s, c) /\ DeqAlone(s, c)' = DeqAlone(s, c)
        /\ \A t, u : Apart(s, t, u)' = Apart(s, t, u)
    BY <2>1 DEF EnqOK, DeqOK, EnqAlone, DeqAlone, Apart, Pending, Reserved, From, To
  <2>4. OffersOK' = OffersOK /\ Spent' = Spent
    BY <2>1 DEF OffersOK, Spent, Offered, Pending
  <2> QED
    BY <2>1, <2>2, <2>3, <2>4 DEF IndexInv
<1> QED
  BY <1>1, <1>2, <1>3, <1>4, <1>5 DEF Next

(* The invariant holds of every reachable state of the ring.               *)
THEOREM Invariance == Spec => []Inv
<1>1. Inv /\ [Next]_vars => Inv'
  BY StepInv DEF Inv
<1> QED
  BY <1>1, InitInv, PTL DEF Spec

(* __rte_ring_move_prod_head and __rte_ring_move_cons_head never reserve a *)
(* slot twice, nor one that was not yet read and released, whichever calls *)
(* overlap and however the indices wrap.                                   *)
THEOREM IndicesAlwaysOrdered == Spec => []IndicesOrdered
<1>1. Inv => IndicesOrdered
  <2> SUFFICES ASSUME NEW s \in Starts, IndexInv(s) PROVE IndicesOrdered
    BY DEF Inv
  <2>1. /\ s \in Word /\ prod.head \in Word /\ prod.tail \in Word
        /\ cons.head \in Word /\ cons.tail \in Word
        /\ Pos(s, prod.head) \in Nat /\ Pos(s, prod.tail) \in Nat
        /\ Pos(s, cons.head) \in Nat /\ Pos(s, cons.tail) \in Nat
    BY Words DEF IndexInv
  <2>2. Ordered(s)
    BY DEF IndexInv
  <2>3. /\ Dist(cons.tail, cons.head) = Pos(s, cons.head) - Pos(s, cons.tail)
        /\ Dist(cons.tail, prod.tail) = Pos(s, prod.tail) - Pos(s, cons.tail)
        /\ Dist(cons.tail, prod.head) = Pos(s, prod.head) - Pos(s, cons.tail)
    <3>1. /\ Pos(s, cons.tail) <= Pos(s, cons.head)
          /\ Pos(s, cons.tail) <= Pos(s, prod.tail)
          /\ Pos(s, cons.tail) <= Pos(s, prod.head)
      BY <2>1, <2>2 DEF Ordered
    <3> QED
      BY <2>1, <3>1, DistPos
  <2>4. capacity \in Nat
    BY RingAssumption DEF capacity
  <2> QED
    BY <2>1, <2>2, <2>3, <2>4 DEF IndicesOrdered, Ordered
<1> QED
  BY <1>1, Invariance, PTL

(* The consumer of a single-consumer ring that saw femu_ring_count > 0     *)
(* gets an object from femu_ring_dequeue.                                  *)
THEOREM CountAlwaysMeansDequeue ==
  ASSUME single_cons
  PROVE  Spec => []CountMeansDequeue
<1>1. Inv => CountMeansDequeue
  BY DEF Inv, IndexInv, DeqAlone, CountMeansDequeue, At
<1> QED
  BY <1>1, Invariance, PTL

-----------------------------------------------------------------------------
(* Slots *)

(* A multiple of the modulus makes no difference to a remainder.           *)
LEMMA ModShift ==
  ASSUME NEW m \in Nat \ {0}, NEW k \in Nat, NEW y \in Nat
  PROVE  (y + k * m) % m = y % m
<1> DEFINE q == y \div m
           r == y % m
           z == y + k * m
           u == z \div m
           v == z % m
<1>1. q \in Int /\ r \in 0 .. m - 1 /\ y = m * q + r
  OBVIOUS
<1>2. k * m \in Nat
  OBVIOUS
<1>3. u \in Int /\ v \in 0 .. m - 1 /\ z = m * u + v
  BY <1>2
<1> HIDE DEF q, r, u, v
<1>4. m * u + v = m * q + r + k * m
  BY <1>1, <1>3
<1>5. m * (u - (q + k)) = r - v
  BY <1>1, <1>3, <1>4
<1>6. \A w \in Int : w >= 1 => m * w >= m
  OBVIOUS
<1>7. \A w \in Int : w <= -1 => m * w <= -m
  OBVIOUS
<1>8. u - (q + k) \in Int
  BY <1>1, <1>3
<1>9. u - (q + k) = 0
  BY <1>1, <1>3, <1>5, <1>6, <1>7, <1>8
<1>10. m * 0 = 0
  OBVIOUS
<1> QED
  BY <1>1, <1>3, <1>5, <1>9, <1>10 DEF r, v

(* Numbers less than the modulus apart have different remainders.          *)
LEMMA ModApart ==
  ASSUME NEW m \in Nat \ {0}, NEW x \in Nat, NEW y \in Nat, x < y, y - x < m
  PROVE  x % m # y % m
<1> DEFINE q == x \div m
           u == y \div m
<1>1. q \in Int /\ x % m \in 0 .. m - 1 /\ x = m * q + (x % m)
  OBVIOUS
<1>2. u \in Int /\ y % m \in 0 .. m - 1 /\ y = m * u + (y % m)
  OBVIOUS
<1> HIDE DEF q, u
<1> SUFFICES ASSUME x % m = y % m PROVE FALSE
  OBVIOUS
<1>3. m * (u - q) = y - x
  BY <1>1, <1>2
<1>4. \A w \in Int : w >= 1 => m * w >= m
  OBVIOUS
<1>5. \A w \in Int : w <= 0 => m * w <= 0
  OBVIOUS
<1>6. u - q \in Int
  BY <1>1, <1>2
<1> QED
  BY <1>3, <1>4, <1>5, <1>6

(* The slot of the x-th place from the start.                              *)
Cell(s, x) == (s + x) % size

(* The slot of an index follows from its distance from the start, because  *)
(* the width of the index words is a multiple of the size.                 *)
LEMMA CellOf ==
  ASSUME NEW s \in Word, NEW a \in Word, NEW j \in Nat
  PROVE  Slot(a + j) = Cell(s, Pos(s, a) + j)
<1>1. /\ IndexMod \in Nat /\ size \in Nat \ {0} /\ IndexMod % size = 0
      /\ a \in Nat /\ s \in Nat
  BY RingAssumption DEF Word
<1>2. Pos(s, a) = IF a >= s THEN a - s ELSE a - s + IndexMod
  BY DistValue DEF Pos
<1>3. CASE a >= s
  <2>1. s + (Pos(s, a) + j) = a + j
    BY <1>1, <1>2, <1>3
  <2> QED
    BY <2>1 DEF Slot, Cell
<1>4. CASE ~(a >= s)
  <2>1. s + (Pos(s, a) + j) = (a + j) + IndexMod
    BY <1>1, <1>2, <1>4
  <2>2. PICK k \in Nat : IndexMod = k * size
    <3> DEFINE k == IndexMod \div size
    <3>1. k \in Int /\ IndexMod = size * k + (IndexMod % size)
      BY <1>1
    <3> HIDE DEF k
    <3>2. IndexMod = size * k
      BY <1>1, <3>1
    <3>3. k \in Nat
      <4>1. \A w \in Int : w <= -1 => size * w <= -size
        BY <1>1
      <4> QED
        BY <1>1, <3>1, <3>2, <4>1
    <3>4. size * k = k * size
      BY <1>1, <3>3
    <3> QED
      BY <3>2, <3>3, <3>4
  <2>3. a + j \in Nat
    BY <1>1
  <2>4. ((a + j) + IndexMod) % size = (a + j) % size
    BY <1>1, <2>2, <2>3, ModShift
  <2> QED
    BY <2>1, <2>4 DEF Slot, Cell
<1> QED
  BY <1>3, <1>4

(* Places less than the size apart have slots of their own.                *)
LEMMA CellApart ==
  ASSUME NEW s \in Word, NEW x \in Nat, NEW y \in Nat, x # y, x - y < size, y - x < size
  PROVE  Cell(s, x) # Cell(s, y)
<1>1. s \in Nat /\ size \in Nat \ {0} /\ s + x \in Nat /\ s + y \in Nat
  BY RingAssumption DEF Word
<1>2. CASE x < y
  <2>1. s + x < s + y /\ (s + y) - (s + x) < size
    BY <1>1, <1>2
  <2> QED
    BY <1>1, <2>1, ModApart DEF Cell
<1>3. CASE y < x
  <2>1. s + y < s + x /\ (s + x) - (s + y) < size
    BY <1>1, <1>3
  <2> QED
    BY <1>1, <2>1, ModApart DEF Cell
<1> QED
  BY <1>2, <1>3

(* A cell is a slot of the ring.                                           *)
LEMMA CellType ==
  ASSUME NEW s \in Word, NEW x \in Nat
  PROVE  Cell(s, x) \in 0 .. size - 1
<1>1. size \in Nat \ {0} /\ s + x \in Nat
  BY RingAssumption DEF Word
<1> QED
  BY <1>1 DEF Cell

-----------------------------------------------------------------------------
(* Stretches of the ring *)

(* What the slots can hold.                                                *)
Slots == [0 .. size - 1 -> Nat]

(* The objects from place x up to place y of the slots r.                  *)
Segment(r, s, x, y) == [k \in 1 .. y - x |-> r[Cell(s, x + k - 1)]]

(* The sequence v holds the n objects in the slots r from place x on.      *)
Holds(v, n, r, s, x) ==
  v \in Seq(Nat) /\ Len(v) = n /\ \A k \in 1 .. n : v[k] = r[Cell(s, x + k - 1)]

(* The first n objects of q are u, and v are the others.                   *)
Splits(q, n, u, v) ==
  n \in 1 .. Len(q) /\ SubSeq(q, 1, n) = u /\ SubSeq(q, n + 1, Len(q)) = v

(* A stretch is a sequence, as long as its ends are apart.                 *)
LEMMA SegmentType ==
  ASSUME NEW s \in Word, NEW x \in Nat, NEW y \in Nat, x <= y,
         NEW r \in Slots
  PROVE  Holds(Segment(r, s, x, y), y - x, r, s, x)
<1>1. \A k \in 1 .. y - x : r[Cell(s, x + k - 1)] \in Nat
  <2> SUFFICES ASSUME NEW k \in 1 .. y - x PROVE r[Cell(s, x + k - 1)] \in Nat
    OBVIOUS
  <2>1. x + k - 1 \in Nat
    OBVIOUS
  <2>2. Cell(s, x + k - 1) \in 0 .. size - 1
    BY <2>1, CellType
  <2> QED
    BY <2>2 DEF Slots
<1>2. Segment(r, s, x, y) \in [1 .. y - x -> Nat]
  BY <1>1 DEF Segment
<1>3. \A k \in 1 .. y - x : Segment(r, s, x, y)[k] = r[Cell(s, x + k - 1)]
  BY DEF Segment
<1>4. y - x \in Nat
  OBVIOUS
<1> QED
  BY <1>2, <1>3, <1>4 DEF Holds

(* What lies between two index words is a stretch of the ring.             *)
LEMMA SegmentOf ==
  ASSUME NEW s \in Word, NEW a \in Word, NEW b \in Word, Pos(s, a) <= Pos(s, b), NEW r
  PROVE  [k \in 1 .. Dist(a, b) |-> r[Slot(a + k - 1)]] =
           Segment(r, s, Pos(s, a), Pos(s, b))
<1>1. Dist(a, b) = Pos(s, b) - Pos(s, a)
  BY DistPos
<1>2. \A k \in 1 .. Dist(a, b) : Slot(a + k - 1) = Cell(s, Pos(s, a) + k - 1)
  <2> SUFFICES ASSUME NEW k \in 1 .. Dist(a, b)
               PROVE  Slot(a + k - 1) = Cell(s, Pos(s, a) + k - 1)
    OBVIOUS
  <2>1. /\ k - 1 \in Nat /\ a + (k - 1) = a + k - 1
        /\ Pos(s, a) + (k - 1) = Pos(s, a) + k - 1
    BY <1>1, PosType DEF Word
  <2>2. Slot(a + (k - 1)) = Cell(s, Pos(s, a) + (k - 1))
    BY <2>1, CellOf
  <2> QED
    BY <2>1, <2>2
<1> QED
  BY <1>1, <1>2 DEF Segment

(* A sequence is known by what it holds.                                   *)
LEMMA HoldsSame ==
  ASSUME NEW u, NEW v, NEW n, NEW r, NEW s, NEW x, Holds(u, n, r, s, x), Holds(v, n, r, s, x)
  PROVE  u = v
<1>1. /\ u \in Seq(Nat) /\ v \in Seq(Nat) /\ Len(u) = n /\ Len(v) = n
      /\ \A k \in 1 .. n : u[k] = v[k]
  BY DEF Holds
<1> QED
  BY <1>1, SeqEqual

(* One sequence behind the other holds both stretches.                     *)
LEMMA HoldsConcat ==
  ASSUME NEW u, NEW v, NEW m \in Nat, NEW n \in Nat, NEW r, NEW s, NEW x \in Nat,
         NEW y \in Nat, y = x + m, Holds(u, m, r, s, x), Holds(v, n, r, s, y)
  PROVE  Holds(u \o v, m + n, r, s, x)
<1>1. /\ u \in Seq(Nat) /\ Len(u) = m /\ v \in Seq(Nat) /\ Len(v) = n
      /\ \A k \in 1 .. m : u[k] = r[Cell(s, x + k - 1)]
      /\ \A k \in 1 .. n : v[k] = r[Cell(s, y + k - 1)]
  BY DEF Holds
<1>2. /\ u \o v \in Seq(Nat) /\ Len(u \o v) = m + n
      /\ \A i \in 1 .. m + n : (u \o v)[i] = IF i <= m THEN u[i] ELSE v[i - m]
  <2>1. u \in Seq(Nat) /\ v \in Seq(Nat)
    BY <1>1
  <2>2. /\ u \o v \in Seq(Nat) /\ Len(u \o v) = Len(u) + Len(v)
        /\ \A i \in 1 .. Len(u) + Len(v) :
             (u \o v)[i] = IF i <= Len(u) THEN u[i] ELSE v[i - Len(u)]
    BY ONLY <2>1, ConcatProperties
  <2> QED
    BY <1>1, <2>2
<1>3. ASSUME NEW i \in 1 .. m + n PROVE (u \o v)[i] = r[Cell(s, x + i - 1)]
  <2>1. CASE i <= m
    BY <1>1, <1>2, <2>1
  <2>2. CASE ~(i <= m)
    <3>1. i - m \in 1 .. n /\ y + (i - m) - 1 = x + i - 1
      BY <2>2
    <3>2. v[i - m] = r[Cell(s, x + i - 1)]
      BY <1>1, <3>1
    <3>3. (u \o v)[i] = v[i - m]
      BY <1>2, <2>2
    <3> QED
      BY <3>2, <3>3
  <2> QED
    BY <2>1, <2>2
<1> QED
  BY <1>2, <1>3 DEF Holds

(* A part of a sequence holds that part of the stretch.                    *)
LEMMA HoldsSubSeq ==
  ASSUME NEW w, NEW b \in Nat, NEW r, NEW s, NEW x \in Nat, Holds(w, b, r, s, x),
         NEW a \in Nat \ {0}, NEW c \in Nat, a <= c + 1, c <= b, NEW y \in Nat, y = x + a - 1
  PROVE  Holds(SubSeq(w, a, c), c - a + 1, r, s, y)
<1>1. /\ w \in Seq(Nat) /\ Len(w) = b
      /\ \A k \in 1 .. b : w[k] = r[Cell(s, x + k - 1)]
  BY DEF Holds
<1>2. \A i \in a .. c : w[i] \in Nat
  BY <1>1
<1>3. /\ SubSeq(w, a, c) \in Seq(Nat)
      /\ Len(SubSeq(w, a, c)) = IF a <= c THEN c - a + 1 ELSE 0
      /\ \A i \in 1 .. c - a + 1 : SubSeq(w, a, c)[i] = w[a + i - 1]
  BY <1>2, SubSeqProperties
<1>4. Len(SubSeq(w, a, c)) = c - a + 1
  BY <1>3
<1>5. ASSUME NEW i \in 1 .. c - a + 1
      PROVE  SubSeq(w, a, c)[i] = r[Cell(s, y + i - 1)]
  <2>1. a + i - 1 \in 1 .. b /\ x + (a + i - 1) - 1 = y + i - 1
    OBVIOUS
  <2>2. w[a + i - 1] = r[Cell(s, y + i - 1)]
    BY <1>1, <2>1
  <2> QED
    BY <1>3, <2>2
<1> QED
  BY <1>3, <1>4, <1>5 DEF Holds

(* A stretch that goes on with the objects of a sequence.                  *)
LEMMA SegmentAdd ==
  ASSUME NEW s \in Word, NEW x \in Nat, NEW y \in Nat, NEW z \in Nat, x <= y, y <= z,
         NEW r \in Slots, NEW v, Holds(v, z - y, r, s, y)
  PROVE  Segment(r, s, x, z) = Segment(r, s, x, y) \o v
<1>1. PICK m \in Nat, n \in Nat : m = y - x /\ n = z - y
  OBVIOUS
<1>2. Holds(Segment(r, s, x, y), m, r, s, x) /\ Holds(v, n, r, s, y) /\ y = x + m
  BY <1>1, SegmentType
<1>3. Holds(Segment(r, s, x, y) \o v, m + n, r, s, x)
  BY <1>2, HoldsConcat
<1>4. m + n = z - x /\ x <= z
  BY <1>1
<1>5. Holds(Segment(r, s, x, z), m + n, r, s, x)
  BY <1>4, SegmentType
<1> QED
  BY <1>3, <1>5, HoldsSame

(* The front of a stretch, and what is left of it.                         *)
LEMMA SegmentSplit ==
  ASSUME NEW s \in Word, NEW x \in Nat, NEW n \in Nat \ {0}, NEW z \in Nat,
         NEW y \in Nat, y = x + n, y <= z, NEW r \in Slots
  PROVE  Splits(Segment(r, s, x, z), n, Segment(r, s, x, y), Segment(r, s, y, z))
<1> DEFINE w == Segment(r, s, x, z)
<1>1. PICK b \in Nat, a \in Nat \ {0} : b = z - x /\ a = n + 1
  OBVIOUS
<1>2. x <= z /\ y - x = n /\ x <= y /\ n - 1 + 1 = n /\ b - a + 1 = z - y
  BY <1>1
<1>3. /\ Holds(w, b, r, s, x) /\ Holds(Segment(r, s, x, y), n, r, s, x)
      /\ Holds(Segment(r, s, y, z), z - y, r, s, y)
  BY <1>1, <1>2, SegmentType
<1> HIDE DEF w
<1>4. Holds(SubSeq(w, 1, n), n, r, s, x)
  <2>1. n <= b /\ x = x + 1 - 1 /\ 1 <= n + 1 /\ 1 \in Nat \ {0}
    BY <1>1
  <2>2. Holds(SubSeq(w, 1, n), n - 1 + 1, r, s, x)
    BY <1>3, <2>1, HoldsSubSeq
  <2> QED
    BY <1>2, <2>2
<1>5. Holds(SubSeq(w, a, b), z - y, r, s, y)
  <2>1. a <= b + 1 /\ b <= b /\ y = x + a - 1
    BY <1>1
  <2>2. Holds(SubSeq(w, a, b), b - a + 1, r, s, y)
    BY <1>3, <2>1, HoldsSubSeq
  <2> QED
    BY <1>2, <2>2
<1>6. SubSeq(w, 1, n) = Segment(r, s, x, y) /\ SubSeq(w, a, b) = Segment(r, s, y, z)
  BY <1>3, <1>4, <1>5, HoldsSame
<1>7. Len(w) = b /\ n \in 1 .. b
  BY <1>1, <1>3 DEF Holds
<1> QED
  BY <1>1, <1>6, <1>7 DEF Splits, w

-----------------------------------------------------------------------------
(* The ring as a queue *)

(* What a producer has copied stands in its reservation.                   *)
Filled(s, p) ==
  /\ th[p].objs \in Seq(Objects)
  /\ At(p, "idle") => th[p].objs = <<>>
  /\ At(p, "publish") => th[p].i = th[p].n
  /\ Reserved(p) => \A k \in 1 .. th[p].i :
       ring[Cell(s, From(s, p) + k - 1)] = th[p].objs[k]

(* A consumer holds as many objects as it has copied.                      *)
Emptied(c) ==
  /\ Len(th[c].objs) = th[c].i
  /\ th[c].pc \in {"head", "entries", "cas"} => th[c].i = 0

FifoInv(s) ==
  /\ IndexInv(s)
  /\ \A p \in Producers : Filled(s, p)
  /\ \A c \in Consumers : Emptied(c)

(* What stands for the variables of the abstract queue, besides Queue.     *)
Call == [p \in Producers |-> th[p].objs]
Got  == [c \in Consumers |-> Taken(c)]

(* The queue is the stretch from the consumers' head to the producers'     *)
(* tail.                                                                   *)
QueueFact == \A s \in Starts : IndexInv(s) =>
  Queue = Segment(ring, s, Pos(s, cons.head), Pos(s, prod.tail))

(* The queue is that stretch in every state.                               *)
LEMMA QueueView == QueueFact
<1> SUFFICES ASSUME NEW s \in Starts, IndexInv(s)
             PROVE  Queue = Segment(ring, s, Pos(s, cons.head), Pos(s, prod.tail))
  BY DEF QueueFact
<1>1. /\ s \in Word /\ cons.head \in Word /\ prod.tail \in Word
      /\ Pos(s, cons.head) <= Pos(s, prod.tail)
  BY Words DEF IndexInv, Ordered
<1> QED
  BY <1>1, SegmentOf DEF Queue

(* And in the next one.                                                    *)
LEMMA QueueViewNext == QueueFact'
BY QueueView, PTL

(* Nothing the abstract queue is made of changes.                          *)
LEMMA Stutter ==
  ASSUME Queue' = Queue, Call' = Call, Got' = Got
  PROVE  [AbstractFifo!Next]_AbstractFifo!vars
BY DEF AbstractFifo!vars, Call, Got

-----------------------------------------------------------------------------
(* Steps of a producer, seen from the queue *)

(* A step of a producer that fills no slot.                                *)
LEMMA ProducerFrame ==
  ASSUME NEW s \in Starts, FifoInv(s), IndexInv(s)', NEW p \in Producers,
         \A u \in Threads : u # p => th'[u] = th[u],
         ring' = ring, cons' = cons, Filled(s, p)'
  PROVE  /\ FifoInv(s)' /\ Got' = Got
         /\ prod'.tail = prod.tail => Queue' = Queue
         /\ Call' = [Call EXCEPT ![p] = th'[p].objs]
         /\ th'[p].objs = th[p].objs => Call' = Call
<1>1. /\ p \notin Consumers /\ \A c \in Consumers : th'[c] = th[c]
      /\ \A q \in Producers : q # p => th'[q] = th[q]
  BY RingAssumption DEF Threads
<1>2. \A q \in Producers : Filled(s, q)'
  <2> SUFFICES ASSUME NEW q \in Producers, q # p PROVE Filled(s, q)'
    OBVIOUS
  <2>1. Filled(s, q) /\ th'[q] = th[q]
    BY <1>1 DEF FifoInv
  <2> QED
    BY <2>1 DEF Filled, At, Reserved, From
<1>3. \A c \in Consumers : Emptied(c)'
  BY <1>1 DEF FifoInv, Emptied
<1>4. Got' = Got
  BY <1>1 DEF Got, Taken, At
<1>5. prod'.tail = prod.tail => Queue' = Queue
  BY DEF Queue
<1>6. Call' = [Call EXCEPT ![p] = th'[p].objs]
  BY <1>1 DEF Call
<1>7. th'[p].objs = th[p].objs => Call' = Call
  BY <1>1 DEF Call
<1> QED
  BY <1>2, <1>3, <1>4, <1>5, <1>6, <1>7 DEF FifoInv

(* What the invariant says of one producer.                                *)
LEMMA ProducerFacts ==
  ASSUME NEW s \in Starts, FifoInv(s), NEW p \in Producers
  PROVE  /\ IndexInv(s) /\ TypeOK /\ Filled(s, p) /\ EnqOK(s, p)
         /\ p \in Threads /\ p \notin Consumers /\ th[p] \in Local
BY RingAssumption DEF FifoInv, IndexInv, TypeOK, Threads

(* Reading the head leaves the queue alone.                                *)
LEMMA EnqReadHeadFifo ==
  ASSUME NEW s \in Starts, FifoInv(s), NEW p \in Producers, EnqReadHead(p)
  PROVE  FifoInv(s)' /\ [AbstractFifo!Next]_AbstractFifo!vars
<1>1. /\ IndexInv(s) /\ Filled(s, p) /\ th \in [Threads -> Local] /\ p \in Threads
      /\ th[p] \in Local
  BY ProducerFacts DEF TypeOK, Slots
<1>2. IndexInv(s)'
  BY <1>1, EnqReadHeadInv
<1>3. /\ \A u \in Threads : u # p => th'[u] = th[u]
      /\ th'[p] = [th[p] EXCEPT !.old = prod.head, !.pc = "room"]
      /\ UNCHANGED <<prod, cons, ring, sent>>
  BY <1>1 DEF EnqReadHead
<1>4. th'[p].objs = th[p].objs /\ th'[p].pc = "room"
  BY <1>1, <1>3 DEF Local
<1>5. Filled(s, p)'
  BY <1>1, <1>4 DEF Filled, At, Reserved
<1> QED
  BY <1>2, <1>3, <1>4, <1>5, ProducerFrame, Stutter

(* A call that finds no room is refused.                                   *)
LEMMA EnqCheckRoomFifo ==
  ASSUME NEW s \in Starts, FifoInv(s), NEW p \in Producers, EnqCheckRoom(p)
  PROVE  FifoInv(s)' /\ [AbstractFifo!Next]_AbstractFifo!vars
<1>1. /\ IndexInv(s) /\ Filled(s, p) /\ th \in [Threads -> Local] /\ p \in Threads
      /\ th[p] \in Local /\ EnqOK(s, p)
  BY ProducerFacts DEF TypeOK, Slots
<1>2. IndexInv(s)'
  BY <1>1, EnqCheckRoomInv
<1>3. /\ \A u \in Threads : u # p => th'[u] = th[u]
      /\ th'[p] = IF th[p].n > free_entries(p) THEN Idle
                  ELSE [th[p] EXCEPT !.pc = "cas"]
      /\ UNCHANGED <<prod, cons, ring, sent>> /\ th[p].pc = "room"
  BY <1>1 DEF EnqCheckRoom, At
<1>4. CASE th[p].n > free_entries(p)
  <2>1. th'[p] = Idle
    BY <1>3, <1>4
  <2>2. th'[p].objs = <<>> /\ th'[p].pc = "idle"
    BY <2>1 DEF Idle
  <2>3. Filled(s, p)'
    BY <2>2 DEF Filled, At, Reserved
  <2>4. /\ FifoInv(s)' /\ Got' = Got /\ Queue' = Queue
        /\ Call' = [Call EXCEPT ![p] = <<>>]
    BY <1>2, <1>3, <2>2, <2>3, ProducerFrame
  <2>5. Call[p] # <<>>
    <3>1. th[p].n \in Nat \ {0} /\ Len(th[p].objs) = th[p].n
      BY <1>1, <1>3 DEF EnqOK
    <3> QED
      BY <3>1 DEF Call
  <2>6. AbstractFifo!Refuse(p)
    BY <2>4, <2>5 DEF AbstractFifo!Refuse, Call, Got
  <2> QED
    BY <2>4, <2>6 DEF AbstractFifo!Next
<1>5. CASE ~(th[p].n > free_entries(p))
  <2>1. th'[p].objs = th[p].objs /\ th'[p].pc = "cas"
    BY <1>1, <1>3, <1>5 DEF Local
  <2>2. Filled(s, p)'
    BY <1>1, <2>1 DEF Filled, At, Reserved
  <2> QED
    BY <1>2, <1>3, <2>1, <2>2, ProducerFrame, Stutter
<1> QED
  BY <1>4, <1>5

(* Reserving slots leaves the queue alone.                                 *)
LEMMA EnqMoveHeadFifo ==
  ASSUME NEW s \in Starts, FifoInv(s), NEW p \in Producers, EnqMoveHead(p)
  PROVE  FifoInv(s)' /\ [AbstractFifo!Next]_AbstractFifo!vars
<1>1. /\ IndexInv(s) /\ Filled(s, p) /\ th \in [Threads -> Local] /\ p \in Threads
      /\ th[p] \in Local /\ EnqOK(s, p) /\ prod \in [head : Word, tail : Word]
  BY ProducerFacts DEF TypeOK, Slots
<1>2. IndexInv(s)'
  BY <1>1, EnqMoveHeadInv
<1>3. PICK l \in {"copy", "head"} : th' = [th EXCEPT ![p].pc = l]
  BY DEF EnqMoveHead
<1>4. /\ UNCHANGED <<cons, ring, sent>> /\ th[p].pc = "cas" /\ prod'.tail = prod.tail
  BY <1>1 DEF EnqMoveHead, At
<1>5. /\ \A u \in Threads : u # p => th'[u] = th[u]
      /\ th'[p] = [th[p] EXCEPT !.pc = l]
  BY <1>1, <1>3
<1>6. th'[p].objs = th[p].objs /\ th'[p].pc = l /\ th'[p].i = th[p].i
  BY <1>1, <1>5 DEF Local
<1>7. th[p].i = 0
  BY <1>1, <1>4 DEF EnqOK, Pending
<1>8. Filled(s, p)'
  BY <1>1, <1>6, <1>7 DEF Filled, At, Reserved
<1> QED
  BY <1>2, <1>4, <1>5, <1>6, <1>8, ProducerFrame, Stutter

(* Filling a reserved slot changes no object in the queue, on its way out  *)
(* of it or already filled in by another call.                             *)
LEMMA EnqCopyFifo ==
  ASSUME NEW s \in Starts, FifoInv(s), NEW p \in Producers, EnqCopy(p)
  PROVE  FifoInv(s)' /\ [AbstractFifo!Next]_AbstractFifo!vars
<1>1. /\ IndexInv(s) /\ Filled(s, p) /\ th \in [Threads -> Local] /\ p \in Threads
      /\ p \notin Consumers /\ th[p] \in Local /\ EnqOK(s, p)
      /\ ring \in Slots
  BY ProducerFacts DEF TypeOK, Slots
<1>2. IndexInv(s)'
  BY <1>1, EnqCopyInv
<1> DEFINE i == th[p].i
           v == th[p].objs[i + 1]
           l == IF i + 1 = th[p].n THEN "publish" ELSE "copy"
           w == From(s, p) + i
<1>3. /\ th[p].pc = "copy" /\ UNCHANGED <<prod, cons, sent>>
      /\ \A u \in Threads : u # p => th'[u] = th[u]
      /\ th'[p] = [th[p] EXCEPT !.i = i + 1, !.pc = l]
      /\ ring' = [ring EXCEPT ![Slot(th[p].old + i)] = v]
  BY <1>1 DEF EnqCopy, At
<1>4. /\ i \in Nat /\ th[p].n \in Nat /\ i < th[p].n /\ Len(th[p].objs) = th[p].n
      /\ th[p].old \in Word /\ s \in Word /\ From(s, p) \in Nat
      /\ Pos(s, prod.head) \in Nat /\ Pos(s, prod.tail) \in Nat
      /\ Pos(s, cons.head) \in Nat /\ Pos(s, cons.tail) \in Nat
  BY <1>1, <1>3, Words DEF EnqOK, Local, IndexInv
<1>5. /\ w \in Nat /\ From(s, p) <= w /\ w < To(s, p)
      /\ Pos(s, cons.tail) <= Pos(s, cons.head)
      /\ Pos(s, cons.head) <= Pos(s, prod.tail)
      /\ Pos(s, prod.tail) <= w /\ w < Pos(s, prod.head)
      /\ Pos(s, prod.head) <= Pos(s, cons.tail) + (size - 1)
      /\ size \in Nat
  <2>1. Reserved(p)
    BY <1>3 DEF Reserved
  <2>2. /\ Pos(s, prod.tail) <= From(s, p) /\ To(s, p) <= Pos(s, prod.head)
        /\ To(s, p) = From(s, p) + th[p].n
    BY <1>1, <2>1 DEF EnqOK, From, To
  <2>3. /\ Pos(s, cons.tail) <= Pos(s, cons.head)
        /\ Pos(s, cons.head) <= Pos(s, prod.tail)
        /\ Pos(s, prod.head) <= Pos(s, cons.tail) + (size - 1)
    BY <1>1 DEF IndexInv, Ordered, capacity
  <2>4. size \in Nat
    BY RingAssumption
  <2>5. w \in Nat /\ From(s, p) <= w /\ w < To(s, p)
    BY <1>4, <2>2
  <2> HIDE DEF i, v, l, w
  <2>6. Pos(s, prod.tail) <= w
    BY <1>4, <2>2, <2>5
  <2>7. w < Pos(s, prod.head)
    BY <1>4, <2>2, <2>5
  <2> QED
    BY <2>3, <2>4, <2>5, <2>6, <2>7
<1>6. Slot(th[p].old + i) = Cell(s, w)
  BY <1>4, CellOf DEF From
<1>7. th'[p].objs = th[p].objs /\ th'[p].pc = l /\ th'[p].i = i + 1 /\ th'[p].old = th[p].old
  <2>1. PICK k \in Nat : k = i + 1
    BY <1>4
  <2>2. PICK o \in Local : o = th[p]
    BY <1>1
  <2>3. PICK x : x = l
    OBVIOUS
  <2>4. th'[p] = [o EXCEPT !.i = k, !.pc = x]
    BY <1>3, <2>1, <2>2, <2>3, Zenon
  <2> HIDE DEF i, l
  <2> QED
    BY <2>1, <2>2, <2>3, <2>4 DEF Local
<1>8. l \in {"publish", "copy"} /\ (l = "publish" => i + 1 = th[p].n)
  OBVIOUS
<1> HIDE DEF i, v, w, l
<1>9. ASSUME NEW z \in Nat, z # w, Pos(s, cons.tail) <= z, z < Pos(s, prod.head)
      PROVE  ring'[Cell(s, z)] = ring[Cell(s, z)]
  <2>1. z - w < size /\ w - z < size
    BY <1>4, <1>5, <1>9
  <2>2. Cell(s, z) # Cell(s, w)
    BY <1>4, <1>5, <1>9, <2>1, CellApart
  <2>3. Cell(s, z) \in 0 .. size - 1
    BY <1>4, CellType
  <2> QED
    BY <1>1, <1>3, <1>6, <2>2, <2>3 DEF Slots
<1>10. ring'[Cell(s, w)] = v
  <2>1. Cell(s, w) \in 0 .. size - 1
    BY <1>4, <1>5, CellType
  <2> QED
    BY <1>1, <1>3, <1>6, <2>1 DEF Slots
<1>11. Filled(s, p)'
  <2>1. \A k \in 1 .. i + 1 : ring'[Cell(s, From(s, p) + k - 1)] = th[p].objs[k]
    <3> SUFFICES ASSUME NEW k \in 1 .. i + 1
                 PROVE  ring'[Cell(s, From(s, p) + k - 1)] = th[p].objs[k]
      OBVIOUS
    <3>1. CASE k = i + 1
      <4>1. From(s, p) + k - 1 = w
        BY <1>4, <3>1 DEF w
      <4> QED
        BY <1>10, <3>1, <4>1 DEF v
    <3>2. CASE k # i + 1
      <4>1. PICK z \in Nat : z = From(s, p) + k - 1
        BY <1>4
      <4>2. z # w /\ Pos(s, cons.tail) <= z /\ z < Pos(s, prod.head) /\ k \in 1 .. i
        <5>1. Pos(s, prod.tail) <= From(s, p)
          BY <1>1, <1>3 DEF EnqOK, Reserved
        <5> QED
          BY <1>4, <1>5, <3>2, <4>1, <5>1 DEF w
      <4>3. ring[Cell(s, z)] = th[p].objs[k]
        BY <1>1, <1>3, <4>1, <4>2 DEF Filled, Reserved, i
      <4> QED
        BY <1>9, <4>1, <4>2, <4>3
    <3> QED
      BY <3>1, <3>2
  <2>2. From(s, p)' = From(s, p)
    BY <1>7 DEF From
  <2>3. th'[p].n = th[p].n
    BY <1>1, <1>3 DEF Local
  <2> QED
    BY <1>1, <1>7, <1>8, <2>1, <2>2, <2>3 DEF Filled, At
<1>12. \A q \in Producers : Filled(s, q)'
  <2> SUFFICES ASSUME NEW q \in Producers, q # p PROVE Filled(s, q)'
    BY <1>11
  <2>1. /\ Filled(s, q) /\ th'[q] = th[q] /\ q \in Threads /\ EnqOK(s, q)
        /\ th[q] \in Local /\ From(s, q) \in Nat /\ th[q].n \in Nat /\ th[q].i \in Nat
    <3>1. q \in Threads
      BY DEF Threads
    <3>2. th[q].i \in Nat
      BY <1>1, <3>1 DEF Local
    <3> QED
      BY <1>3, <3>1, <3>2, ProducerFacts, Words
  <2>2. ASSUME Reserved(q), NEW k \in 1 .. th[q].i
        PROVE  ring'[Cell(s, From(s, q) + k - 1)] = th[q].objs[k]
    <3>1. PICK z \in Nat : z = From(s, q) + k - 1
      BY <2>1
    <3>2. th[q].i <= th[q].n
      BY <2>1, <2>2 DEF EnqOK, Filled, Reserved, At
    <3>3. /\ From(s, q) <= z /\ z < To(s, q) /\ To(s, q) = From(s, q) + th[q].n
      BY <2>1, <3>1, <3>2 DEF From, To
    <3>4. Pos(s, prod.tail) <= From(s, q) /\ To(s, q) <= Pos(s, prod.head)
      BY <2>1, <2>2 DEF EnqOK
    <3>5. To(s, p) <= From(s, q) \/ To(s, q) <= From(s, p)
      <4>1. Apart(s, p, q) /\ Reserved(p)
        BY <1>1, <1>3 DEF IndexInv, Reserved
      <4> QED
        BY <2>2, <4>1 DEF Apart
    <3>6. To(s, p) = From(s, p) + th[p].n
      BY DEF From, To
    <3>7. z # w /\ Pos(s, cons.tail) <= z /\ z < Pos(s, prod.head)
      <4>1. z # w
        <5>1. CASE To(s, p) <= From(s, q)
          BY <1>4, <1>5, <2>1, <3>1, <3>3, <3>6, <5>1
        <5>2. CASE To(s, q) <= From(s, p)
          BY <1>4, <1>5, <2>1, <3>1, <3>3, <5>2
        <5> QED
          BY <3>5, <5>1, <5>2
      <4>2. z < Pos(s, prod.head)
        BY <1>4, <2>1, <3>1, <3>3, <3>4
      <4>3. Pos(s, cons.tail) <= z
        BY <1>4, <1>5, <2>1, <3>1, <3>3, <3>4
      <4> QED
        BY <4>1, <4>2, <4>3
    <3>8. ring[Cell(s, z)] = th[q].objs[k]
      BY <2>1, <2>2, <3>1 DEF Filled
    <3> QED
      BY <1>9, <3>1, <3>7, <3>8
  <2>3. From(s, q)' = From(s, q)
    BY <2>1 DEF From
  <2> QED
    BY <2>1, <2>2, <2>3 DEF Filled, At, Reserved
<1>13. \A c \in Consumers : Emptied(c)' /\ th'[c] = th[c]
  <2>1. \A c \in Consumers : Emptied(c) /\ th'[c] = th[c]
    BY <1>1, <1>3 DEF FifoInv, Threads
  <2> QED
    BY <2>1 DEF Emptied
<1>14. FifoInv(s)'
  BY <1>2, <1>12, <1>13 DEF FifoInv
<1>15. Queue' = Queue
  <2> DEFINE h == Pos(s, cons.head)
             t == Pos(s, prod.tail)
  <2>1. ASSUME NEW k \in 1 .. t - h
        PROVE  ring'[Cell(s, h + k - 1)] = ring[Cell(s, h + k - 1)]
    <3>1. PICK z \in Nat : z = h + k - 1
      BY <1>4
    <3>2. z # w /\ Pos(s, cons.tail) <= z /\ z < Pos(s, prod.head)
      BY <1>4, <1>5, <3>1
    <3> QED
      BY <1>9, <3>1, <3>2
  <2>2. Queue = Segment(ring, s, h, t) /\ Queue' = Segment(ring', s, h, t)
    BY <1>1, <1>2, <1>3, QueueView, QueueViewNext DEF QueueFact
  <2> HIDE DEF h, t
  <2>3. Segment(ring, s, h, t) = Segment(ring', s, h, t)
    BY <2>1 DEF Segment
  <2> QED
    BY <2>2, <2>3
<1>16. Got' = Got
  <2> SUFFICES ASSUME NEW c \in Consumers PROVE Taken(c)' = Taken(c)
    BY DEF Got
  <2>1. /\ th'[c] = th[c] /\ c \in Threads /\ DeqOK(s, c) /\ th[c].old \in Word
        /\ th[c].n \in Nat /\ From(s, c) \in Nat
    BY <1>1, <1>13, Words DEF IndexInv, Threads
  <2>2. ASSUME Reserved(c), NEW k \in 1 .. th[c].n
        PROVE  ring'[Slot(th[c].old + k - 1)] = ring[Slot(th[c].old + k - 1)]
    <3>1. PICK z \in Nat : z = From(s, c) + k - 1
      BY <2>1
    <3>2. Slot(th[c].old + k - 1) = Cell(s, z)
      <4>1. /\ k - 1 \in Nat /\ th[c].old + (k - 1) = th[c].old + k - 1
            /\ z = Pos(s, th[c].old) + (k - 1)
        BY <2>1, <3>1 DEF From, Word
      <4>2. Slot(th[c].old + (k - 1)) = Cell(s, Pos(s, th[c].old) + (k - 1))
        BY <1>4, <2>1, <4>1, CellOf
      <4> QED
        BY <4>1, <4>2
    <3>3. /\ Pos(s, cons.tail) <= From(s, c) /\ To(s, c) <= Pos(s, cons.head)
          /\ To(s, c) = From(s, c) + th[c].n
      BY <2>1, <2>2 DEF DeqOK, From, To
    <3>4. z # w /\ Pos(s, cons.tail) <= z /\ z < Pos(s, prod.head)
      <4>1. z < Pos(s, cons.head)
        BY <1>4, <2>1, <3>1, <3>3
      <4>2. Pos(s, cons.tail) <= z
        BY <1>4, <2>1, <3>1, <3>3
      <4> QED
        BY <1>4, <1>5, <3>1, <4>1, <4>2
    <3> QED
      BY <1>9, <3>2, <3>4
  <2> QED
    BY <2>1, <2>2 DEF Taken, At, Reserved
<1>17. Call' = Call
  <2>1. \A q \in Producers : th'[q].objs = th[q].objs
    BY <1>3, <1>7 DEF Threads
  <2> QED
    BY <2>1 DEF Call
<1> QED
  BY <1>14, <1>15, <1>16, <1>17, Stutter

(* Publishing puts the objects of the call at the end of the queue.        *)
LEMMA EnqUpdateTailFifo ==
  ASSUME NEW s \in Starts, FifoInv(s), NEW p \in Producers, EnqUpdateTail(p)
  PROVE  FifoInv(s)' /\ [AbstractFifo!Next]_AbstractFifo!vars
<1> DEFINE e == Plus(th[p].old, th[p].n)
           h == Pos(s, cons.head)
           t == Pos(s, prod.tail)
           o == th[p].objs
<1>1. /\ IndexInv(s) /\ Filled(s, p) /\ th \in [Threads -> Local] /\ p \in Threads
      /\ p \notin Consumers /\ th[p] \in Local /\ EnqOK(s, p)
      /\ ring \in Slots /\ prod \in [head : Word, tail : Word]
  BY ProducerFacts DEF TypeOK, Slots
<1>2. IndexInv(s)'
  BY <1>1, EnqUpdateTailInv
<1>3. /\ th[p].pc = "publish" /\ th'[p] = Idle
      /\ \A u \in Threads : u # p => th'[u] = th[u]
      /\ prod'.tail = e /\ UNCHANGED <<cons, ring, sent>>
  BY <1>1 DEF EnqUpdateTail, At
<1>4. Reserved(p) /\ th[p].old = prod.tail
  BY <1>1, <1>3 DEF EnqUpdateTail, IndexInv, EnqAlone, Reserved
<1>5. /\ th[p].n \in Nat \ {0} /\ th[p].i = th[p].n /\ Len(o) = th[p].n /\ o \in Seq(Nat)
      /\ th[p].old \in Word /\ s \in Word /\ From(s, p) = t
      /\ Pos(s, prod.head) \in Nat /\ t \in Nat /\ h \in Nat /\ Pos(s, cons.tail) \in Nat
      /\ cons.head \in Word /\ prod.head \in Word
  <2>1. /\ th[p].n \in Nat \ {0} /\ th[p].i = th[p].n /\ Len(o) = th[p].n
    BY <1>1, <1>3 DEF EnqOK, Filled, At
  <2>2. o \in Seq(Nat)
    BY <1>1 DEF Local
  <2> QED
    BY <1>1, <1>4, <2>1, <2>2, Words DEF IndexInv, From
<1>6. /\ h <= t /\ t + th[p].n <= Pos(s, prod.head)
      /\ t + th[p].n <= h + capacity
  <2>1. t + th[p].n <= Pos(s, prod.head)
    BY <1>1, <1>4, <1>5 DEF EnqOK, From, To
  <2>2. /\ Pos(s, cons.tail) <= h /\ h <= t
        /\ Pos(s, prod.head) <= Pos(s, cons.tail) + capacity
    BY <1>1 DEF IndexInv, Ordered
  <2>3. capacity \in Nat
    BY RingAssumption DEF capacity
  <2> HIDE DEF h, t
  <2> QED
    BY <1>5, <2>1, <2>2, <2>3
<1>7. e \in Word /\ Pos(s, e) = t + th[p].n
  <2>1. Pos(s, prod.head) \in Word /\ IndexMod \in Nat
    BY <1>5, PosType, RingAssumption
  <2>2. Pos(s, th[p].old) = t
    BY <1>4
  <2>3. Pos(s, th[p].old) + th[p].n < IndexMod
    BY <1>5, <1>6, <2>1, <2>2 DEF Word
  <2> QED
    BY <1>5, <2>2, <2>3, PosPlus
<1>8. th'[p].objs = <<>> /\ th'[p].pc = "idle"
  BY <1>3 DEF Idle
<1>9. Filled(s, p)'
  BY <1>8 DEF Filled, At, Reserved
<1>10. FifoInv(s)' /\ Got' = Got /\ Call' = [Call EXCEPT ![p] = <<>>]
  BY <1>2, <1>3, <1>8, <1>9, ProducerFrame
<1>11. /\ Queue = Segment(ring, s, h, t)
       /\ Queue' = Segment(ring, s, h, t + th[p].n)
  BY <1>1, <1>2, <1>3, <1>7, QueueView, QueueViewNext DEF QueueFact
<1>12. \A k \in 1 .. th[p].n : ring[Cell(s, t + k - 1)] = o[k]
  BY <1>1, <1>4, <1>5 DEF Filled
<1>13. PICK n \in Nat \ {0} : n = th[p].n
  BY <1>5
<1> HIDE DEF e, h, t, o
<1>14. /\ Segment(ring, s, h, t + n) = Segment(ring, s, h, t) \o o
       /\ Len(Segment(ring, s, h, t)) = t - h
  <2>1. PICK z \in Nat : z = t + n
    BY <1>5
  <2>2. h <= t /\ t <= z /\ z - t = n
    BY <1>5, <1>6, <2>1
  <2>3. Holds(o, z - t, ring, s, t)
    BY <1>5, <1>12, <1>13, <2>2 DEF Holds
  <2>4. s \in Word /\ h \in Nat /\ t \in Nat /\ z \in Nat /\ ring \in Slots
    BY <1>1, <1>5, <2>1
  <2>5. Segment(ring, s, h, z) = Segment(ring, s, h, t) \o o
    BY ONLY <2>2, <2>3, <2>4, SegmentAdd
  <2>6. Holds(Segment(ring, s, h, t), t - h, ring, s, h)
    BY ONLY <2>2, <2>4, SegmentType
  <2> QED
    BY <2>1, <2>5, <2>6 DEF Holds
<1>15. Queue' = Queue \o o
  BY <1>11, <1>13, <1>14
<1>16. Len(Queue) + Len(o) <= capacity
  <2>1. capacity \in Nat
    BY RingAssumption DEF capacity
  <2> QED
    BY <1>5, <1>6, <1>11, <1>14, <2>1
<1>17. Call[p] = o /\ o # <<>>
  <2>1. o # <<>>
    BY <1>5
  <2> QED
    BY <2>1 DEF Call, o
<1>18. AbstractFifo!Put(p)
  BY <1>10, <1>15, <1>16, <1>17 DEF AbstractFifo!Put, Call, Got
<1> QED
  BY <1>10, <1>18 DEF AbstractFifo!Next

(* A call offers new objects.                                              *)
LEMMA EnqueueFifo ==
  ASSUME NEW s \in Starts, FifoInv(s), NEW p \in Producers, NEW n \in 1 .. MaxBurst,
         femu_ring_enqueue(p, n)
  PROVE  FifoInv(s)' /\ [AbstractFifo!Next]_AbstractFifo!vars
<1> DEFINE objs == [k \in 1 .. n |-> sent + k]
<1>1. /\ IndexInv(s) /\ Filled(s, p) /\ th \in [Threads -> Local] /\ p \in Threads
      /\ sent \in Nat /\ n \in Nat \ {0}
  BY ProducerFacts DEF TypeOK, Slots
<1>2. IndexInv(s)'
  BY <1>1, EnqueueInv
<1>3. /\ th[p].pc = "idle" /\ sent + n <= MaxObjects
      /\ \A u \in Threads : u # p => th'[u] = th[u]
      /\ th'[p] = [Idle EXCEPT !.pc = "head", !.n = n, !.objs = objs]
      /\ UNCHANGED <<prod, cons, ring>>
  BY <1>1 DEF femu_ring_enqueue, At
<1>4. objs \in Seq(Objects) /\ objs # <<>>
  <2>1. MaxObjects \in Nat
    BY RingAssumption
  <2>2. \A k \in 1 .. n : sent + k \in 1 .. MaxObjects
    BY <1>1, <1>3, <2>1
  <2>3. objs \in [1 .. n -> Objects]
    BY <2>2 DEF Objects
  <2>4. objs \in Seq(Objects)
    BY <1>1, <2>3
  <2>5. 1 \in DOMAIN objs
    BY <1>1
  <2>6. objs # <<>>
    BY <2>5
  <2> QED
    BY <2>4, <2>6
<1> HIDE DEF objs
<1>5. th'[p].objs = objs /\ th'[p].pc = "head"
  BY <1>3 DEF Idle
<1>6. Filled(s, p)'
  BY <1>4, <1>5 DEF Filled, At, Reserved
<1>7. /\ FifoInv(s)' /\ Got' = Got /\ Queue' = Queue
      /\ Call' = [Call EXCEPT ![p] = objs]
  BY <1>2, <1>3, <1>5, <1>6, ProducerFrame
<1>8. Call[p] = <<>> /\ Call'[p] = objs
  BY <1>1, <1>3, <1>5 DEF Call, Filled, At
<1>9. AbstractFifo!Offer(p)
  BY <1>4, <1>7, <1>8 DEF AbstractFifo!Offer, Call, Got
<1> QED
  BY <1>7, <1>9 DEF AbstractFifo!Next

-----------------------------------------------------------------------------
(* Steps of a consumer, seen from the queue *)

(* A step of a consumer.                                                   *)
LEMMA ConsumerFrame ==
  ASSUME NEW s \in Starts, FifoInv(s), IndexInv(s)', NEW c \in Consumers,
         \A u \in Threads : u # c => th'[u] = th[u],
         ring' = ring, prod' = prod, Emptied(c)'
  PROVE  /\ FifoInv(s)' /\ Call' = Call
         /\ cons'.head = cons.head => Queue' = Queue
         /\ Got' = [Got EXCEPT ![c] = Taken(c)']
<1>1. /\ c \notin Producers /\ \A p \in Producers : th'[p] = th[p]
      /\ \A d \in Consumers : d # c => th'[d] = th[d]
  BY RingAssumption DEF Threads
<1>2. \A p \in Producers : Filled(s, p)'
  <2> SUFFICES ASSUME NEW p \in Producers PROVE Filled(s, p)'
    OBVIOUS
  <2>1. Filled(s, p) /\ th'[p] = th[p]
    BY <1>1 DEF FifoInv
  <2> QED
    BY <2>1 DEF Filled, At, Reserved, From
<1>3. \A d \in Consumers : Emptied(d)'
  BY <1>1 DEF FifoInv, Emptied
<1>4. \A d \in Consumers : d # c => Taken(d)' = Taken(d)
  BY <1>1 DEF Taken, At
<1>5. Got' = [Got EXCEPT ![c] = Taken(c)']
  BY <1>4 DEF Got
<1>6. cons'.head = cons.head => Queue' = Queue
  BY DEF Queue
<1>7. Call' = Call
  BY <1>1 DEF Call
<1> QED
  BY <1>2, <1>3, <1>5, <1>6, <1>7 DEF FifoInv

(* What the invariant says of one consumer.                                *)
LEMMA ConsumerFacts ==
  ASSUME NEW s \in Starts, FifoInv(s), NEW c \in Consumers
  PROVE  /\ IndexInv(s) /\ TypeOK /\ Emptied(c) /\ DeqOK(s, c)
         /\ c \in Threads /\ c \notin Producers /\ th[c] \in Local
BY RingAssumption DEF FifoInv, IndexInv, TypeOK, Threads

(* A consumer that takes what it took before changes nothing.              *)
LEMMA ConsumerStutter ==
  ASSUME NEW s \in Starts, FifoInv(s), IndexInv(s)', NEW c \in Consumers,
         \A u \in Threads : u # c => th'[u] = th[u],
         ring' = ring, prod' = prod, Emptied(c)',
         cons'.head = cons.head, Taken(c)' = Taken(c)
  PROVE  FifoInv(s)' /\ [AbstractFifo!Next]_AbstractFifo!vars
<1>1. FifoInv(s)' /\ Call' = Call /\ Queue' = Queue /\ Got' = [Got EXCEPT ![c] = Taken(c)']
  BY ConsumerFrame
<1>2. Got' = Got
  BY <1>1 DEF Got
<1> QED
  BY <1>1, <1>2, Stutter

(* A call of a consumer has taken nothing yet.                             *)
LEMMA DequeueFifo ==
  ASSUME NEW s \in Starts, FifoInv(s), NEW c \in Consumers, NEW n \in 1 .. MaxBurst,
         femu_ring_dequeue(c, n)
  PROVE  FifoInv(s)' /\ [AbstractFifo!Next]_AbstractFifo!vars
<1>1. /\ IndexInv(s) /\ th \in [Threads -> Local] /\ c \in Threads
  BY ConsumerFacts DEF TypeOK
<1>2. IndexInv(s)'
  BY <1>1, DequeueInv
<1>3. /\ th[c].pc = "idle" /\ UNCHANGED <<prod, cons, ring, sent>>
      /\ \A u \in Threads : u # c => th'[u] = th[u]
      /\ th'[c] = [Idle EXCEPT !.pc = "head", !.n = n]
  BY <1>1 DEF femu_ring_dequeue, At
<1>4. th'[c].objs = <<>> /\ th'[c].i = 0 /\ th'[c].pc = "head"
  BY <1>3 DEF Idle
<1>5. Emptied(c)'
  BY <1>4 DEF Emptied
<1>6. Taken(c)' = Taken(c)
  BY <1>3, <1>4 DEF Taken, At
<1> QED
  BY <1>2, <1>3, <1>5, <1>6, ConsumerStutter

(* Nor has one that reads the head ...                                     *)
LEMMA DeqReadHeadFifo ==
  ASSUME NEW s \in Starts, FifoInv(s), NEW c \in Consumers, DeqReadHead(c)
  PROVE  FifoInv(s)' /\ [AbstractFifo!Next]_AbstractFifo!vars
<1>1. /\ IndexInv(s) /\ th \in [Threads -> Local] /\ c \in Threads /\ th[c] \in Local
      /\ Emptied(c)
  BY ConsumerFacts DEF TypeOK
<1>2. IndexInv(s)'
  BY <1>1, DeqReadHeadInv
<1>3. /\ th[c].pc = "head" /\ UNCHANGED <<prod, cons, ring, sent>>
      /\ \A u \in Threads : u # c => th'[u] = th[u]
      /\ th'[c] = [th[c] EXCEPT !.old = cons.head, !.pc = "entries"]
  BY <1>1 DEF DeqReadHead, At
<1>4. th'[c].objs = th[c].objs /\ th'[c].i = th[c].i /\ th'[c].pc = "entries"
  BY <1>1, <1>3 DEF Local
<1>5. Emptied(c)'
  BY <1>1, <1>3, <1>4 DEF Emptied
<1>6. Taken(c)' = Taken(c)
  BY <1>3, <1>4 DEF Taken, At
<1> QED
  BY <1>2, <1>3, <1>5, <1>6, ConsumerStutter

(* ... or counts what there is.                                            *)
LEMMA DeqCheckEntriesFifo ==
  ASSUME NEW s \in Starts, FifoInv(s), NEW c \in Consumers, DeqCheckEntries(c)
  PROVE  FifoInv(s)' /\ [AbstractFifo!Next]_AbstractFifo!vars
<1>1. /\ IndexInv(s) /\ th \in [Threads -> Local] /\ c \in Threads /\ th[c] \in Local
      /\ Emptied(c)
  BY ConsumerFacts DEF TypeOK
<1>2. IndexInv(s)'
  BY <1>1, DeqCheckEntriesInv
<1>3. PICK m : th' = [th EXCEPT ![c] = IF m = 0 THEN [Idle EXCEPT !.pc = "nothing"]
                                       ELSE [@ EXCEPT !.n = m, !.pc = "cas"]]
  BY DEF DeqCheckEntries
<1>4. th[c].pc = "entries" /\ UNCHANGED <<prod, cons, ring, sent>>
  BY DEF DeqCheckEntries, At
<1>5. /\ \A u \in Threads : u # c => th'[u] = th[u]
      /\ th'[c] = IF m = 0 THEN [Idle EXCEPT !.pc = "nothing"]
                  ELSE [th[c] EXCEPT !.n = m, !.pc = "cas"]
  BY <1>1, <1>3
<1>6. /\ th'[c].pc \in {"nothing", "cas"} /\ Len(th'[c].objs) = th'[c].i
      /\ th'[c].pc = "cas" => th'[c].i = 0
  <2>1. CASE m = 0
    BY <1>5, <2>1 DEF Idle
  <2>2. CASE m # 0
    <3>1. th'[c].objs = th[c].objs /\ th'[c].i = th[c].i /\ th'[c].pc = "cas"
      BY <1>1, <1>5, <2>2 DEF Local
    <3> QED
      BY <1>1, <1>4, <3>1 DEF Emptied
  <2> QED
    BY <2>1, <2>2
<1>7. Emptied(c)'
  BY <1>6 DEF Emptied
<1>8. Taken(c)' = Taken(c)
  BY <1>4, <1>6 DEF Taken, At
<1> QED
  BY <1>2, <1>4, <1>5, <1>7, <1>8, ConsumerStutter

(* Reserving for reading takes the objects from the front of the queue.    *)
LEMMA DeqMoveHeadFifo ==
  ASSUME NEW s \in Starts, FifoInv(s), NEW c \in Consumers, DeqMoveHead(c)
  PROVE  FifoInv(s)' /\ [AbstractFifo!Next]_AbstractFifo!vars
<1>1. /\ IndexInv(s) /\ th \in [Threads -> Local] /\ c \in Threads /\ th[c] \in Local
      /\ Emptied(c) /\ DeqOK(s, c) /\ ring \in Slots /\ cons \in [head : Word, tail : Word]
  BY ConsumerFacts DEF TypeOK, Slots
<1>2. IndexInv(s)'
  BY <1>1, DeqMoveHeadInv
<1>3. th[c].pc = "cas" /\ UNCHANGED <<prod, ring, sent>> /\ th[c].i = 0
  BY <1>1 DEF DeqMoveHead, At, Emptied
<1>4. Taken(c) = <<>>
  BY <1>3 DEF Taken, At
<1>5. CASE ~(single_cons \/ cons.head = th[c].old)
  <2>1. /\ cons' = cons /\ th'[c] = [th[c] EXCEPT !.pc = "head"]
        /\ \A u \in Threads : u # c => th'[u] = th[u]
    BY <1>1, <1>5 DEF DeqMoveHead
  <2>2. th'[c].objs = th[c].objs /\ th'[c].i = th[c].i /\ th'[c].pc = "head"
    BY <1>1, <2>1 DEF Local
  <2>3. Emptied(c)' /\ Taken(c)' = Taken(c)
    BY <1>1, <1>3, <1>4, <2>2 DEF Emptied, Taken, At
  <2> QED
    BY <1>2, <1>3, <2>1, <2>3, ConsumerStutter
<1>6. CASE single_cons \/ cons.head = th[c].old
  <2> DEFINE e == Plus(th[c].old, th[c].n)
             h == Pos(s, cons.head)
             t == Pos(s, prod.tail)
  <2>1. /\ cons'.head = e /\ th'[c] = [th[c] EXCEPT !.pc = "copy"]
        /\ \A u \in Threads : u # c => th'[u] = th[u]
    BY <1>1, <1>6 DEF DeqMoveHead
  <2>2. /\ th'[c].objs = th[c].objs /\ th'[c].i = 0 /\ th'[c].pc = "copy"
        /\ th'[c].n = th[c].n /\ th'[c].old = th[c].old
    BY <1>1, <1>3, <2>1 DEF Local
  <2>3. Emptied(c)'
    BY <1>1, <1>3, <2>2 DEF Emptied
  <2>4. th[c].old = cons.head
    BY <1>1, <1>3, <1>6 DEF IndexInv, DeqAlone
  <2>5. PICK n \in Nat \ {0} : n = th[c].n
    BY <1>1, <1>3 DEF DeqOK
  <2>6. /\ s \in Word /\ cons.head \in Word /\ prod.tail \in Word
        /\ h \in Nat /\ t \in Nat /\ h + n <= t
    <3>1. /\ s \in Word /\ cons.head \in Word /\ prod.tail \in Word
          /\ h \in Nat /\ t \in Nat
      BY <1>1, Words DEF IndexInv
    <3> QED
      BY <1>1, <1>3, <2>4, <2>5, <3>1 DEF DeqOK, To
  <2>7. e \in Word /\ Pos(s, e) = h + n
    <3>1. t \in Word /\ IndexMod \in Nat
      BY <2>6, PosType, RingAssumption
    <3>2. Pos(s, cons.head) + n < IndexMod
      BY <2>6, <3>1 DEF Word
    <3> QED
      BY <2>4, <2>5, <2>6, <3>2, PosPlus
  <2>8. /\ Queue = Segment(ring, s, h, t)
        /\ Queue' = Segment(ring, s, h + n, t)
    BY <1>1, <1>2, <1>3, <2>1, <2>7, QueueView, QueueViewNext DEF QueueFact
  <2>9. Taken(c)' = [k \in 1 .. n |-> ring[Slot(cons.head + k - 1)]]
    BY <1>3, <2>2, <2>4, <2>5 DEF Taken, At
  <2> HIDE DEF e, h, t
  <2>10. Pos(s, cons.head) = h
    BY DEF h
  <2>11. Taken(c)' = Segment(ring, s, h, h + n)
    <3>1. Pos(s, cons.head) <= Pos(s, e)
      BY <2>6, <2>7, <2>10
    <3>2. Dist(cons.head, e) = n
      <4>1. Dist(cons.head, e) = Pos(s, e) - Pos(s, cons.head)
        BY <2>6, <2>7, <3>1, DistPos
      <4> QED
        BY <2>6, <2>7, <2>10, <4>1
    <3>3. [k \in 1 .. Dist(cons.head, e) |-> ring[Slot(cons.head + k - 1)]] =
            Segment(ring, s, Pos(s, cons.head), Pos(s, e))
      BY <2>6, <2>7, <3>1, SegmentOf
    <3> QED
      BY <2>7, <2>9, <2>10, <3>2, <3>3
  <2>12. Splits(Segment(ring, s, h, t), n, Segment(ring, s, h, h + n),
                Segment(ring, s, h + n, t))
    <3>1. PICK y \in Nat : y = h + n
      BY <2>6
    <3>2. /\ s \in Word /\ h \in Nat /\ n \in Nat \ {0} /\ t \in Nat /\ y \in Nat
          /\ ring \in Slots /\ y = h + n /\ y <= t
      BY <1>1, <2>5, <2>6, <3>1
    <3>3. Splits(Segment(ring, s, h, t), n, Segment(ring, s, h, y), Segment(ring, s, y, t))
      BY ONLY <3>2, SegmentSplit
    <3> QED
      BY <3>1, <3>3
  <2>13. /\ FifoInv(s)' /\ Call' = Call /\ Got' = [Got EXCEPT ![c] = Taken(c)']
    BY <1>2, <1>3, <2>1, <2>3, ConsumerFrame
  <2>14. Got[c] = <<>>
    BY <1>4 DEF Got
  <2>15. n \in 1 .. Len(Queue) /\ Taken(c)' = SubSeq(Queue, 1, n)
         /\ Queue' = SubSeq(Queue, n + 1, Len(Queue))
    BY <2>8, <2>11, <2>12 DEF Splits
  <2>16. AbstractFifo!Take(c, n)
    BY <2>13, <2>14, <2>15 DEF AbstractFifo!Take, Call, Got
  <2> QED
    BY <2>13, <2>15, <2>16 DEF AbstractFifo!Next
<1> QED
  BY <1>5, <1>6

(* Copying an object out changes nothing: it was taken with the others.    *)
LEMMA DeqCopyFifo ==
  ASSUME NEW s \in Starts, FifoInv(s), NEW c \in Consumers, DeqCopy(c)
  PROVE  FifoInv(s)' /\ [AbstractFifo!Next]_AbstractFifo!vars
<1> DEFINE i == th[c].i
           v == ring[Slot(th[c].old + i)]
           l == IF i + 1 = th[c].n THEN "publish" ELSE "copy"
<1>1. /\ IndexInv(s) /\ th \in [Threads -> Local] /\ c \in Threads /\ th[c] \in Local
      /\ Emptied(c) /\ ring \in Slots
  BY ConsumerFacts DEF TypeOK, Slots
<1>2. IndexInv(s)'
  BY <1>1, DeqCopyInv
<1>3. /\ th[c].pc = "copy" /\ UNCHANGED <<prod, cons, ring, sent>>
      /\ \A u \in Threads : u # c => th'[u] = th[u]
      /\ th'[c] = [th[c] EXCEPT !.i = i + 1, !.objs = Append(th[c].objs, v), !.pc = l]
  BY <1>1 DEF DeqCopy, At
<1>4. /\ i \in Nat /\ th[c].objs \in Seq(Nat) /\ Len(th[c].objs) = i /\ v \in Nat
      /\ th[c].old \in Nat /\ th[c].n \in Nat
  <2>1. /\ i \in Nat /\ th[c].objs \in Seq(Nat) /\ Len(th[c].objs) = i
        /\ th[c].old \in Nat /\ th[c].n \in Nat
    BY <1>1 DEF Local, Emptied, Word
  <2>2. Slot(th[c].old + i) \in 0 .. size - 1
    <3>1. size \in Nat \ {0} /\ th[c].old + i \in Nat
      BY <2>1, RingAssumption
    <3> QED
      BY <3>1 DEF Slot
  <2> QED
    BY <1>1, <2>1, <2>2 DEF Slots
<1> DEFINE o == Append(th[c].objs, v)
<1>5. /\ Len(o) = i + 1 /\ o[i + 1] = v
      /\ \A k \in 1 .. i : o[k] = th[c].objs[k]
  BY <1>4, AppendProperties
<1>6. /\ th'[c].objs = o /\ th'[c].i = i + 1 /\ th'[c].pc = l
      /\ th'[c].n = th[c].n /\ th'[c].old = th[c].old
  <2>1. PICK a \in Local : a = th[c]
    BY <1>1
  <2>2. PICK x, y, z : x = i + 1 /\ y = o /\ z = l
    OBVIOUS
  <2>3. th'[c] = [a EXCEPT !.i = x, !.objs = y, !.pc = z]
    BY <1>3, <2>1, <2>2, Zenon
  <2> HIDE DEF i, v, l, o
  <2> QED
    BY <2>1, <2>2, <2>3 DEF Local
<1>7. l \in {"publish", "copy"}
  OBVIOUS
<1> HIDE DEF v, l, o
<1>8. Emptied(c)'
  BY <1>5, <1>6, <1>7 DEF Emptied
<1>9. Taken(c)' = Taken(c)
  <2>1. ASSUME NEW k \in 1 .. th[c].n
        PROVE  (IF k <= i + 1 THEN o[k] ELSE ring[Slot(th[c].old + k - 1)]) =
               (IF k <= i THEN th[c].objs[k] ELSE ring[Slot(th[c].old + k - 1)])
    <3>1. CASE k <= i
      BY <1>4, <1>5, <3>1
    <3>2. CASE k = i + 1
      <4>1. th[c].old + k - 1 = th[c].old + i
        BY <1>4, <3>2
      <4> QED
        BY <1>4, <1>5, <3>2, <4>1 DEF v
    <3>3. CASE k > i + 1
      BY <1>4, <3>3
    <3> QED
      BY <1>4, <3>1, <3>2, <3>3
  <2>2. Taken(c)' = [k \in 1 .. th[c].n |-> IF k <= i + 1 THEN o[k]
                                            ELSE ring[Slot(th[c].old + k - 1)]]
    BY <1>3, <1>6, <1>7 DEF Taken, At
  <2>3. Taken(c) = [k \in 1 .. th[c].n |-> IF k <= i THEN th[c].objs[k]
                                           ELSE ring[Slot(th[c].old + k - 1)]]
    BY <1>3 DEF Taken, At
  <2> HIDE DEF i
  <2> QED
    BY <2>1, <2>2, <2>3
<1> QED
  BY <1>2, <1>3, <1>8, <1>9, ConsumerStutter

(* Releasing the slots hands the objects to the caller.                    *)
LEMMA DeqUpdateTailFifo ==
  ASSUME NEW s \in Starts, FifoInv(s), NEW c \in Consumers, DeqUpdateTail(c)
  PROVE  FifoInv(s)' /\ [AbstractFifo!Next]_AbstractFifo!vars
<1>1. /\ IndexInv(s) /\ th \in [Threads -> Local] /\ c \in Threads /\ th[c] \in Local
      /\ DeqOK(s, c) /\ cons \in [head : Word, tail : Word]
  BY ConsumerFacts DEF TypeOK
<1>2. IndexInv(s)'
  BY <1>1, DeqUpdateTailInv
<1>3. /\ th[c].pc = "publish" /\ UNCHANGED <<prod, ring, sent>> /\ th'[c] = Idle
      /\ \A u \in Threads : u # c => th'[u] = th[u]
      /\ cons'.head = cons.head
  BY <1>1 DEF DeqUpdateTail, At
<1>4. th'[c].objs = <<>> /\ th'[c].i = 0 /\ th'[c].pc = "idle"
  BY <1>3, IdleLocal
<1>5. Emptied(c)' /\ Taken(c)' = <<>>
  BY <1>4 DEF Emptied, Taken, At
<1>6. /\ FifoInv(s)' /\ Call' = Call /\ Queue' = Queue /\ Got' = [Got EXCEPT ![c] = <<>>]
  BY <1>2, <1>3, <1>5, ConsumerFrame
<1>7. Got[c] # <<>>
  <2>1. th[c].n \in Nat \ {0}
    BY <1>1, <1>3 DEF DeqOK
  <2>2. 1 \in DOMAIN Taken(c)
    BY <1>3, <2>1 DEF Taken, At
  <2>3. Taken(c) # <<>>
    BY <2>2
  <2> QED
    BY <2>3 DEF Got
<1>8. AbstractFifo!Deliver(c)
  BY <1>6, <1>7 DEF AbstractFifo!Deliver, Call, Got
<1> QED
  BY <1>6, <1>8 DEF AbstractFifo!Next

-----------------------------------------------------------------------------
(* The ring implements the queue *)

(* An empty ring is an empty queue, and nobody is in a call.               *)
LEMMA InitFifo == Init => (\E s \in Starts : FifoInv(s)) /\ AbstractFifo!Init
<1> SUFFICES ASSUME Init PROVE (\E s \in Starts : FifoInv(s)) /\ AbstractFifo!Init
  OBVIOUS
<1>1. PICK s \in Starts : IndexInv(s)
  BY InitInv DEF Inv
<1>2. PICK a \in Starts : prod = [head |-> a, tail |-> a] /\ cons = [head |-> a, tail |-> a]
  BY DEF Init
<1>3. \A t \in Threads : th[t] = Idle
  BY DEF Init, Threads
<1>4. \A t \in Threads : th[t].pc = "idle" /\ th[t].objs = <<>> /\ th[t].i = 0
  BY <1>3, IdleLocal
<1>5. FifoInv(s)
  <2>1. \A p \in Producers : Filled(s, p)
    <3>1. <<>> \in Seq(Objects)
      OBVIOUS
    <3>2. \A p \in Producers : th[p].pc = "idle" /\ th[p].objs = <<>>
      BY <1>4 DEF Threads
    <3> QED
      BY <3>1, <3>2 DEF Filled, At, Reserved
  <2>2. \A c \in Consumers : Emptied(c)
    BY <1>4 DEF Emptied, Threads
  <2> QED
    BY <1>1, <2>1, <2>2 DEF FifoInv
<1>6. Queue = <<>>
  <2>1. Dist(cons.head, prod.tail) = 0
    <3>1. a \in Word /\ cons.head = a /\ prod.tail = a
      BY <1>2, RingAssumption DEF Word
    <3> QED
      BY <3>1, DistValue DEF Word
  <2> QED
    BY <2>1 DEF Queue
<1>7. Call = [p \in Producers |-> <<>>]
  BY <1>4 DEF Call, Threads
<1>8. Got = [c \in Consumers |-> <<>>]
  BY <1>4 DEF Got, Taken, At, Threads
<1> QED
  BY <1>5, <1>6, <1>7, <1>8 DEF AbstractFifo!Init, Call, Got

(* Every step of the ring is a step of the queue or none.                  *)
LEMMA StepFifo ==
  ASSUME NEW s \in Starts, FifoInv(s), [Next]_vars
  PROVE  FifoInv(s)' /\ [AbstractFifo!Next]_AbstractFifo!vars
<1> DEFINE Goal == FifoInv(s)' /\ [AbstractFifo!Next]_AbstractFifo!vars
<1>1. ASSUME NEW p \in Producers, EnqStep(p) PROVE Goal
  BY <1>1, EnqReadHeadFifo, EnqCheckRoomFifo, EnqMoveHeadFifo, EnqCopyFifo,
     EnqUpdateTailFifo DEF EnqStep
<1>2. ASSUME NEW p \in Producers, NEW n \in 1 .. MaxBurst, femu_ring_enqueue(p, n)
      PROVE  Goal
  BY <1>2, EnqueueFifo
<1>3. ASSUME NEW c \in Consumers, DeqStep(c) PROVE Goal
  BY <1>3, DeqReadHeadFifo, DeqCheckEntriesFifo, DeqMoveHeadFifo, DeqCopyFifo,
     DeqUpdateTailFifo DEF DeqStep
<1>4. ASSUME NEW c \in Consumers, NEW n \in 1 .. MaxBurst, femu_ring_dequeue(c, n)
      PROVE  Goal
  BY <1>4, DequeueFifo
<1>5. CASE UNCHANGED vars
  <2>1. UNCHANGED <<prod, cons, ring, th, sent>>
    BY <1>5 DEF vars
  <2>2. IndexInv(s)'
    BY StepInv DEF FifoInv
  <2>3. (\A p \in Producers : Filled(s, p)') /\ (\A c \in Consumers : Emptied(c)')
    BY <2>1 DEF FifoInv, Filled, Emptied, At, Reserved, From
  <2>4. Queue' = Queue /\ Call' = Call /\ Got' = Got
    BY <2>1 DEF Queue, Call, Got, Taken, At
  <2> QED
    BY <2>2, <2>3, <2>4, Stutter DEF FifoInv
<1> QED
  BY <1>1, <1>2, <1>3, <1>4, <1>5 DEF Next

(* femu_ring_enqueue and femu_ring_dequeue, however their loads, stores    *)
(* and compare-and-sets interleave and wrap, behave as a bounded first-in  *)
(* first-out queue: a bulk enqueue puts its objects at the end together or *)
(* is refused, and a dequeue hands out what was at the front.              *)
THEOREM RingImplementsFifo == Spec => ImplementsFifo
<1> DEFINE FInv == \E s \in Starts : FifoInv(s)
<1>1. Init => FInv /\ AbstractFifo!Init
  BY InitFifo
<1>2. FInv /\ [Next]_vars => FInv' /\ [AbstractFifo!Next]_AbstractFifo!vars
  BY StepFifo
<1> QED
  BY <1>1, <1>2, PTL DEF Spec, ImplementsFifo, AbstractFifo!Spec

=============================================================================
