------------------------------- MODULE RteRing ------------------------------
(***************************************************************************)
(* The lock-free ring of femu/inc/rte_ring.h, through which pollers and    *)
(* the FTL thread pass requests. A thread reserves slots by moving a head  *)
(* index, copies objects, and publishes by moving the tail index in the    *)
(* order of the reservations. Indices are unsigned words: they run modulo  *)
(* IndexMod (2^32 in the code), the slot of an index is its value modulo   *)
(* size. Every access to shared memory is a step; x86 keeps the order of   *)
(* the loads and of the stores, and the compiler barriers that of the      *)
(* program.                                                                *)
(*                                                                         *)
(* femu_ring_enqueue is the bulk form (all or nothing), femu_ring_dequeue  *)
(* the burst form (as many as there are); the consumers ask                *)
(* femu_ring_count first, as ftl_thread and nvme_process_cq_cpl do.        *)
(***************************************************************************)
EXTENDS Integers, Sequences

CONSTANTS
  Producers, Consumers,
  size,          \* of the ring, a power of two
  IndexMod,      \* 2^32, a multiple of size
  Starts,        \* index values at which the ring is empty in the beginning
  MaxBurst,      \* bound: objects of one call
  MaxObjects,    \* bound: objects enqueued in all, fewer than IndexMod so that
                 \* no thread sleeps through a whole cycle of an index
  single_prod, single_cons   \* RING_F_SP_ENQ, RING_F_SC_DEQ

ASSUME RingAssumption ==
  /\ size \in Nat \ {0, 1} /\ IndexMod \in Nat /\ IndexMod % size = 0
  /\ size <= IndexMod
  /\ MaxBurst \in Nat \ {0} /\ MaxObjects \in Nat /\ MaxObjects < IndexMod
  /\ Starts \subseteq 0 .. IndexMod - 1 /\ Starts # {}
  /\ single_prod \in BOOLEAN /\ single_cons \in BOOLEAN
  /\ Producers \cap Consumers = {}

\* "Single-producer, single-consumer" of enum femu_ring_type: the creator of
\* the ring chooses the flags for the threads that will use it.
ASSUME SingleAssumption ==
  /\ single_prod => \A p, q \in Producers : p = q
  /\ single_cons => \A c, d \in Consumers : c = d

capacity == size - 1
Objects  == 1 .. MaxObjects
NoObject == 0

VARIABLES
  prod, cons,    \* struct rte_ring_headtail
  ring,          \* the slots
  th,            \* locals of the call each thread is in
  sent           \* objects handed to femu_ring_enqueue so far

vars == <<prod, cons, ring, th, sent>>

Plus(a, k)   == (a + k) % IndexMod
Dist(a, b)   == (b - a) % IndexMod          \* b - a of two unsigned words
Slot(a)      == a % size                    \* a & mask

\* Locals: old_head, the number n of objects, how many are copied, and the
\* caller's table.
Idle == [pc |-> "idle", old |-> 0, n |-> 0, i |-> 0, objs |-> <<>>]

Init ==
  \E s \in Starts :
    /\ prod = [head |-> s, tail |-> s]
    /\ cons = [head |-> s, tail |-> s]
    /\ ring = [k \in 0 .. size - 1 |-> NoObject]
    /\ th = [t \in Producers \cup Consumers |-> Idle]
    /\ sent = 0

At(t, l) == th[t].pc = l

-----------------------------------------------------------------------------
(* __rte_ring_do_enqueue *)

femu_ring_enqueue(p, n) ==
  /\ At(p, "idle")
  /\ sent + n <= MaxObjects
  /\ sent' = sent + n
  /\ th' = [th EXCEPT ![p] = [Idle EXCEPT !.pc = "head", !.n = n,
                                          !.objs = [k \in 1 .. n |-> sent + k]]]
  /\ UNCHANGED <<prod, cons, ring>>

EnqReadHead(p) ==
  /\ At(p, "head")
  /\ th' = [th EXCEPT ![p].old = prod.head, ![p].pc = "room"]
  /\ UNCHANGED <<prod, cons, ring, sent>>

\* Mutant: the whole ring may be used, so that full looks like empty.
free_entries_All(p) == (size + cons.tail - th[p].old) % IndexMod

free_entries(p) == (capacity + cons.tail - th[p].old) % IndexMod

\* RTE_RING_QUEUE_FIXED: nothing is enqueued when not everything fits.
EnqCheckRoom(p) ==
  /\ At(p, "room")
  /\ th' = [th EXCEPT ![p] = IF th[p].n > free_entries(p) THEN Idle
                             ELSE [@ EXCEPT !.pc = "cas"]]
  /\ UNCHANGED <<prod, cons, ring, sent>>

\* rte_atomic32_cmpset, or a plain store for a single producer; a failed one
\* starts over.
EnqMoveHead(p) ==
  /\ At(p, "cas")
  /\ IF single_prod \/ prod.head = th[p].old
     THEN /\ prod' = [prod EXCEPT !.head = Plus(th[p].old, th[p].n)]
          /\ th' = [th EXCEPT ![p].pc = "copy"]
     ELSE /\ th' = [th EXCEPT ![p].pc = "head"]
          /\ UNCHANGED prod
  /\ UNCHANGED <<cons, ring, sent>>

\* One iteration of ENQUEUE_PTRS.
EnqCopy(p) ==
  LET i == th[p].i
  IN  /\ At(p, "copy")
      /\ ring' = [ring EXCEPT ![Slot(th[p].old + i)] = th[p].objs[i + 1]]
      /\ th' = [th EXCEPT ![p].i = i + 1,
                          ![p].pc = IF i + 1 = th[p].n THEN "publish" ELSE "copy"]
      /\ UNCHANGED <<prod, cons, sent>>

\* Mutant: the tail moves without waiting for the reservations before.
EnqUpdateTail_NoWait(p) ==
  /\ At(p, "publish")
  /\ prod' = [prod EXCEPT !.tail = Plus(th[p].old, th[p].n)]
  /\ th' = [th EXCEPT ![p] = Idle]
  /\ UNCHANGED <<cons, ring, sent>>

\* Mutant: waits for the wrong end of its own reservation.
EnqUpdateTail_WaitsForItself(p) ==
  /\ At(p, "publish")
  /\ prod.tail = Plus(th[p].old, th[p].n)
  /\ th' = [th EXCEPT ![p] = Idle]
  /\ UNCHANGED <<prod, cons, ring, sent>>

\* update_tail: spins until the reservations before are published.
EnqUpdateTail(p) ==
  /\ At(p, "publish")
  /\ single_prod \/ prod.tail = th[p].old
  /\ prod' = [prod EXCEPT !.tail = Plus(th[p].old, th[p].n)]
  /\ th' = [th EXCEPT ![p] = Idle]
  /\ UNCHANGED <<cons, ring, sent>>

-----------------------------------------------------------------------------
(* femu_ring_count, then __rte_ring_do_dequeue *)

\* Mutant: slots that are reserved but not yet filled are counted.
rte_ring_count_Reserved == Dist(cons.tail, prod.head) % size

\* The tails are read one after the other; the caller is the thread that
\* moves cons.tail, and an older prod.tail only counts fewer.
rte_ring_count == Dist(cons.tail, prod.tail) % size

femu_ring_dequeue(c, n) ==
  /\ At(c, "idle")
  /\ rte_ring_count > 0
  /\ th' = [th EXCEPT ![c] = [Idle EXCEPT !.pc = "head", !.n = n]]
  /\ UNCHANGED <<prod, cons, ring, sent>>

DeqReadHead(c) ==
  /\ At(c, "head")
  /\ th' = [th EXCEPT ![c].old = cons.head, ![c].pc = "entries"]
  /\ UNCHANGED <<prod, cons, ring, sent>>

\* RTE_RING_QUEUE_VARIABLE. A dequeue of nothing is recorded as "nothing".
DeqCheckEntries(c) ==
  LET entries == Dist(th[c].old, prod.tail)
      n       == IF th[c].n > entries THEN entries ELSE th[c].n
  IN  /\ At(c, "entries")
      /\ th' = [th EXCEPT ![c] = IF n = 0 THEN [Idle EXCEPT !.pc = "nothing"]
                                 ELSE [@ EXCEPT !.n = n, !.pc = "cas"]]
      /\ UNCHANGED <<prod, cons, ring, sent>>

DeqMoveHead(c) ==
  /\ At(c, "cas")
  /\ IF single_cons \/ cons.head = th[c].old
     THEN /\ cons' = [cons EXCEPT !.head = Plus(th[c].old, th[c].n)]
          /\ th' = [th EXCEPT ![c].pc = "copy"]
     ELSE /\ th' = [th EXCEPT ![c].pc = "head"]
          /\ UNCHANGED cons
  /\ UNCHANGED <<prod, ring, sent>>

\* One iteration of DEQUEUE_PTRS.
DeqCopy(c) ==
  LET i == th[c].i
  IN  /\ At(c, "copy")
      /\ th' = [th EXCEPT ![c].i = i + 1,
                          ![c].objs = Append(@, ring[Slot(th[c].old + i)]),
                          ![c].pc = IF i + 1 = th[c].n THEN "publish" ELSE "copy"]
      /\ UNCHANGED <<prod, cons, ring, sent>>

DeqUpdateTail(c) ==
  /\ At(c, "publish")
  /\ single_cons \/ cons.tail = th[c].old
  /\ cons' = [cons EXCEPT !.tail = Plus(th[c].old, th[c].n)]
  /\ th' = [th EXCEPT ![c] = Idle]
  /\ UNCHANGED <<prod, ring, sent>>

-----------------------------------------------------------------------------
EnqStep(p) == EnqReadHead(p) \/ EnqCheckRoom(p) \/ EnqMoveHead(p) \/ EnqCopy(p)
                \/ EnqUpdateTail(p)
DeqStep(c) == DeqReadHead(c) \/ DeqCheckEntries(c) \/ DeqMoveHead(c)
                \/ DeqCopy(c) \/ DeqUpdateTail(c)

Next ==
  \/ \E p \in Producers : EnqStep(p) \/ \E n \in 1 .. MaxBurst : femu_ring_enqueue(p, n)
  \/ \E c \in Consumers : DeqStep(c) \/ \E n \in 1 .. MaxBurst : femu_ring_dequeue(c, n)

\* Threads run: pollers and the FTL thread are busy loops. The consumer comes
\* back to its ring whenever it is not empty; nothing makes a producer call.
Fairness ==
  /\ \A p \in Producers : WF_vars(EnqStep(p))
  /\ \A c \in Consumers :
       WF_vars(DeqStep(c)) /\ WF_vars(\E n \in 1 .. MaxBurst : femu_ring_dequeue(c, n))

Spec == Init /\ [][Next]_vars /\ Fairness

-----------------------------------------------------------------------------
(* Correctness *)

\* Going up from cons.tail one meets cons.head, prod.tail and prod.head within
\* `capacity' slots, whatever wraps round and however stale the indices a
\* thread has read: no slot is reserved twice, and none is filled again before
\* the consumer has read and released it. "free_entries" of rte_ring.h:407.
IndicesOrdered ==
  LET ch == Dist(cons.tail, cons.head)
      pt == Dist(cons.tail, prod.tail)
      ph == Dist(cons.tail, prod.head)
  IN  ch <= pt /\ pt <= ph /\ ph <= capacity

\* A consumer that has found the ring not empty never comes back without an
\* object: ftl_thread and nvme_process_cq_cpl treat that as an error.
CountMeansDequeue == \A c \in Consumers : ~At(c, "nothing")

\* The ring is a first-in first-out queue of the objects published and not yet
\* taken; a bulk enqueue is one event, whichever calls overlap.
Queue == [k \in 1 .. Dist(cons.head, prod.tail) |-> ring[Slot(cons.head + k - 1)]]
Taken(c) ==
  IF At(c, "copy") \/ At(c, "publish")
  THEN [k \in 1 .. th[c].n |-> IF k <= th[c].i THEN th[c].objs[k]
                               ELSE ring[Slot(th[c].old + k - 1)]]
  ELSE <<>>
AbstractFifo ==
  INSTANCE Fifo WITH q <- Queue,
                     call <- [p \in Producers |-> th[p].objs],
                     got <- [c \in Consumers |-> Taken(c)]
ImplementsFifo == AbstractFifo!Spec

\* Every call of either side returns: a failed compare-and-set is retried and
\* the wait of update_tail ends, because the reservations before are published.
CallsReturn == \A t \in Producers \cup Consumers : ~At(t, "idle") ~> At(t, "idle")

=============================================================================
