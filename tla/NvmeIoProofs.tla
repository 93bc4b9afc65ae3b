---------------------------- MODULE NvmeIoProofs ----------------------------
(***************************************************************************)
(* For every device (number and size of queues, one poller or one per      *)
(* queue, with the FTL or without), every latency and every command that   *)
(* fails: a request structure is in one place only, a command in one stage *)
(* only, structures do not run out before tags do, and the two rings of a  *)
(* queue pair are never overrun.                                           *)
(*                                                                         *)
(* The completion queue is not overrun because every completion carries    *)
(* another of the host's qsize - 1 tags; the tags differ because entries   *)
(* are fetched once, which needs the order of the four indices of the      *)
(* submission queue; and these stay in order because the host learns of    *)
(* the controller's head through completions it reaps in order. So one     *)
(* invariant holds them all.                                               *)
(***************************************************************************)
EXTENDS NvmeIo, FiniteSetTheorems, TLAPS

-----------------------------------------------------------------------------
(* The shape of the state *)

Labels == {"sq", "fetch", "drain", "post", "recycle", "isr", "crash"}

Host    == [tail : Slots, sq_head : Slots, cq_head : Slots, phase : {0, 1},
            busy : SUBSET Cids, in_isr : BOOLEAN]
Sqe     == [cid : Cids, ok : BOOLEAN]
Cqe     == [cid : Cids, phase : {0, 1}, sq_head : Slots]
Request == [cid : Cids, expire_time : Nat]
Poller  == [pc : Labels, q : Queues, req : Reqs \cup {NoReq}, processed : BOOLEAN]

TypeOK ==
  /\ conf \in Configs
  /\ host \in [Queues -> Host]
  /\ sqmem \in [Queues -> [Slots -> Sqe]]
  /\ cqmem \in [Queues -> [Slots -> Cqe]]
  /\ irq \in SUBSET Queues
  /\ ncmds \in Nat /\ naborts \in Nat
  /\ dropped \in [Queues -> SUBSET Cids]
  /\ sq \in [Queues -> [head : Slots, tail : Slots]]
  /\ cq \in [Queues -> [tail : Slots, phase : {0, 1}]]
  /\ req_list \in [Queues -> Seq(Reqs)]
  /\ out_req_list \in [Queues -> SUBSET Reqs]
  /\ req \in [Reqs -> Request]
  /\ to_ftl \in [Pollers -> Seq(Reqs)]
  /\ to_poller \in [Pollers -> Seq(Reqs)]
  /\ ftl \in [req : Reqs \cup {NoReq}, from : Pollers]
  /\ pq \in [Pollers -> SUBSET Reqs]
  /\ poller \in [Pollers -> Poller]
  /\ should_isr \in SUBSET Queues
  /\ now \in Nat

-----------------------------------------------------------------------------
(* Where a request structure is *)

Rng(s) == {s[i] : i \in DOMAIN s}

Distinct(s) == \A i, j \in DOMAIN s : s[i] = s[j] => i = j

\* The holders: a free list and a list of aborted requests for every queue,
\* two rings and a priority queue for every poller, and the FTL.
Home    == ({"free", "out"} \X Queues)
Flying  == ({"to_ftl", "to_poller", "pq"} \X Pollers) \cup {<<"ftl", 0>>}
Holders == Home \cup Flying
Nowhere == <<"nowhere", 0>>

Held(h) ==
  CASE h[1] = "free"      -> Rng(req_list[h[2]])
    [] h[1] = "out"       -> out_req_list[h[2]]
    [] h[1] = "to_ftl"    -> Rng(to_ftl[h[2]])
    [] h[1] = "to_poller" -> Rng(to_poller[h[2]])
    [] h[1] = "pq"        -> pq[h[2]]
    [] OTHER              -> {ftl.req} \ {NoReq}

\* No request is held twice, and the requests of a queue are only where its
\* poller looks for them.
Separate ==
  \A h, k \in Holders, r \in Reqs : r \in Held(h) /\ r \in Held(k) => h = k

SequencesDistinct ==
  /\ \A q \in Queues : Distinct(req_list[q])
  /\ \A p \in Pollers : Distinct(to_ftl[p]) /\ Distinct(to_poller[p])

AtHome ==
  \A q \in Queues :
    /\ \A r \in Rng(req_list[q]) : r[1] = q
    /\ \A r \in out_req_list[q] : r[1] = q

Serving ==
  multipoller_enabled =>
    \A p \in Pollers :
      /\ poller[p].q = p
      /\ \A r \in Reqs :
           r \in Rng(to_ftl[p]) \/ r \in Rng(to_poller[p]) \/ r \in pq[p]
             \/ (ftl.req = r /\ ftl.from = p) => r[1] = p

\* The completion posted last is of a request still in the priority queue.
PosterOK ==
  \A p \in Pollers :
    /\ poller[p].pc = "recycle" => poller[p].req # NoReq
    /\ poller[p].req # NoReq =>
         poller[p].pc \in {"recycle", "crash"} /\ poller[p].req \in pq[p]

NothingAborted == naborts = 0 => \A q \in Queues : out_req_list[q] = {}

-----------------------------------------------------------------------------
(* Where a command is *)

Flight(q) == {r \in Reqs : r[1] = q /\ \E h \in Flying : r \in Held(h)}
Lost(q)   == {r \in Reqs : r[1] = q /\ \A h \in Holders : r \notin Held(h)}

Queued(q)   == Between(sq[q].head, host[q].tail)
Unreaped(q) == Between(host[q].cq_head, cq[q].tail)

\* The stages of commands: entries not fetched, requests not posted, entries
\* not reaped, commands dropped.
StageSet(queued, flight, unreaped, dead) ==
  ({"sq"} \X queued) \cup ({"req"} \X flight) \cup ({"cq"} \X unreaped)
    \cup ({"dropped"} \X dead)

Stages(q) == StageSet(Queued(q), Flight(q) \ Posted, Unreaped(q), dropped[q])

CidOf(q, e) ==
  CASE e[1] = "sq"  -> sqmem[q][e[2]].cid
    [] e[1] = "req" -> req[e[2]].cid
    [] e[1] = "cq"  -> cqmem[q][e[2]].cid
    [] OTHER        -> e[2]

\* Stages and outstanding commands correspond one to one; so do structures
\* lost and commands dropped.
OneStage(q) ==
  /\ \A e \in Stages(q) : CidOf(q, e) \in host[q].busy
  /\ \A e, f \in Stages(q) : CidOf(q, e) = CidOf(q, f) => e = f
  /\ \A c \in host[q].busy : \E e \in Stages(q) : CidOf(q, e) = c

LostOnce(q) ==
  /\ \A r \in Lost(q) : req[r].cid \in dropped[q]
  /\ \A r, s \in Lost(q) : req[r].cid = req[s].cid => r = s
  /\ \A c \in dropped[q] : \E r \in Lost(q) : req[r].cid = c

-----------------------------------------------------------------------------
(* The indices of a queue pair, by their distances round the ring *)

Dist(i, j) == IF i <= j THEN j - i ELSE j - i + qsize

\* The host's idea of the head, the controller's head, its tail and the
\* host's; and the heads that completions under way tell, in their order.
SqOrder(q) ==
  LET d(i)    == Dist(host[q].sq_head, i)
      told(s) == d(cqmem[q][s].sq_head)
      pos(s)  == Dist(host[q].cq_head, s)
  IN  /\ d(sq[q].head) <= d(sq[q].tail)
      /\ d(sq[q].tail) <= d(host[q].tail)
      /\ \A s \in Unreaped(q) : told(s) <= d(sq[q].head)
      /\ \A s, t \in Unreaped(q) : pos(s) <= pos(t) => told(s) <= told(t)

\* The controller's phase differs from the host's while it is a round ahead.
PhaseOrder(q) ==
  /\ cq[q].phase = IF host[q].cq_head <= cq[q].tail THEN host[q].phase
                                                    ELSE 1 - host[q].phase
  /\ \A s \in Slots :
       (cqmem[q][s].phase =
          IF s >= host[q].cq_head THEN host[q].phase ELSE 1 - host[q].phase)
       <=> s \in Unreaped(q)

-----------------------------------------------------------------------------

Structures ==
  /\ Separate /\ SequencesDistinct /\ AtHome /\ Serving /\ PosterOK
  /\ NothingAborted

QueuePair(q) == OneStage(q) /\ LostOnce(q) /\ SqOrder(q) /\ PhaseOrder(q)

IInv == TypeOK /\ Structures /\ \A q \in Queues : QueuePair(q)

-----------------------------------------------------------------------------
(* Constants *)

(* The sets an action's queues, slots and requests are taken from.         *)
LEMMA ConfFacts ==
  ASSUME conf \in Configs
  PROVE  /\ num_io_queues \in Nat \ {0} /\ qsize \in Nat /\ qsize >= 2
         /\ BBSSD \in BOOLEAN /\ multipoller_enabled \in BOOLEAN
         /\ ring_size \in Nat /\ ring_size >= num_io_queues * qsize
         /\ 1 \in Pollers /\ Pollers \subseteq Queues /\ Queues \subseteq Nat
         /\ 0 \in Slots /\ 0 \in Cids /\ Slots \subseteq Nat
         /\ NoReq \notin Reqs
BY SizeAssumption
   DEF num_io_queues, qsize, BBSSD, multipoller_enabled, Pollers, Queues, Slots,
       Cids, Reqs, NoReq

\* What depends on the device alone stays the same.
SameDevice ==
  /\ Queues' = Queues /\ Pollers' = Pollers /\ Slots' = Slots /\ Cids' = Cids
  /\ Reqs' = Reqs /\ qsize' = qsize /\ num_io_queues' = num_io_queues
  /\ multipoller_enabled' = multipoller_enabled
  /\ Host' = Host /\ Sqe' = Sqe /\ Cqe' = Cqe /\ Request' = Request
  /\ Poller' = Poller /\ Holders' = Holders /\ Flying' = Flying

(* The variable conf never changes.                                        *)
LEMMA DeviceFixed == ASSUME UNCHANGED conf PROVE SameDevice
<1>1. /\ qsize' = qsize /\ num_io_queues' = num_io_queues
      /\ multipoller_enabled' = multipoller_enabled
  BY Zenon DEF qsize, num_io_queues, multipoller_enabled
<1>2. Queues' = Queues /\ Slots' = Slots /\ Cids' = Cids
  BY <1>1, Zenon DEF Queues, Slots, Cids
<1>3. Pollers' = Pollers /\ Reqs' = Reqs
  BY <1>1, <1>2, Zenon DEF Pollers, Reqs
<1>4. Host' = Host /\ Sqe' = Sqe /\ Cqe' = Cqe /\ Request' = Request
      /\ Poller' = Poller
  BY <1>2, <1>3, Zenon DEF Host, Sqe, Cqe, Request, Poller
<1>5. Holders' = Holders /\ Flying' = Flying
  BY <1>2, <1>3, Zenon DEF Holders, Home, Flying
<1> QED
  BY <1>1, <1>2, <1>3, <1>4, <1>5 DEF SameDevice

-----------------------------------------------------------------------------
(* Lists and rings of requests *)

(* Taking the first of a list of distinct elements.                        *)
LEMMA TakeFirst ==
  ASSUME NEW S, NEW s \in Seq(S), Distinct(s), s # <<>>
  PROVE  /\ Head(s) \in Rng(s) /\ Head(s) \in S /\ Tail(s) \in Seq(S)
         /\ Distinct(Tail(s)) /\ Rng(Tail(s)) = Rng(s) \ {Head(s)}
<1>1. /\ Len(s) \in Nat /\ Len(s) >= 1 /\ DOMAIN s = 1 .. Len(s)
      /\ Head(s) = s[1] /\ Head(s) \in S /\ Tail(s) \in Seq(S)
      /\ DOMAIN Tail(s) = 1 .. Len(s) - 1
      /\ \A i \in 1 .. Len(s) - 1 : Tail(s)[i] = s[i + 1]
  OBVIOUS
<1>2. Distinct(Tail(s))
  BY <1>1 DEF Distinct
<1>3. Head(s) \in Rng(s)
  BY <1>1 DEF Rng
<1>4. ASSUME NEW x \in Rng(Tail(s)) PROVE x \in Rng(s) \ {Head(s)}
  <2>1. PICK i \in 1 .. Len(s) - 1 : x = s[i + 1]
    BY <1>1, <1>4 DEF Rng
  <2>2. i + 1 \in DOMAIN s /\ 1 \in DOMAIN s /\ i + 1 # 1
    BY <1>1
  <2> QED
    BY <1>1, <2>1, <2>2 DEF Rng, Distinct
<1>5. ASSUME NEW x \in Rng(s), x # Head(s) PROVE x \in Rng(Tail(s))
  <2>1. PICK i \in 1 .. Len(s) : x = s[i]
    BY <1>1, <1>5 DEF Rng
  <2>2. i - 1 \in 1 .. Len(s) - 1 /\ (i - 1) + 1 = i
    BY <1>1, <1>5, <2>1
  <2>3. Tail(s)[i - 1] = x
    BY <1>1, <2>1, <2>2
  <2> QED
    BY <1>1, <2>2, <2>3 DEF Rng
<1> QED
  BY <1>1, <1>2, <1>3, <1>4, <1>5

(* Appending a new element.                                                *)
LEMMA AddLast ==
  ASSUME NEW S, NEW s \in Seq(S), Distinct(s), NEW x \in S, x \notin Rng(s)
  PROVE  /\ Append(s, x) \in Seq(S) /\ Distinct(Append(s, x))
         /\ Rng(Append(s, x)) = Rng(s) \cup {x}
<1> DEFINE t == Append(s, x)
<1>1. /\ Len(s) \in Nat /\ DOMAIN s = 1 .. Len(s) /\ t \in Seq(S)
      /\ DOMAIN t = 1 .. Len(s) + 1 /\ t[Len(s) + 1] = x
      /\ \A i \in 1 .. Len(s) : t[i] = s[i]
  OBVIOUS
<1> HIDE DEF t
<1>2. Distinct(t)
  <2> SUFFICES ASSUME NEW i \in 1 .. Len(s) + 1, NEW j \in 1 .. Len(s) + 1, t[i] = t[j]
               PROVE  i = j
    BY <1>1 DEF Distinct
  <2>1. CASE i \in 1 .. Len(s) /\ j \in 1 .. Len(s)
    BY <1>1, <2>1 DEF Distinct
  <2>2. CASE i = Len(s) + 1 /\ j \in 1 .. Len(s)
    BY <1>1, <2>2 DEF Rng
  <2>3. CASE j = Len(s) + 1 /\ i \in 1 .. Len(s)
    BY <1>1, <2>3 DEF Rng
  <2> QED
    BY <1>1, <2>1, <2>2, <2>3
<1>3. Rng(t) = Rng(s) \cup {x}
  <2>1. ASSUME NEW y \in Rng(t) PROVE y \in Rng(s) \cup {x}
    <3>1. PICK i \in 1 .. Len(s) + 1 : y = t[i]
      BY <1>1, <2>1 DEF Rng
    <3>2. i \in 1 .. Len(s) \/ i = Len(s) + 1
      BY <1>1
    <3> QED
      BY <1>1, <3>1, <3>2 DEF Rng
  <2>2. ASSUME NEW y \in Rng(s) PROVE y \in Rng(t)
    <3>1. PICK i \in 1 .. Len(s) : y = s[i]
      BY <1>1, <2>2 DEF Rng
    <3>2. i \in DOMAIN t
      BY <1>1
    <3> QED
      BY <1>1, <3>1, <3>2 DEF Rng
  <2>3. x \in Rng(t)
    <3>1. Len(s) + 1 \in DOMAIN t
      BY <1>1
    <3> QED
      BY <1>1, <3>1 DEF Rng
  <2> QED
    BY <2>1, <2>2, <2>3
<1> QED
  BY <1>1, <1>2, <1>3 DEF t

(* A list of distinct elements of a finite set, but not all of them, is    *)
(* shorter than the set is large.                                          *)
LEMMA ShorterThanSet ==
  ASSUME NEW S, IsFiniteSet(S), NEW s \in Seq(S), Distinct(s),
         NEW x \in S, x \notin Rng(s)
  PROVE  Len(s) < Cardinality(S)
<1>1. Len(s) \in Nat /\ DOMAIN s = 1 .. Len(s) /\ s \in [1 .. Len(s) -> S]
  OBVIOUS
<1>2. s \in [1 .. Len(s) -> S \ {x}]
  BY <1>1 DEF Rng
<1>3. s \in Injection(1 .. Len(s), S \ {x})
  BY <1>1, <1>2 DEF Injection, IsInjective, Distinct
<1>4. /\ IsFiniteSet(S \ {x})
      /\ Cardinality(S \ {x}) = Cardinality(S) - 1 /\ Cardinality(S) \in Nat
  BY FS_RemoveElement, FS_CardinalityType
<1>5. Cardinality(1 .. Len(s)) <= Cardinality(S \ {x})
  BY <1>3, <1>4, FS_Injection
<1>6. Cardinality(1 .. Len(s)) = Len(s)
  BY <1>1, FS_Interval
<1> QED
  BY <1>1, <1>4, <1>5, <1>6

(* A ring has room for every request that is not in it.                    *)
LEMMA RingNeverFull ==
  ASSUME conf \in Configs, NEW ring \in Seq(Reqs), Distinct(ring),
         NEW r \in Reqs, r \notin Rng(ring)
  PROVE  femu_ring_enqueue(ring, r) = Append(ring, r)
<1>1. /\ num_io_queues \in Nat \ {0} /\ qsize \in Nat /\ qsize >= 2
      /\ ring_size \in Nat /\ ring_size >= num_io_queues * qsize
  BY ConfFacts
<1>2. IsFiniteSet(Queues) /\ Cardinality(Queues) = num_io_queues
  BY <1>1, FS_Interval DEF Queues
<1>3. IsFiniteSet(Slots) /\ Cardinality(Slots) = qsize
  BY <1>1, FS_Interval DEF Slots
<1>4. IsFiniteSet(Reqs) /\ Cardinality(Reqs) = num_io_queues * qsize
  BY <1>2, <1>3, FS_Product DEF Reqs
<1>5. Len(ring) < num_io_queues * qsize /\ Len(ring) \in Nat
  BY <1>4, ShorterThanSet
<1>6. num_io_queues * qsize \in Nat
  BY <1>1
<1> QED
  BY <1>1, <1>5, <1>6 DEF femu_ring_enqueue

-----------------------------------------------------------------------------
(* Moving a request from one holder to another *)

After(h, r, a, b) ==
  IF h = b THEN Held(h) \cup {r} ELSE IF h = a THEN Held(h) \ {r} ELSE Held(h)

\* A step takes request r from holder a to holder b (or to none).
Moves(r, a, b) ==
  /\ r \in Held(a)
  /\ \A h \in Holders : Held(h)' = After(h, r, a, b)

Stays == \A h \in Holders : Held(h)' = Held(h)

(* What each holder holds.                                                 *)
LEMMA HeldBy ==
  ASSUME NEW i
  PROVE  /\ Held(<<"free", i>>) = Rng(req_list[i])
         /\ Held(<<"out", i>>) = out_req_list[i]
         /\ Held(<<"to_ftl", i>>) = Rng(to_ftl[i])
         /\ Held(<<"to_poller", i>>) = Rng(to_poller[i])
         /\ Held(<<"pq", i>>) = pq[i]
         /\ Held(<<"ftl", i>>) = {ftl.req} \ {NoReq}
BY DEF Held

(* The same, after a step.                                                 *)
LEMMA HeldByNext ==
  ASSUME NEW i
  PROVE  /\ Held(<<"free", i>>)' = Rng(req_list'[i])
         /\ Held(<<"out", i>>)' = out_req_list'[i]
         /\ Held(<<"to_ftl", i>>)' = Rng(to_ftl'[i])
         /\ Held(<<"to_poller", i>>)' = Rng(to_poller'[i])
         /\ Held(<<"pq", i>>)' = pq'[i]
         /\ Held(<<"ftl", i>>)' = {ftl'.req} \ {NoReq}
BY DEF Held, Rng, NoReq

(* The kinds of holders.                                                   *)
LEMMA HolderKinds ==
  /\ \A q \in Queues : <<"free", q>> \in Holders \ Flying /\ <<"out", q>> \in Holders \ Flying
  /\ \A p \in Pollers : /\ <<"to_ftl", p>> \in Holders \cap Flying
                        /\ <<"to_poller", p>> \in Holders \cap Flying
                        /\ <<"pq", p>> \in Holders \cap Flying
  /\ <<"ftl", 0>> \in Holders \cap Flying
  /\ Nowhere \notin Holders /\ Flying \subseteq Holders
  /\ \A h \in Holders :
       \/ \E q \in Queues : h = <<"free", q>> \/ h = <<"out", q>>
       \/ \E p \in Pollers : h = <<"to_ftl", p>> \/ h = <<"to_poller", p>> \/ h = <<"pq", p>>
       \/ h = <<"ftl", 0>>
BY DEF Holders, Home, Flying, Nowhere

(* A step that changes no list, ring or queue moves nothing.               *)
LEMMA NothingMoves ==
  ASSUME UNCHANGED <<req_list, out_req_list, to_ftl, to_poller, pq, ftl>>
  PROVE  Stays
BY Zenon DEF Stays, Held, Rng, NoReq

(* When nothing moves, holders stay apart ...                              *)
LEMMA StaysSeparate ==
  ASSUME SameDevice, Separate, Stays PROVE Separate'
BY DEF Separate, Stays, SameDevice

(* ... and the same requests are in flight and lost.                       *)
LEMMA StaysStages ==
  ASSUME SameDevice, Stays, NEW q
  PROVE  Flight(q)' = Flight(q) /\ Lost(q)' = Lost(q)
<1>1. \A h \in Flying : Held(h)' = Held(h)
  BY HolderKinds DEF Stays
<1> QED
  BY <1>1 DEF Flight, Lost, Stays, SameDevice

(* A move keeps the holders apart ...                                      *)
LEMMA MoveSeparate ==
  ASSUME SameDevice, Separate, NEW r \in Reqs, NEW a \in Holders, NEW b, Moves(r, a, b)
  PROVE  Separate'
<1> SUFFICES ASSUME NEW h \in Holders, NEW k \in Holders, NEW s \in Reqs,
                    s \in Held(h)', s \in Held(k)'
             PROVE  h = k
  BY DEF Separate, SameDevice
<1>1. s \in After(h, r, a, b) /\ s \in After(k, r, a, b) /\ r \in Held(a)
  BY DEF Moves
<1>2. \A g \in Holders : s \in Held(g) => g = h \/ h = b \/ s \notin Held(h)
  BY DEF Separate
<1>3. \A g \in Holders : r \in Held(g) => g = a
  BY <1>1 DEF Separate
<1>4. CASE s = r
  BY <1>1, <1>3, <1>4 DEF After
<1>5. CASE s # r
  BY <1>1, <1>5 DEF After, Separate
<1> QED
  BY <1>4, <1>5

(* ... and the request alone enters or leaves the flight, or is lost.      *)
LEMMA MoveStages ==
  ASSUME SameDevice, Separate, NEW r \in Reqs, NEW a \in Holders, NEW b, a # b,
         Moves(r, a, b), NEW q
  PROVE  /\ Flight(q)' = IF r[1] # q THEN Flight(q)
                         ELSE IF b \in Flying THEN Flight(q) \cup {r}
                                              ELSE Flight(q) \ {r}
         /\ Lost(q)' = IF r[1] = q /\ b \notin Holders THEN Lost(q) \cup {r}
                                                       ELSE Lost(q)
<1>1. \A h \in Holders : Held(h)' = After(h, r, a, b)
  BY DEF Moves
<1>2. Flying \subseteq Holders
  BY HolderKinds
<1>3. \A h \in Holders : r \in Held(h) => h = a
  BY DEF Separate, Moves
<1>4. \A s : s # r => \A h \in Holders : s \in Held(h)' <=> s \in Held(h)
  BY <1>1 DEF After
<1>5. \A h \in Holders : r \in Held(h)' <=> h = b
  BY <1>1, <1>3 DEF After
<1>6. \A s \in Reqs : s # r => (s \in Flight(q)' <=> s \in Flight(q))
                               /\ (s \in Lost(q)' <=> s \in Lost(q))
  BY <1>2, <1>4 DEF Flight, Lost, SameDevice
<1>7. /\ r \in Flight(q)' <=> r[1] = q /\ b \in Flying
      /\ r \in Lost(q)' <=> r[1] = q /\ b \notin Holders
  BY <1>2, <1>5 DEF Flight, Lost, SameDevice
<1>8. r \notin Lost(q) /\ (r \in Flight(q) => r[1] = q)
  BY DEF Flight, Lost, Moves
<1>9. /\ Flight(q)' \subseteq Reqs /\ Flight(q) \subseteq Reqs
      /\ Lost(q)' \subseteq Reqs /\ Lost(q) \subseteq Reqs
  BY DEF Flight, Lost, SameDevice
<1> QED
  BY <1>6, <1>7, <1>8, <1>9

-----------------------------------------------------------------------------
(* Moving a command from one stage to the next *)

(* A stage is an entry, a request, a completion or a dropped command.      *)
LEMMA StageKinds ==
  ASSUME NEW A, NEW F, NEW U, NEW D, NEW e \in StageSet(A, F, U, D)
  PROVE  \/ \E x \in A : e = <<"sq", x>>
         \/ \E x \in F : e = <<"req", x>>
         \/ \E x \in U : e = <<"cq", x>>
         \/ \E x \in D : e = <<"dropped", x>>
BY DEF StageSet

\* The commands of the stages in E stay what they are.
SameCids(q, E) == \A e \in E : CidOf(q, e)' = CidOf(q, e)

(* A command stays, comes, goes on or leaves: stages and outstanding       *)
(* commands still correspond.                                              *)
LEMMA CommandStays ==
  ASSUME NEW q, OneStage(q), Stages(q)' = Stages(q), SameCids(q, Stages(q)),
         host'[q].busy = host[q].busy
  PROVE  OneStage(q)'
BY DEF OneStage, SameCids

(* A new tag enters at a stage of its own.                                 *)
LEMMA CommandComes ==
  ASSUME NEW q, OneStage(q), NEW e, Stages(q)' = Stages(q) \cup {e},
         SameCids(q, Stages(q)), CidOf(q, e)' \notin host[q].busy,
         host'[q].busy = host[q].busy \cup {CidOf(q, e)'}
  PROVE  OneStage(q)'
BY DEF OneStage, SameCids

(* A command goes on: one stage is replaced by another of the same tag.    *)
LEMMA CommandMoves ==
  ASSUME NEW q, OneStage(q), NEW e \in Stages(q), NEW f,
         Stages(q)' = (Stages(q) \ {e}) \cup {f},
         SameCids(q, Stages(q) \ {e}), CidOf(q, f)' = CidOf(q, e),
         host'[q].busy = host[q].busy
  PROVE  OneStage(q)'
<1> USE DEF SameCids
<1>1. \A g \in Stages(q)' : CidOf(q, g)' \in host'[q].busy
  BY DEF OneStage
<1>2. \A g, h \in Stages(q)' : CidOf(q, g)' = CidOf(q, h)' => g = h
  BY DEF OneStage
<1>3. ASSUME NEW c \in host'[q].busy PROVE \E g \in Stages(q)' : CidOf(q, g)' = c
  <2>1. PICK g \in Stages(q) : CidOf(q, g) = c
    BY <1>3 DEF OneStage
  <2>2. CASE g = e
    BY <2>1, <2>2
  <2>3. CASE g # e
    BY <2>1, <2>3
  <2> QED
    BY <2>2, <2>3
<1> QED
  BY <1>1, <1>2, <1>3 DEF OneStage

(* A reaped command leaves with its tag.                                   *)
LEMMA CommandLeaves ==
  ASSUME NEW q, OneStage(q), NEW e \in Stages(q), Stages(q)' = Stages(q) \ {e},
         SameCids(q, Stages(q)), host'[q].busy = host[q].busy \ {CidOf(q, e)}
  PROVE  OneStage(q)'
BY DEF OneStage, SameCids

-----------------------------------------------------------------------------
(* Slots of a queue *)

(* The next slot, the first after the last.                                *)
LEMMA IncValue ==
  ASSUME conf \in Configs, NEW i \in Slots
  PROVE  /\ Inc(i) \in Slots
         /\ Inc(i) = IF i + 1 = qsize THEN 0 ELSE i + 1
<1>1. qsize \in Nat /\ qsize >= 2 /\ i \in 0 .. qsize - 1
  BY ConfFacts DEF Slots
<1>2. CASE i + 1 = qsize
  BY <1>1, <1>2 DEF Inc, Slots
<1>3. CASE i + 1 # qsize
  <2>1. \A m \in Nat \ {0} : \A x \in 0 .. m - 1 : x % m = x
    OBVIOUS
  <2>2. i + 1 \in 0 .. qsize - 1
    BY <1>1, <1>3
  <2> QED
    BY <1>1, <1>3, <2>1, <2>2 DEF Inc, Slots
<1> QED
  BY <1>2, <1>3

(* The distance from one slot to another is less than the size.            *)
LEMMA DistType ==
  ASSUME conf \in Configs, NEW i \in Slots, NEW j \in Slots
  PROVE  Dist(i, j) \in 0 .. qsize - 1 /\ (Dist(i, j) = 0 <=> i = j)
BY ConfFacts DEF Dist, Slots

(* The slots between two are those at a smaller distance.                  *)
LEMMA BetweenByDist ==
  ASSUME conf \in Configs, NEW i \in Slots, NEW j \in Slots
  PROVE  /\ Between(i, j) \subseteq Slots
         /\ \A s \in Slots : s \in Between(i, j) <=> Dist(i, s) < Dist(i, j)
BY ConfFacts DEF Dist, Slots, Between

(* Advancing the front or the end of a stretch of slots.                   *)
LEMMA AdvanceFront ==
  ASSUME conf \in Configs, NEW i \in Slots, NEW j \in Slots, i # j
  PROVE  i \in Between(i, j) /\ Between(Inc(i), j) = Between(i, j) \ {i}
BY ConfFacts, IncValue DEF Slots, Between

(* A stretch grows at its end, and never to a full round.                  *)
LEMMA AdvanceEnd ==
  ASSUME conf \in Configs, NEW i \in Slots, NEW j \in Slots
  PROVE  /\ j \notin Between(i, j)
         /\ Inc(j) # i => Between(i, Inc(j)) = Between(i, j) \cup {j}
         /\ Inc(j) = i => Between(i, j) \cup {j} = Slots
BY ConfFacts, IncValue DEF Slots, Between

(* Distances from one slot to the next.                                    *)
LEMMA DistInc ==
  ASSUME conf \in Configs, NEW i \in Slots, NEW j \in Slots, Inc(j) # i
  PROVE  Dist(i, Inc(j)) = Dist(i, j) + 1
BY ConfFacts, IncValue DEF Slots, Dist

(* Distances from a later slot.                                            *)
LEMMA DistLater ==
  ASSUME conf \in Configs, NEW i \in Slots, NEW j \in Slots, NEW k \in Slots,
         Dist(i, j) <= Dist(i, k)
  PROVE  Dist(j, k) = Dist(i, k) - Dist(i, j)
BY ConfFacts DEF Slots, Dist

(* The host's tags are fewer than a queue has slots.                       *)
LEMMA TooFewTags ==
  ASSUME conf \in Configs, NEW f \in [Slots -> Cids]
  PROVE  \E s, t \in Slots : s # t /\ f[s] = f[t]
<1>1. qsize \in Nat /\ qsize >= 2
  BY ConfFacts
<1>2. IsFiniteSet(Slots) /\ Cardinality(Slots) = qsize
  BY <1>1, FS_Interval DEF Slots
<1>3. IsFiniteSet(Cids) /\ Cardinality(Cids) = qsize - 1
  BY <1>1, FS_Interval DEF Cids
<1> QED
  BY <1>1, <1>2, <1>3, FS_PigeonHole

-----------------------------------------------------------------------------
(* Frames: what an action leaves alone *)

\* What the host knows of queue q, but for being in its interrupt handler.
SameHost(q) ==
  /\ host'[q].tail = host[q].tail /\ host'[q].sq_head = host[q].sq_head
  /\ host'[q].cq_head = host[q].cq_head /\ host'[q].phase = host[q].phase
  /\ host'[q].busy = host[q].busy

(* The queues of a pair stay as they are.                                  *)
LEMMA QueuesStay ==
  ASSUME TypeOK, SameDevice, NEW q \in Queues, SameHost(q),
         cq'[q] = cq[q], cqmem'[q] = cqmem[q]
  PROVE  /\ Unreaped(q)' = Unreaped(q)
         /\ sq'[q].head = sq[q].head => Queued(q)' = Queued(q)
         /\ PhaseOrder(q) => PhaseOrder(q)'
         /\ sq'[q] = sq[q] /\ SqOrder(q) => SqOrder(q)'
<1>1. Unreaped(q)' = Unreaped(q)
  BY DEF Unreaped, Between, SameDevice, SameHost
<1>2. sq'[q].head = sq[q].head => Queued(q)' = Queued(q)
  BY DEF Queued, Between, SameDevice, SameHost
<1>3. PhaseOrder(q) => PhaseOrder(q)'
  BY <1>1 DEF PhaseOrder, SameDevice, SameHost
<1>4. sq'[q] = sq[q] /\ SqOrder(q) => SqOrder(q)'
  BY <1>1 DEF SqOrder, Dist, SameDevice, SameHost
<1> QED
  BY <1>1, <1>2, <1>3, <1>4

\* Identifiers in the queues and the structures of queue q.
SameNames(q) ==
  /\ \A s \in Slots : sqmem'[q][s].cid = sqmem[q][s].cid
  /\ \A s \in Slots : cqmem'[q][s].cid = cqmem[q][s].cid
  /\ \A r \in Reqs : r[1] = q => req'[r].cid = req[r].cid

(* Slots and structures of stages.                                         *)
LEMMA StageTypes ==
  ASSUME TypeOK, NEW q \in Queues
  PROVE  /\ Queued(q) \subseteq Slots /\ Unreaped(q) \subseteq Slots
         /\ Flight(q) \subseteq Reqs /\ Lost(q) \subseteq Reqs
         /\ dropped[q] \subseteq Cids /\ host[q].busy \subseteq Cids
<1>1. /\ conf \in Configs /\ host[q] \in Host /\ cq[q].tail \in Slots
      /\ sq[q].head \in Slots /\ dropped[q] \in SUBSET Cids
  BY DEF TypeOK
<1>2. /\ host[q].tail \in Slots /\ host[q].cq_head \in Slots
      /\ host[q].busy \in SUBSET Cids
  BY <1>1 DEF Host
<1>3. Queued(q) \subseteq Slots /\ Unreaped(q) \subseteq Slots
  BY <1>1, <1>2, BetweenByDist DEF Queued, Unreaped
<1> QED
  BY <1>1, <1>2, <1>3 DEF Flight, Lost

(* Entries, requests and completions untouched: tags stay.                 *)
LEMMA NamesStay ==
  ASSUME TypeOK, NEW q \in Queues, SameNames(q)
  PROVE  SameCids(q, Stages(q))
<1> SUFFICES ASSUME NEW e \in Stages(q) PROVE CidOf(q, e)' = CidOf(q, e)
  BY DEF SameCids
<1> USE DEF SameNames
<1>1. \/ \E x \in Queued(q) : e = <<"sq", x>>
      \/ \E x \in Flight(q) \ Posted : e = <<"req", x>>
      \/ \E x \in Unreaped(q) : e = <<"cq", x>>
      \/ \E x \in dropped[q] : e = <<"dropped", x>>
  BY StageKinds DEF Stages
<1>2. ASSUME NEW x \in Queued(q), e = <<"sq", x>> PROVE CidOf(q, e)' = CidOf(q, e)
  BY <1>2, StageTypes DEF CidOf
<1>3. ASSUME NEW x \in Flight(q), e = <<"req", x>> PROVE CidOf(q, e)' = CidOf(q, e)
  BY <1>3, StageTypes DEF CidOf, Flight
<1>4. ASSUME NEW x \in Unreaped(q), e = <<"cq", x>> PROVE CidOf(q, e)' = CidOf(q, e)
  BY <1>4, StageTypes DEF CidOf
<1>5. ASSUME NEW x \in dropped[q], e = <<"dropped", x>> PROVE CidOf(q, e)' = CidOf(q, e)
  BY <1>5 DEF CidOf
<1> QED
  BY <1>1, <1>2, <1>3, <1>4, <1>5

\* No command of queue q changes its stage.
SameStages(q) ==
  /\ SameHost(q) /\ sq'[q].head = sq[q].head /\ cq'[q] = cq[q]
  /\ cqmem'[q] = cqmem[q] /\ dropped'[q] = dropped[q] /\ SameNames(q)
  /\ Flight(q)' \ Posted' = Flight(q) \ Posted
  /\ Lost(q)' = Lost(q)

(* Stages and tags untouched: the correspondence stays.                    *)
LEMMA StagesStay ==
  ASSUME TypeOK, SameDevice, NEW q \in Queues, SameStages(q), OneStage(q), LostOnce(q)
  PROVE  OneStage(q)' /\ LostOnce(q)'
<1>1. Queued(q)' = Queued(q) /\ Unreaped(q)' = Unreaped(q)
  BY QueuesStay DEF SameStages
<1>2. Stages(q)' = Stages(q)
  BY <1>1 DEF Stages, StageSet, SameStages
<1>3. SameCids(q, Stages(q))
  BY NamesStay DEF SameStages
<1>4. OneStage(q)'
  BY <1>2, <1>3, CommandStays DEF SameStages, SameHost
<1>5. LostOnce(q)'
  BY StageTypes DEF LostOnce, Lost, SameStages, SameNames
<1> QED
  BY <1>4, <1>5

(* Nothing about a queue pair changes.                                     *)
LEMMA QueuePairStays ==
  ASSUME TypeOK, SameDevice, NEW q \in Queues, SameStages(q), sq'[q] = sq[q],
         QueuePair(q)
  PROVE  QueuePair(q)'
BY StagesStay, QueuesStay DEF QueuePair, SameStages

(* Only pollers change, and where they serve is what their kind serves.    *)
LEMMA StructuresStay ==
  ASSUME SameDevice, Structures, PosterOK', naborts' = 0 => naborts = 0,
         UNCHANGED <<req_list, out_req_list, to_ftl, to_poller, pq, ftl>>,
         multipoller_enabled => \A p \in Pollers : poller'[p].q = p
  PROVE  Structures'
<1>1. Separate'
  BY NothingMoves, StaysSeparate DEF Structures
<1>2. SequencesDistinct' /\ AtHome' /\ NothingAborted'
  BY DEF Structures, SequencesDistinct, AtHome, NothingAborted, Distinct, Rng, SameDevice
<1>3. Serving'
  BY DEF Structures, Serving, Rng, SameDevice
<1> QED
  BY <1>1, <1>2, <1>3 DEF Structures

(* A step that leaves everything but clocks, interrupts, bounds and labels *)
(* of pollers alone.                                                       *)
LEMMA NothingHappens ==
  ASSUME IInv, SameDevice, TypeOK', Structures',
         Posted' = Posted, \A q \in Queues : SameHost(q),
         UNCHANGED <<sqmem, cqmem, dropped, sq, cq, req, req_list, out_req_list,
                     to_ftl, to_poller, pq, ftl>>
  PROVE  IInv'
<1>1. ASSUME NEW q \in Queues PROVE QueuePair(q)'
  <2>1. Flight(q)' = Flight(q) /\ Lost(q)' = Lost(q)
    BY NothingMoves, StaysStages
  <2>2. SameStages(q)
    BY <2>1 DEF SameStages, SameNames
  <2> QED
    BY <2>2, QueuePairStays DEF IInv
<1> QED
  BY <1>1 DEF IInv, SameDevice

-----------------------------------------------------------------------------
(* One lemma per action: every action preserves the invariant.             *)

(* The fields of a record, and a record with one field changed.            *)
LEMMA PollerFields ==
  ASSUME NEW r \in Poller
  PROVE  r.pc \in Labels /\ r.q \in Queues /\ r.req \in Reqs \cup {NoReq}
         /\ r.processed \in BOOLEAN
BY DEF Poller

(* A poller that goes on to another step.                                  *)
LEMMA PollerAt ==
  ASSUME NEW r \in Poller, NEW l \in Labels
  PROVE  LET s == [r EXCEPT !.pc = l] IN
         s \in Poller /\ s.pc = l /\ s.q = r.q /\ s.req = r.req
         /\ s.processed = r.processed
BY DEF Poller

(* A poller that has not begun.                                            *)
LEMMA IdlePoller ==
  ASSUME conf \in Configs, NEW p \in Queues
  PROVE  PollerIdle(p) \in Poller
BY DEF Poller, PollerIdle, Labels

(* Going on inside the loop changes the label of one poller.               *)
LEMMA GotoStep ==
  ASSUME TypeOK, NEW p \in Pollers, NEW l \in Labels, Goto(p, l)
  PROVE  /\ poller' \in [Pollers -> Poller]
         /\ \A o \in Pollers : /\ poller'[o].q = poller[o].q
                               /\ poller'[o].req = poller[o].req
                               /\ poller'[o].pc = IF o = p THEN l ELSE poller[o].pc
<1>1. poller \in [Pollers -> Poller] /\ poller[p] \in Poller
  BY DEF TypeOK
<1>2. poller' = [poller EXCEPT ![p] = [poller[p] EXCEPT !.pc = l]]
  BY Zenon DEF Goto
<1>3. DEFINE r == [poller[p] EXCEPT !.pc = l]
<1>4. r \in Poller /\ r.pc = l /\ r.q = poller[p].q /\ r.req = poller[p].req
  BY <1>1, PollerAt
<1> HIDE DEF r
<1>5. poller' = [poller EXCEPT ![p] = r]
  BY <1>2 DEF r
<1> QED
  BY <1>1, <1>4, <1>5

(* A poller that has posted nothing and moves on to another label.         *)
LEMMA GotoInv ==
  ASSUME IInv, SameDevice, NEW p \in Pollers, NEW l \in Labels, Goto(p, l),
         poller[p].pc # "recycle", poller[p].pc # "crash", l # "recycle",
         UNCHANGED pq
  PROVE  /\ poller' \in [Pollers -> Poller] /\ PosterOK' /\ Posted' = Posted
         /\ multipoller_enabled => \A o \in Pollers : poller'[o].q = o
<1>1. TypeOK /\ PosterOK /\ Serving
  BY DEF IInv, Structures
<1>2. /\ poller' \in [Pollers -> Poller]
      /\ \A o \in Pollers : /\ poller'[o].q = poller[o].q
                            /\ poller'[o].req = poller[o].req
                            /\ poller'[o].pc = IF o = p THEN l ELSE poller[o].pc
  BY <1>1, GotoStep
<1>3. poller[p].req = NoReq
  BY <1>1 DEF PosterOK
<1>4. Posted' = Posted
  BY <1>2 DEF Posted, SameDevice
<1>5. PosterOK'
  <2> SUFFICES ASSUME NEW o \in Pollers
               PROVE  /\ poller'[o].pc = "recycle" => poller'[o].req # NoReq
                      /\ poller'[o].req # NoReq =>
                           /\ poller'[o].pc \in {"recycle", "crash"}
                           /\ poller'[o].req \in pq[o]
    BY DEF PosterOK, SameDevice, NoReq
  <2>1. CASE o = p
    BY <1>2, <1>3, <2>1
  <2>2. CASE o # p
    BY <1>1, <1>2, <2>2 DEF PosterOK
  <2> QED
    BY <2>1, <2>2
<1> QED
  BY <1>1, <1>2, <1>4, <1>5 DEF Serving

(* The host enters or leaves its interrupt handler.                        *)
LEMMA HostIsr ==
  ASSUME NEW h \in Host, NEW b \in BOOLEAN
  PROVE  LET g == [h EXCEPT !.in_isr = b] IN
         /\ g \in Host /\ g.tail = h.tail /\ g.sq_head = h.sq_head
         /\ g.cq_head = h.cq_head /\ g.phase = h.phase /\ g.busy = h.busy
BY DEF Host

(* The host enters or leaves its handler.                                  *)
LEMMA HandlerStep ==
  ASSUME TypeOK, SameDevice, NEW q \in Queues, NEW b \in BOOLEAN,
         host' = [host EXCEPT ![q].in_isr = b]
  PROVE  host' \in [Queues -> Host] /\ \A o \in Queues : SameHost(o)
<1> DEFINE g == [host[q] EXCEPT !.in_isr = b]
<1>1. host \in [Queues -> Host] /\ host[q] \in Host
  BY DEF TypeOK
<1>2. /\ g \in Host /\ g.tail = host[q].tail /\ g.sq_head = host[q].sq_head
      /\ g.cq_head = host[q].cq_head /\ g.phase = host[q].phase
      /\ g.busy = host[q].busy
  BY <1>1, HostIsr
<1>3. host' = [host EXCEPT ![q] = g]
  BY Zenon
<1> HIDE DEF g
<1>4. \A o \in Queues : host'[o] = IF o = q THEN g ELSE host[o]
  BY <1>1, <1>3
<1> QED
  BY <1>1, <1>2, <1>3, <1>4 DEF SameHost

(* The host takes an interrupt.                                            *)
LEMMA TakeIrqInv ==
  ASSUME IInv, SameDevice, UNCHANGED conf, NEW q \in Queues, TakeIrq(q)
  PROVE  IInv'
<1>1. TypeOK /\ Structures
  BY DEF IInv
<1>2. host' \in [Queues -> Host] /\ \A o \in Queues : SameHost(o)
  BY <1>1, HandlerStep DEF TakeIrq
<1>3. TypeOK'
  BY <1>1, <1>2 DEF TypeOK, TakeIrq, SameDevice, abortVars, ringVars
<1>4. UNCHANGED <<sqmem, cqmem, dropped, sq, cq, req, req_list, out_req_list,
                  to_ftl, to_poller, pq, ftl, poller, naborts>>
  BY DEF TakeIrq, abortVars, ringVars
<1>5. PosterOK' /\ Posted' = Posted
  BY <1>1, <1>4 DEF Structures, PosterOK, Posted, SameDevice, NoReq
<1>6. Structures'
  BY <1>1, <1>4, <1>5, StructuresStay DEF Structures, Serving
<1> QED
  BY <1>2, <1>3, <1>4, <1>5, <1>6, NothingHappens

(* A poller has no entry left to fetch.                                    *)
LEMMA SqDoneInv ==
  ASSUME IInv, SameDevice, UNCHANGED conf, NEW p \in Pollers, SqDone(p)
  PROVE  IInv'
<1>1. TypeOK /\ Structures /\ PosterOK /\ conf \in Configs
  BY DEF IInv, Structures, TypeOK
<1>2. /\ poller \in [Pollers -> Poller] /\ poller[p] \in Poller
      /\ poller[p].q \in Queues /\ poller[p].pc = "fetch"
  BY <1>1, PollerFields DEF TypeOK, SqDone
<1> DEFINE r == IF LastQueue(p) THEN [PollerIdle(p) EXCEPT !.pc = "drain"]
                                ELSE [PollerIdle(p) EXCEPT !.q = poller[p].q + 1]
<1>3. /\ r \in Poller /\ r.req = NoReq /\ r.pc # "recycle"
      /\ multipoller_enabled => r.q = p
  <2>1. CASE LastQueue(p)
    BY <2>1, <1>1, ConfFacts DEF PollerIdle, Poller, Labels
  <2>2. CASE ~LastQueue(p)
    <3>1. poller[p].q + 1 \in Queues /\ ~multipoller_enabled
      BY <1>1, <1>2, <2>2, ConfFacts DEF LastQueue, Queues
    <3> QED
      BY <2>2, <3>1, <1>1, ConfFacts DEF PollerIdle, Poller, Labels
  <2> QED
    BY <2>1, <2>2
<1>4. poller' = [poller EXCEPT ![p] = r]
  BY DEF SqDone
<1>5. UNCHANGED <<sqmem, cqmem, dropped, sq, cq, req, req_list, out_req_list,
                  to_ftl, to_poller, pq, ftl, naborts, host, irq, ncmds, should_isr, now>>
  BY DEF SqDone, abortVars, ringVars, hostVars
<1> HIDE DEF r
<1>6. poller' \in [Pollers -> Poller]
      /\ \A o \in Pollers : poller'[o] = IF o = p THEN r ELSE poller[o]
  BY <1>2, <1>3, <1>4
<1>7. poller[p].req = NoReq
  BY <1>1, <1>2 DEF PosterOK
<1>8. PosterOK'
  BY <1>1, <1>3, <1>5, <1>6 DEF PosterOK, SameDevice, NoReq
<1>9. Posted' = Posted
  BY <1>3, <1>6, <1>7 DEF Posted, SameDevice
<1>10. Structures'
  BY <1>1, <1>3, <1>5, <1>6, <1>8, StructuresStay DEF Structures, Serving
<1>11. TypeOK'
  BY <1>1, <1>5, <1>6 DEF TypeOK, SameDevice
<1> QED
  BY <1>5, <1>9, <1>10, <1>11, NothingHappens DEF SameHost

(* A poller has no completion left to post.                                *)
LEMMA PostDoneInv ==
  ASSUME IInv, SameDevice, UNCHANGED conf, NEW p \in Pollers, PostDone(p)
  PROVE  IInv'
<1>1. TypeOK /\ Structures
  BY DEF IInv
<1>2. UNCHANGED <<sqmem, cqmem, dropped, sq, cq, req, req_list, out_req_list,
                  to_ftl, to_poller, pq, ftl, naborts, host, irq, ncmds, should_isr, now>>
  BY DEF PostDone, abortVars, ringVars, hostVars
<1>3. PICK l \in {"isr", "sq"} : Goto(p, l)
  BY DEF PostDone
<1>4. /\ poller' \in [Pollers -> Poller] /\ PosterOK' /\ Posted' = Posted
      /\ multipoller_enabled => \A o \in Pollers : poller'[o].q = o
  BY <1>2, <1>3, GotoInv DEF PostDone, Labels
<1>5. Structures'
  BY <1>1, <1>2, <1>4, StructuresStay
<1>6. TypeOK'
  BY <1>1, <1>2, <1>4 DEF TypeOK, SameDevice
<1> QED
  BY <1>2, <1>4, <1>5, <1>6, NothingHappens DEF SameHost

(* A poller raises the interrupt.                                          *)
LEMMA IsrInv ==
  ASSUME IInv, SameDevice, UNCHANGED conf, NEW p \in Pollers, Isr(p)
  PROVE  IInv'
<1>1. TypeOK /\ Structures /\ PosterOK /\ conf \in Configs
  BY DEF IInv, Structures, TypeOK
<1>2. UNCHANGED <<sqmem, cqmem, dropped, sq, cq, req, req_list, out_req_list,
                  to_ftl, to_poller, pq, ftl, naborts, host, ncmds, now>>
      /\ poller[p].pc = "isr" /\ poller' = [poller EXCEPT ![p] = PollerIdle(p)]
  BY DEF Isr, abortVars, ringVars
<1>3. irq' \in SUBSET Queues /\ should_isr' \in SUBSET Queues
  BY <1>1, ConfFacts DEF Isr, TypeOK
<1>4. /\ PollerIdle(p) \in Poller /\ PollerIdle(p).req = NoReq
      /\ PollerIdle(p).q = p /\ PollerIdle(p).pc = "sq"
  BY <1>1, IdlePoller, ConfFacts DEF PollerIdle
<1>5. poller' \in [Pollers -> Poller]
      /\ \A o \in Pollers : poller'[o] = IF o = p THEN PollerIdle(p) ELSE poller[o]
  BY <1>1, <1>2, <1>4 DEF TypeOK
<1>6. poller[p].req = NoReq
  BY <1>1, <1>2 DEF PosterOK
<1>7. PosterOK'
  BY <1>1, <1>2, <1>4, <1>5 DEF PosterOK, SameDevice, NoReq
<1>8. Posted' = Posted
  BY <1>4, <1>5, <1>6 DEF Posted, SameDevice
<1>9. Structures'
  BY <1>1, <1>2, <1>4, <1>5, <1>7, StructuresStay DEF Structures, Serving
<1>10. TypeOK'
  BY <1>1, <1>2, <1>3, <1>5 DEF TypeOK, SameDevice
<1> QED
  BY <1>2, <1>8, <1>9, <1>10, NothingHappens DEF SameHost

(* A crash stops every poller where it is.                                 *)
LEMMA CrashStep ==
  ASSUME IInv, SameDevice, Crash, UNCHANGED pq
  PROVE  /\ poller' \in [Pollers -> Poller] /\ PosterOK' /\ Posted' = Posted
         /\ \A p \in Pollers : poller'[p].q = poller[p].q
<1>1. TypeOK /\ PosterOK
  BY DEF IInv, Structures
<1>2. ASSUME NEW p \in Pollers
      PROVE  /\ poller'[p] \in Poller /\ poller'[p].q = poller[p].q
             /\ poller'[p].req = poller[p].req /\ poller'[p].pc = "crash"
  <2>1. poller[p] \in Poller /\ "crash" \in Labels
    BY <1>1 DEF TypeOK, Labels
  <2>2. poller'[p] = [poller[p] EXCEPT !.pc = "crash"]
    BY Zenon DEF Crash
  <2> QED
    BY <2>1, <2>2, PollerAt
<1>3. poller' = [p \in Pollers |-> poller'[p]]
  BY DEF Crash
<1>4. poller' \in [Pollers -> Poller]
  BY <1>2, <1>3
<1>5. PosterOK'
  BY <1>1, <1>2 DEF PosterOK, SameDevice, NoReq
<1>6. Posted' = Posted
  BY <1>2 DEF Posted, SameDevice
<1> QED
  BY <1>2, <1>4, <1>5, <1>6

(* A poller without a request structure would crash.                       *)
LEMMA FetchCrashInv ==
  ASSUME IInv, SameDevice, UNCHANGED conf, NEW p \in Pollers, FetchCrash(p)
  PROVE  IInv'
<1>1. TypeOK /\ Structures
  BY DEF IInv
<1>2. UNCHANGED <<sqmem, cqmem, dropped, sq, cq, req, req_list, out_req_list,
                  to_ftl, to_poller, pq, ftl, naborts, host, irq, ncmds, should_isr, now>>
      /\ Crash
  BY DEF FetchCrash, abortVars, ringVars, hostVars
<1>3. /\ poller' \in [Pollers -> Poller] /\ PosterOK' /\ Posted' = Posted
      /\ \A o \in Pollers : poller'[o].q = poller[o].q
  BY <1>2, CrashStep
<1>4. Structures'
  BY <1>1, <1>2, <1>3, StructuresStay DEF Structures, Serving
<1>5. TypeOK'
  BY <1>1, <1>2, <1>3 DEF TypeOK, SameDevice
<1> QED
  BY <1>2, <1>3, <1>4, <1>5, NothingHappens DEF SameHost

(* Time passes.                                                            *)
LEMMA TickInv ==
  ASSUME IInv, SameDevice, UNCHANGED conf, Tick
  PROVE  IInv'
<1>1. TypeOK /\ Structures
  BY DEF IInv
<1>2. UNCHANGED <<sqmem, cqmem, dropped, sq, cq, req, req_list, out_req_list, to_ftl,
                  to_poller, pq, ftl, naborts, host, irq, ncmds, should_isr, poller>>
      /\ now' = now + 1
  BY DEF Tick, abortVars, ringVars, hostVars
<1>3. TypeOK'
  BY <1>1, <1>2 DEF TypeOK, SameDevice
<1>4. PosterOK' /\ Posted' = Posted
  BY <1>1, <1>2 DEF Structures, PosterOK, Posted, SameDevice, NoReq
<1>5. Structures'
  BY <1>1, <1>2, <1>4, StructuresStay DEF Structures, Serving
<1> QED
  BY <1>2, <1>3, <1>4, <1>5, NothingHappens DEF SameHost

(* A poller reads the doorbell: the tail moves up to the host's.           *)
LEMMA UpdateTailInv ==
  ASSUME IInv, SameDevice, UNCHANGED conf, NEW p \in Pollers, UpdateTail(p)
  PROVE  IInv'
<1>1. TypeOK /\ Structures
  BY DEF IInv
<1>2. UNCHANGED <<sqmem, cqmem, dropped, cq, req, req_list, out_req_list, to_ftl,
                  to_poller, pq, ftl, naborts, host, irq, ncmds, should_isr, now>>
      /\ Goto(p, "fetch") /\ poller[p].pc = "sq"
  BY DEF UpdateTail, abortVars, ringVars, hostVars
<1>3. PICK q \in Queues : q = poller[p].q
  BY <1>1, PollerFields DEF TypeOK
<1>4. /\ sq' \in [Queues -> [head : Slots, tail : Slots]]
      /\ sq'[q].head = sq[q].head /\ sq'[q].tail = host[q].tail
      /\ \A o \in Queues : o # q => sq'[o] = sq[o]
  <2>1. sq \in [Queues -> [head : Slots, tail : Slots]] /\ host[q] \in Host
    BY <1>1 DEF TypeOK
  <2>2. host[q].tail \in Slots
    BY <2>1 DEF Host
  <2>3. sq' = [sq EXCEPT ![q].tail = host[q].tail]
    BY <1>3 DEF UpdateTail
  <2> QED
    BY <2>1, <2>2, <2>3
<1>5. /\ poller' \in [Pollers -> Poller] /\ PosterOK' /\ Posted' = Posted
      /\ multipoller_enabled => \A o \in Pollers : poller'[o].q = o
  BY <1>2, GotoInv DEF Labels
<1>6. Structures'
  BY <1>1, <1>2, <1>5, StructuresStay
<1>7. TypeOK'
  BY <1>1, <1>2, <1>4, <1>5 DEF TypeOK, SameDevice
<1>8. ASSUME NEW o \in Queues PROVE QueuePair(o)'
  <2>1. Flight(o)' = Flight(o) /\ Lost(o)' = Lost(o)
    BY <1>2, NothingMoves, StaysStages
  <2>2. SameStages(o)
    BY <1>2, <1>4, <1>5, <2>1 DEF SameStages, SameNames, SameHost
  <2>3. CASE o # q
    BY <1>1, <1>4, <2>2, <2>3, QueuePairStays DEF IInv
  <2>4. CASE o = q
    <3>1. QueuePair(q)
      BY DEF IInv
    <3>2. OneStage(q)' /\ LostOnce(q)'
      BY <1>1, <2>2, <2>4, <3>1, StagesStay DEF QueuePair
    <3>3. PhaseOrder(q)' /\ Unreaped(q)' = Unreaped(q)
      BY <1>1, <2>2, <2>4, <3>1, QueuesStay DEF QueuePair, SameStages
    <3>4. SqOrder(q)'
      <4>1. /\ sq[q].head \in Slots /\ sq[q].tail \in Slots
            /\ host[q].tail \in Slots /\ host[q].sq_head \in Slots
            /\ conf \in Configs
        BY <1>1 DEF TypeOK, Host
      <4>2. /\ Dist(host[q].sq_head, sq[q].head) \in Int
            /\ Dist(host[q].sq_head, sq[q].tail) \in Int
            /\ Dist(host[q].sq_head, host[q].tail) \in Int
        BY <4>1, DistType
      <4>3. Dist(host[q].sq_head, sq[q].head) <= Dist(host[q].sq_head, host[q].tail)
        BY <3>1, <4>2 DEF QueuePair, SqOrder
      <4> QED
        BY <1>2, <1>4, <3>1, <3>3, <4>2, <4>3 DEF QueuePair, SqOrder, Dist, SameDevice
    <3> QED
      BY <2>4, <3>2, <3>3, <3>4 DEF QueuePair
  <2> QED
    BY <2>3, <2>4
<1> QED
  BY <1>6, <1>7, <1>8 DEF IInv, SameDevice

-----------------------------------------------------------------------------
(* Actions that pass a structure on, while its command stays where it is   *)

(* A move is seen in the list, ring or queue at either end of it.          *)
LEMMA MovesIf ==
  ASSUME NEW r, NEW a, NEW b, r \in Held(a),
         \A q \in Queues : /\ Rng(req_list'[q]) = After(<<"free", q>>, r, a, b)
                           /\ out_req_list'[q] = After(<<"out", q>>, r, a, b),
         \A p \in Pollers : /\ Rng(to_ftl'[p]) = After(<<"to_ftl", p>>, r, a, b)
                            /\ Rng(to_poller'[p]) = After(<<"to_poller", p>>, r, a, b)
                            /\ pq'[p] = After(<<"pq", p>>, r, a, b),
         {ftl'.req} \ {NoReq} = After(<<"ftl", 0>>, r, a, b)
  PROVE  Moves(r, a, b)
<1> SUFFICES ASSUME NEW h \in Holders PROVE Held(h)' = After(h, r, a, b)
  BY DEF Moves
<1>1. CASE \E q \in Queues : h = <<"free", q>> \/ h = <<"out", q>>
  BY <1>1, HeldByNext
<1>2. CASE \E p \in Pollers : h = <<"to_ftl", p>> \/ h = <<"to_poller", p>> \/ h = <<"pq", p>>
  BY <1>2, HeldByNext
<1>3. CASE h = <<"ftl", 0>>
  BY <1>3, HeldByNext
<1> QED
  BY <1>1, <1>2, <1>3, HolderKinds

\* Either the request stays in or out of the flight, or it leaves the flight
\* and was posted already.
QuietMove(r, a, b) ==
  \/ (a \in Flying <=> b \in Flying) /\ \A s \in Reqs : s \in Posted' <=> s \in Posted
  \/ /\ b \notin Flying /\ r \in Posted
     /\ \A s \in Reqs : s \in Posted' <=> s \in Posted /\ s # r

(* Passing on a structure whose command stays in flight or out of it.      *)
LEMMA MoveInv ==
  ASSUME IInv, SameDevice, NEW r \in Reqs, NEW a \in Holders, NEW b \in Holders,
         a # b, Moves(r, a, b), QuietMove(r, a, b),
         \A q \in Queues : SameHost(q) /\ SameNames(q),
         UNCHANGED <<cqmem, dropped, sq, cq>>
  PROVE  Separate' /\ \A q \in Queues : QueuePair(q)'
<1>1. TypeOK /\ Separate
  BY DEF IInv, Structures
<1>2. Separate'
  BY <1>1, MoveSeparate
<1>3. ASSUME NEW q \in Queues PROVE QueuePair(q)'
  <2>1. /\ Flight(q)' = IF r[1] # q THEN Flight(q)
                        ELSE IF b \in Flying THEN Flight(q) \cup {r}
                                             ELSE Flight(q) \ {r}
        /\ Lost(q)' = Lost(q)
    BY <1>1, MoveStages
  <2>2. /\ r \in Flight(q) <=> r[1] = q /\ a \in Flying
        /\ Flight(q) \subseteq Reqs
    <3>1. \A h \in Holders : r \in Held(h) <=> h = a
      BY <1>1 DEF Separate, Moves
    <3> QED
      BY <3>1, HolderKinds DEF Flight
  <2>3. Flight(q)' \ Posted' = Flight(q) \ Posted
    BY <2>1, <2>2 DEF QuietMove
  <2>4. SameStages(q)
    BY <2>1, <2>3 DEF SameStages
  <2> QED
    BY <1>1, <2>4, QueuePairStays DEF IInv
<1> QED
  BY <1>2, <1>3

(* Requests in a list or a ring.                                           *)
LEMMA ListTypes ==
  ASSUME TypeOK, Structures
  PROVE  /\ \A q \in Queues : req_list[q] \in Seq(Reqs) /\ Distinct(req_list[q])
         /\ \A p \in Pollers : to_ftl[p] \in Seq(Reqs) /\ Distinct(to_ftl[p])
         /\ \A p \in Pollers : to_poller[p] \in Seq(Reqs) /\ Distinct(to_poller[p])
BY DEF TypeOK, Structures, SequencesDistinct

(* No sequence names a request twice after a step.                         *)
LEMMA DistinctNext ==
  ASSUME SameDevice, \A q \in Queues : Distinct(req_list'[q]),
         \A p \in Pollers : Distinct(to_ftl'[p]) /\ Distinct(to_poller'[p])
  PROVE  SequencesDistinct'
BY DEF SequencesDistinct, SameDevice, Distinct

(* Pollers hold only requests of their own queues after a step ...         *)
LEMMA ServingNext ==
  ASSUME SameDevice,
         multipoller_enabled =>
           \A p \in Pollers :
             /\ poller'[p].q = p
             /\ \A r \in Rng(to_ftl'[p]) : r[1] = p
             /\ \A r \in Rng(to_poller'[p]) : r[1] = p
             /\ \A r \in pq'[p] : r[1] = p
             /\ ftl'.from = p /\ ftl'.req # NoReq => ftl'.req[1] = p
  PROVE  Serving'
<1>1. \A r \in Reqs : r # NoReq
  BY DEF Reqs, Queues, NoReq
<1> QED
  BY <1>1 DEF Serving, SameDevice, Rng

(* ... and before it.                                                      *)
LEMMA ServingNow ==
  ASSUME TypeOK, Structures, multipoller_enabled, NEW p \in Pollers
  PROVE  /\ poller[p].q = p
         /\ \A r \in Rng(to_ftl[p]) : r \in Reqs /\ r[1] = p
         /\ \A r \in Rng(to_poller[p]) : r \in Reqs /\ r[1] = p
         /\ \A r \in pq[p] : r \in Reqs /\ r[1] = p
         /\ ftl.from = p /\ ftl.req # NoReq => ftl.req[1] = p
<1>1. /\ to_ftl[p] \in Seq(Reqs) /\ to_poller[p] \in Seq(Reqs) /\ pq[p] \in SUBSET Reqs
      /\ ftl.req \in Reqs \cup {NoReq}
  BY DEF TypeOK
<1>2. Rng(to_ftl[p]) \subseteq Reqs /\ Rng(to_poller[p]) \subseteq Reqs
  BY <1>1 DEF Rng
<1> QED
  BY <1>1, <1>2 DEF Structures, Serving

(* A poller moves a finished request from its ring to its queue.           *)
LEMMA DrainInv ==
  ASSUME IInv, SameDevice, UNCHANGED conf, NEW p \in Pollers, Drain(p)
  PROVE  IInv'
<1>1. TypeOK /\ Structures
  BY DEF IInv
<1>2. /\ UNCHANGED <<sqmem, cqmem, dropped, sq, cq, req, req_list, out_req_list, ftl,
                     naborts, host, irq, ncmds, should_isr, now>>
      /\ poller[p].pc = "drain"
  BY DEF Drain, abortVars, hostVars
<1>3. CASE Goto(p, "post") /\ UNCHANGED <<to_ftl, to_poller, pq>>
  <2>1. /\ poller' \in [Pollers -> Poller] /\ PosterOK' /\ Posted' = Posted
        /\ multipoller_enabled => \A o \in Pollers : poller'[o].q = o
    BY <1>2, <1>3, GotoInv DEF Labels
  <2>2. Structures'
    BY <1>1, <1>2, <1>3, <2>1, StructuresStay
  <2>3. TypeOK'
    BY <1>1, <1>2, <1>3, <2>1 DEF TypeOK, SameDevice
  <2> QED
    BY <1>2, <1>3, <2>1, <2>2, <2>3, NothingHappens DEF SameHost
<1>4. ASSUME NEW kind, kind = "to_poller" \/ kind = "to_ftl",
             NEW ring, ring = (IF kind = "to_poller" THEN to_poller[p] ELSE to_ftl[p]),
             ring # <<>>,
             pq' = [pq EXCEPT ![p] = @ \cup {Head(ring)}],
             to_poller' = IF kind = "to_poller" THEN [to_poller EXCEPT ![p] = Tail(@)]
                                                ELSE to_poller,
             to_ftl' = IF kind = "to_ftl" THEN [to_ftl EXCEPT ![p] = Tail(@)] ELSE to_ftl,
             poller' = poller
      PROVE  IInv'
  <2>1. PICK r \in Reqs : r = Head(ring)
    BY <1>1, <1>4, ListTypes, TakeFirst
  <2>2. /\ r \in Rng(ring) /\ Tail(ring) \in Seq(Reqs) /\ Distinct(Tail(ring))
        /\ Rng(Tail(ring)) = Rng(ring) \ {r}
    BY <1>1, <1>4, <2>1, ListTypes, TakeFirst
  <2>3. /\ \A o \in Pollers : to_poller'[o] = IF kind = "to_poller" /\ o = p
                                              THEN Tail(ring) ELSE to_poller[o]
        /\ \A o \in Pollers : to_ftl'[o] = IF kind = "to_ftl" /\ o = p
                                           THEN Tail(ring) ELSE to_ftl[o]
        /\ \A o \in Pollers : pq'[o] = IF o = p THEN pq[p] \cup {r} ELSE pq[o]
    BY <1>1, <1>4, <2>1 DEF TypeOK
  <2>r. ASSUME NEW o \in Pollers
        PROVE  /\ Rng(to_poller'[o]) = IF kind = "to_poller" /\ o = p
                                       THEN Rng(to_poller[o]) \ {r}
                                       ELSE Rng(to_poller[o])
               /\ Rng(to_ftl'[o]) = IF kind = "to_ftl" /\ o = p
                                    THEN Rng(to_ftl[o]) \ {r} ELSE Rng(to_ftl[o])
    <3>1. CASE kind = "to_poller" /\ o = p
      <4>1. to_poller'[o] = Tail(ring) /\ to_ftl'[o] = to_ftl[o] /\ ring = to_poller[o]
        BY <1>4, <2>3, <3>1
      <4> QED
        BY <2>2, <3>1, <4>1
    <3>2. CASE kind = "to_ftl" /\ o = p
      <4>1. to_ftl'[o] = Tail(ring) /\ to_poller'[o] = to_poller[o] /\ ring = to_ftl[o]
        BY <1>4, <2>3, <3>2
      <4> QED
        BY <2>2, <3>2, <4>1
    <3>3. CASE o # p
      <4>1. to_ftl'[o] = to_ftl[o] /\ to_poller'[o] = to_poller[o]
        BY <2>3, <3>3
      <4> QED
        BY <3>3, <4>1
    <3> QED
      BY <1>4, <3>1, <3>2, <3>3
  <2>4. TypeOK'
    <3>1. /\ to_poller' \in [Pollers -> Seq(Reqs)] /\ to_ftl' \in [Pollers -> Seq(Reqs)]
          /\ pq' \in [Pollers -> SUBSET Reqs]
      BY <1>1, <1>4, <2>1, <2>2 DEF TypeOK
    <3> QED
      BY <1>1, <1>2, <1>4, <3>1 DEF TypeOK, SameDevice
  <2> DEFINE a == <<kind, p>>
             b == <<"pq", p>>
  <2>5. a \in Holders \cap Flying /\ b \in Holders \cap Flying /\ a # b
    BY <1>4, HolderKinds
  <2>6. Moves(r, a, b)
    <3>1. r \in Held(a)
      BY <1>4, <2>2, HeldBy
    <3>2. \A q \in Queues : /\ Rng(req_list'[q]) = After(<<"free", q>>, r, a, b)
                            /\ out_req_list'[q] = After(<<"out", q>>, r, a, b)
      BY <1>2, <1>4, HeldBy DEF After
    <3>3. \A o \in Pollers : /\ Rng(to_ftl'[o]) = After(<<"to_ftl", o>>, r, a, b)
                             /\ Rng(to_poller'[o]) = After(<<"to_poller", o>>, r, a, b)
                             /\ pq'[o] = After(<<"pq", o>>, r, a, b)
      <4> SUFFICES ASSUME NEW o \in Pollers
                   PROVE  /\ Rng(to_ftl'[o]) = After(<<"to_ftl", o>>, r, a, b)
                          /\ Rng(to_poller'[o]) = After(<<"to_poller", o>>, r, a, b)
                          /\ pq'[o] = After(<<"pq", o>>, r, a, b)
        OBVIOUS
      <4>1. pq'[o] = After(<<"pq", o>>, r, a, b)
        BY <1>4, <2>3, HeldBy DEF After
      <4>2. CASE kind = "to_poller"
        BY <4>1, <4>2, <2>r, HeldBy DEF After
      <4>3. CASE kind = "to_ftl"
        BY <4>1, <4>3, <2>r, HeldBy DEF After
      <4> QED
        BY <1>4, <4>2, <4>3
    <3>4. {ftl'.req} \ {NoReq} = After(<<"ftl", 0>>, r, a, b)
      BY <1>2, <1>4, HeldBy DEF After
    <3> HIDE DEF a, b
    <3> QED
      BY <3>1, <3>2, <3>3, <3>4, MovesIf
  <2>7. Posted' = Posted
    BY <1>4 DEF Posted, SameDevice
  <2>8. Separate' /\ \A q \in Queues : QueuePair(q)'
    <3> HIDE DEF a, b
    <3>1. QuietMove(r, a, b)
      BY <2>5, <2>7 DEF QuietMove
    <3>2. \A q \in Queues : SameHost(q) /\ SameNames(q)
      BY <1>2 DEF SameHost, SameNames
    <3> QED
      BY <1>2, <2>5, <2>6, <3>1, <3>2, MoveInv
  <2>9. SequencesDistinct' /\ AtHome' /\ NothingAborted' /\ PosterOK' /\ Serving'
    <3>1. SequencesDistinct'
      BY <1>1, <1>2, <2>2, <2>3, ListTypes, DistinctNext
    <3>2. AtHome' /\ NothingAborted'
      BY <1>1, <1>2 DEF AtHome, NothingAborted, Structures, SameDevice, Rng
    <3>3. PosterOK'
      BY <1>1, <1>4, <2>3 DEF PosterOK, Structures, SameDevice, NoReq
    <3>4. ASSUME multipoller_enabled, NEW o \in Pollers
          PROVE  /\ \A s \in Rng(to_poller'[o]) : s[1] = o
                 /\ \A s \in Rng(to_ftl'[o]) : s[1] = o
                 /\ \A s \in pq'[o] : s[1] = o
      <4>1. r[1] = p
        <5>1. r \in Rng(to_poller[p]) \/ r \in Rng(to_ftl[p])
          BY <1>4, <2>2
        <5> QED
          BY <1>1, <3>4, <5>1, ServingNow
      <4>2. /\ \A s \in Rng(to_ftl[o]) : s[1] = o
            /\ \A s \in Rng(to_poller[o]) : s[1] = o
            /\ \A s \in pq[o] : s[1] = o
        BY <1>1, <3>4, ServingNow
      <4>3. \A s \in pq'[o] : s[1] = o
        BY <2>3, <4>1, <4>2
      <4>4. /\ Rng(to_poller'[o]) \subseteq Rng(to_poller[o])
            /\ Rng(to_ftl'[o]) \subseteq Rng(to_ftl[o])
        BY <2>r
      <4> QED
        BY ONLY <4>2, <4>3, <4>4
    <3>5. Serving'
      BY <1>1, <1>2, <1>4, <3>4, ServingNow, ServingNext
    <3> QED
      BY <3>1, <3>2, <3>3, <3>5
  <2> QED
    BY <2>4, <2>8, <2>9 DEF IInv, Structures, SameDevice
<1>5. CASE BBSSD /\ to_poller[p] # <<>>
  BY <1>4, <1>5 DEF Drain
<1>6. CASE ~BBSSD /\ to_ftl[p] # <<>>
  BY <1>4, <1>6 DEF Drain
<1>7. CASE (BBSSD /\ to_poller[p] = <<>>) \/ (~BBSSD /\ to_ftl[p] = <<>>)
  BY <1>3, <1>7 DEF Drain, ringVars
<1> QED
  BY <1>5, <1>6, <1>7

(* The FTL thread takes a request from a ring.                             *)
LEMMA FtlDequeueInv ==
  ASSUME IInv, SameDevice, UNCHANGED conf, NEW p \in Pollers, FtlDequeue(p)
  PROVE  IInv'
<1>1. TypeOK /\ Structures
  BY DEF IInv
<1>2. /\ UNCHANGED <<sqmem, cqmem, dropped, sq, cq, req, req_list, out_req_list, pq,
                     naborts, host, irq, ncmds, should_isr, now, to_poller, poller>>
      /\ to_ftl[p] # <<>> /\ ftl.req = NoReq
      /\ to_ftl' = [to_ftl EXCEPT ![p] = Tail(@)]
      /\ ftl' = [req |-> Head(to_ftl[p]), from |-> p]
  BY DEF FtlDequeue, abortVars, hostVars
<1>3. /\ to_ftl' \in [Pollers -> Seq(Reqs)] /\ \A o \in Pollers : Distinct(to_ftl'[o])
      /\ Head(to_ftl[p]) \in Reqs /\ Head(to_ftl[p]) \in Rng(to_ftl[p])
      /\ \A o \in Pollers : Rng(to_ftl'[o]) = IF o = p THEN Rng(to_ftl[o]) \ {Head(to_ftl[p])}
                                                      ELSE Rng(to_ftl[o])
  <2>1. to_ftl \in [Pollers -> Seq(Reqs)] /\ \A o \in Pollers : Distinct(to_ftl[o])
    BY <1>1, ListTypes DEF TypeOK
  <2>2. to_ftl' = [to_ftl EXCEPT ![p] = Tail(@)] /\ to_ftl[p] # <<>> /\ p \in Pollers
    BY <1>2
  <2>3. /\ Head(to_ftl[p]) \in Reqs /\ Head(to_ftl[p]) \in Rng(to_ftl[p])
        /\ Tail(to_ftl[p]) \in Seq(Reqs) /\ Distinct(Tail(to_ftl[p]))
        /\ Rng(Tail(to_ftl[p])) = Rng(to_ftl[p]) \ {Head(to_ftl[p])}
    BY <2>1, <2>2, TakeFirst
  <2>4. /\ to_ftl' \in [Pollers -> Seq(Reqs)] /\ to_ftl'[p] = Tail(to_ftl[p])
        /\ \A o \in Pollers : o # p => to_ftl'[o] = to_ftl[o]
    BY <2>1, <2>2, <2>3
  <2> QED
    BY <2>1, <2>3, <2>4
<1>4. PICK r \in Reqs : r = Head(to_ftl[p])
  BY <1>3
<1>5. r # NoReq /\ ftl'.req = r /\ ftl'.from = p
  BY <1>1, <1>2, <1>4, ConfFacts DEF TypeOK
<1>6. TypeOK'
  BY <1>1, <1>2, <1>3 DEF TypeOK, SameDevice
<1> DEFINE a == <<"to_ftl", p>>
           b == <<"ftl", 0>>
<1>7. a \in Holders \cap Flying /\ b \in Holders \cap Flying /\ a # b
  BY HolderKinds
<1>8. Moves(r, a, b)
  <2>1. r \in Held(a)
    BY <1>3, <1>4, HeldBy
  <2>2. \A q \in Queues : /\ Rng(req_list'[q]) = After(<<"free", q>>, r, a, b)
                          /\ out_req_list'[q] = After(<<"out", q>>, r, a, b)
    BY <1>2, HeldBy DEF After
  <2>3. \A o \in Pollers : /\ Rng(to_ftl'[o]) = After(<<"to_ftl", o>>, r, a, b)
                           /\ Rng(to_poller'[o]) = After(<<"to_poller", o>>, r, a, b)
                           /\ pq'[o] = After(<<"pq", o>>, r, a, b)
    BY <1>2, <1>3, <1>4, HeldBy DEF After
  <2>4. {ftl'.req} \ {NoReq} = After(<<"ftl", 0>>, r, a, b)
    BY <1>2, <1>5, HeldBy DEF After
  <2> HIDE DEF a, b
  <2> QED
    BY <2>1, <2>2, <2>3, <2>4, MovesIf
<1> HIDE DEF a, b
<1>9. Separate' /\ \A q \in Queues : QueuePair(q)'
  <2>1. Posted' = Posted
    BY <1>2 DEF Posted, SameDevice
  <2>2. QuietMove(r, a, b)
    BY <1>7, <2>1 DEF QuietMove
  <2>3. \A q \in Queues : SameHost(q) /\ SameNames(q)
    BY <1>2 DEF SameHost, SameNames
  <2> QED
    BY <1>2, <1>7, <1>8, <2>2, <2>3, MoveInv
<1>10. SequencesDistinct'
  BY <1>1, <1>2, <1>3, ListTypes, DistinctNext
<1>11. AtHome' /\ NothingAborted' /\ PosterOK'
  BY <1>1, <1>2 DEF AtHome, NothingAborted, PosterOK, Structures, SameDevice, Rng, NoReq
<1>12. Serving'
  <2>1. ASSUME multipoller_enabled, NEW o \in Pollers
        PROVE  \A s \in Rng(to_ftl'[o]) : s[1] = o
    BY <1>1, <1>3, <2>1, ServingNow
  <2>2. ASSUME multipoller_enabled PROVE r[1] = p
    BY <1>1, <1>3, <1>4, <2>2, ServingNow
  <2> QED
    BY <1>1, <1>2, <1>5, <2>1, <2>2, ServingNow, ServingNext
<1> QED
  BY <1>6, <1>9, <1>10, <1>11, <1>12 DEF IInv, Structures, SameDevice

(* The FTL thread hands a request back: the ring has room.                 *)
LEMMA FtlEnqueueInv ==
  ASSUME IInv, SameDevice, UNCHANGED conf, FtlEnqueue
  PROVE  IInv'
<1>1. TypeOK /\ Structures /\ conf \in Configs
  BY DEF IInv, TypeOK
<1>2. /\ UNCHANGED <<sqmem, cqmem, dropped, sq, cq, req_list, out_req_list, pq,
                     naborts, host, irq, ncmds, should_isr, now, to_ftl, poller>>
      /\ ftl.req # NoReq /\ ftl' = [req |-> NoReq, from |-> 1]
      /\ to_poller' = [to_poller EXCEPT ![ftl.from] = femu_ring_enqueue(@, ftl.req)]
  BY DEF FtlEnqueue, abortVars, hostVars
<1>3. ftl.req \in Reqs /\ ftl.from \in Pollers
  BY <1>1, <1>2 DEF TypeOK
<1>4. PICK r \in Reqs, p \in Pollers : r = ftl.req /\ p = ftl.from
  BY <1>3
<1> DEFINE a == <<"ftl", 0>>
           b == <<"to_poller", p>>
<1>5. a \in Holders \cap Flying /\ b \in Holders \cap Flying /\ a # b
  BY HolderKinds
<1>6. r \in Held(a) /\ r \notin Rng(to_poller[p])
  <2>1. r \in Held(a)
    BY <1>2, <1>4, HeldBy
  <2>2. r \notin Held(b)
    BY <1>1, <1>5, <2>1 DEF Structures, Separate
  <2> QED
    BY <2>1, <2>2, HeldBy
<1>7. to_poller' = [to_poller EXCEPT ![p] = Append(@, r)]
  <2>1. femu_ring_enqueue(to_poller[p], r) = Append(to_poller[p], r)
    BY <1>1, <1>6, ListTypes, RingNeverFull
  <2>2. to_poller' = [to_poller EXCEPT ![p] = femu_ring_enqueue(to_poller[p], r)]
    BY <1>2, <1>4
  <2> QED
    BY <2>1, <2>2
<1>8. /\ to_poller' \in [Pollers -> Seq(Reqs)] /\ \A o \in Pollers : Distinct(to_poller'[o])
      /\ \A o \in Pollers : Rng(to_poller'[o]) = IF o = p THEN Rng(to_poller[o]) \cup {r}
                                                         ELSE Rng(to_poller[o])
  <2>1. /\ to_poller \in [Pollers -> Seq(Reqs)]
        /\ \A o \in Pollers : Distinct(to_poller[o])
    BY <1>1, ListTypes DEF TypeOK
  <2>2. p \in Pollers /\ r \in Reqs /\ r \notin Rng(to_poller[p])
    BY <1>6
  <2>3. /\ Append(to_poller[p], r) \in Seq(Reqs) /\ Distinct(Append(to_poller[p], r))
        /\ Rng(Append(to_poller[p], r)) = Rng(to_poller[p]) \cup {r}
    BY <2>1, <2>2, AddLast
  <2>4. /\ to_poller' \in [Pollers -> Seq(Reqs)]
        /\ to_poller'[p] = Append(to_poller[p], r)
        /\ \A o \in Pollers : o # p => to_poller'[o] = to_poller[o]
    BY <1>7, <2>1, <2>3
  <2> QED
    BY <2>1, <2>3, <2>4
<1>9. /\ req' \in [Reqs -> Request]
      /\ \A s \in Reqs : req'[s].cid = req[s].cid
  <2>1. PICK lat \in Lats : req' = [req EXCEPT ![r].expire_time = @ + lat]
    BY <1>4 DEF FtlEnqueue
  <2>2. lat \in Nat /\ req \in [Reqs -> Request] /\ req[r] \in Request
    BY <1>1, SizeAssumption DEF TypeOK
  <2>3. DEFINE g == [req[r] EXCEPT !.expire_time = @ + lat]
  <2>4. g \in Request /\ g.cid = req[r].cid
    BY <2>2 DEF Request
  <2>5. req' = [req EXCEPT ![r] = g]
    BY <2>1, Zenon
  <2> HIDE DEF g
  <2> QED
    BY <2>2, <2>4, <2>5
<1>10. TypeOK'
  <2>1. ftl' \in [req : Reqs \cup {NoReq}, from : Pollers]
    BY <1>1, <1>2, ConfFacts
  <2>2. NoReq' = NoReq
    BY DEF NoReq
  <2> QED
    BY <1>1, <1>2, <1>8, <1>9, <2>1, <2>2 DEF TypeOK, SameDevice
<1>11. Moves(r, a, b)
  <2>1. \A q \in Queues : /\ Rng(req_list'[q]) = After(<<"free", q>>, r, a, b)
                          /\ out_req_list'[q] = After(<<"out", q>>, r, a, b)
    BY <1>2, HeldBy DEF After
  <2>2. \A o \in Pollers : /\ Rng(to_ftl'[o]) = After(<<"to_ftl", o>>, r, a, b)
                           /\ Rng(to_poller'[o]) = After(<<"to_poller", o>>, r, a, b)
                           /\ pq'[o] = After(<<"pq", o>>, r, a, b)
    BY <1>2, <1>8, HeldBy DEF After
  <2>3. {ftl'.req} \ {NoReq} = After(<<"ftl", 0>>, r, a, b)
    BY <1>2, <1>4, HeldBy DEF After
  <2> HIDE DEF a, b
  <2> QED
    BY <1>6, <2>1, <2>2, <2>3, MovesIf
<1> HIDE DEF a, b
<1>12. Separate' /\ \A q \in Queues : QueuePair(q)'
  <2>1. Posted' = Posted
    BY <1>2 DEF Posted, SameDevice
  <2>2. QuietMove(r, a, b)
    BY <1>5, <2>1 DEF QuietMove
  <2>3. \A q \in Queues : SameHost(q) /\ SameNames(q)
    BY <1>2, <1>9 DEF SameHost, SameNames
  <2> QED
    BY <1>2, <1>5, <1>11, <2>2, <2>3, MoveInv
<1>13. SequencesDistinct'
  BY <1>1, <1>2, <1>8, ListTypes, DistinctNext
<1>14. AtHome' /\ NothingAborted' /\ PosterOK'
  BY <1>1, <1>2 DEF AtHome, NothingAborted, PosterOK, Structures, SameDevice, Rng, NoReq
<1>15. Serving'
  <2>1. ASSUME multipoller_enabled PROVE r[1] = p
    BY <1>1, <1>2, <1>4, <2>1, ServingNow
  <2>2. ASSUME multipoller_enabled, NEW o \in Pollers
        PROVE  \A s \in Rng(to_poller'[o]) : s[1] = o
    BY <1>1, <1>8, <2>1, <2>2, ServingNow
  <2> QED
    BY <1>1, <1>2, <2>2, ServingNow, ServingNext
<1> QED
  BY <1>10, <1>12, <1>13, <1>14, <1>15 DEF IInv, Structures, SameDevice

(* A posted request goes back to the free list.                            *)
LEMMA RecycleInv ==
  ASSUME IInv, SameDevice, UNCHANGED conf, NEW p \in Pollers, Recycle(p)
  PROVE  IInv'
<1>1. TypeOK /\ Structures /\ conf \in Configs
  BY DEF IInv, TypeOK
<1>2. /\ UNCHANGED <<sqmem, cqmem, dropped, sq, cq, req, out_req_list, ftl, to_ftl,
                     to_poller, naborts, host, irq, ncmds, now>>
      /\ poller[p].pc = "recycle"
  BY DEF Recycle, abortVars, ringVars, hostVars
<1>3. PICK r \in Reqs : r = poller[p].req /\ r \in pq[p] /\ r # NoReq
  BY <1>1, <1>2 DEF Structures, PosterOK, TypeOK
<1>4. PICK q \in Queues : q = r[1]
  BY DEF Reqs
<1> DEFINE idle == [PollerIdle(p) EXCEPT !.pc = "post", !.processed = TRUE]
           a == <<"pq", p>>
           b == <<"free", q>>
<1>5. /\ req_list' = [req_list EXCEPT ![q] = Append(@, r)]
      /\ pq' = [pq EXCEPT ![p] = @ \ {r}]
      /\ poller' = [poller EXCEPT ![p] = idle]
      /\ should_isr' = should_isr \cup {q}
  BY <1>3, <1>4 DEF Recycle
<1>6. idle \in Poller /\ idle.req = NoReq /\ idle.q = p /\ idle.pc = "post"
  BY <1>1, ConfFacts DEF PollerIdle, Poller, Labels
<1> HIDE DEF idle
<1>7. a \in Holders \cap Flying /\ b \in Holders \ Flying /\ a # b
  BY HolderKinds
<1>8. r \in Held(a) /\ r \notin Rng(req_list[q])
  <2>1. r \in Held(a)
    BY <1>3, HeldBy
  <2>2. r \notin Held(b)
    BY <1>1, <1>7, <2>1 DEF Structures, Separate
  <2> QED
    BY <2>1, <2>2, HeldBy
<1>9. /\ req_list' \in [Queues -> Seq(Reqs)] /\ \A o \in Queues : Distinct(req_list'[o])
      /\ \A o \in Queues : Rng(req_list'[o]) = IF o = q THEN Rng(req_list[o]) \cup {r}
                                                       ELSE Rng(req_list[o])
  <2>1. req_list \in [Queues -> Seq(Reqs)] /\ \A o \in Queues : Distinct(req_list[o])
    BY <1>1, ListTypes DEF TypeOK
  <2>2. /\ Append(req_list[q], r) \in Seq(Reqs) /\ Distinct(Append(req_list[q], r))
        /\ Rng(Append(req_list[q], r)) = Rng(req_list[q]) \cup {r}
    BY <1>8, <2>1, AddLast
  <2>3. /\ req_list' \in [Queues -> Seq(Reqs)] /\ req_list'[q] = Append(req_list[q], r)
        /\ \A o \in Queues : o # q => req_list'[o] = req_list[o]
    BY <1>5, <2>1, <2>2
  <2> QED
    BY <2>1, <2>2, <2>3
<1>10. /\ pq' \in [Pollers -> SUBSET Reqs]
       /\ \A o \in Pollers : pq'[o] = IF o = p THEN pq[o] \ {r} ELSE pq[o]
       /\ poller' \in [Pollers -> Poller]
       /\ \A o \in Pollers : poller'[o] = IF o = p THEN idle ELSE poller[o]
  BY <1>1, <1>5, <1>6 DEF TypeOK
<1>11. TypeOK'
  BY <1>1, <1>2, <1>5, <1>9, <1>10 DEF TypeOK, SameDevice
<1>12. Moves(r, a, b)
  <2>1. \A o \in Queues : /\ Rng(req_list'[o]) = After(<<"free", o>>, r, a, b)
                          /\ out_req_list'[o] = After(<<"out", o>>, r, a, b)
    BY <1>2, <1>9, HeldBy DEF After
  <2>2. \A o \in Pollers : /\ Rng(to_ftl'[o]) = After(<<"to_ftl", o>>, r, a, b)
                           /\ Rng(to_poller'[o]) = After(<<"to_poller", o>>, r, a, b)
                           /\ pq'[o] = After(<<"pq", o>>, r, a, b)
    BY <1>2, <1>10, HeldBy DEF After
  <2>3. {ftl'.req} \ {NoReq} = After(<<"ftl", 0>>, r, a, b)
    BY <1>2, HeldBy DEF After
  <2> HIDE DEF a, b
  <2> QED
    BY <1>8, <2>1, <2>2, <2>3, MovesIf
<1>13. ASSUME NEW o \in Pollers, o # p PROVE poller[o].req # r
  <2>1. <<"pq", o>> \in Holders /\ r \in Held(a) /\ <<"pq", o>> # a
    BY <1>8, <1>13, HolderKinds
  <2>2. r \notin Held(<<"pq", o>>)
    BY <1>1, <1>7, <2>1 DEF Structures, Separate
  <2> QED
    BY <1>1, <1>3, <2>2, HeldBy DEF Structures, PosterOK
<1> HIDE DEF a, b
<1>14. Separate' /\ \A o \in Queues : QueuePair(o)'
  <2>1. ASSUME NEW s \in Reqs PROVE s \in Posted' <=> s \in Posted /\ s # r
    <3>1. s # NoReq
      BY <1>1, ConfFacts
    <3> QED
      BY <1>3, <1>6, <1>10, <1>13, <3>1 DEF Posted, SameDevice
  <2>2. QuietMove(r, a, b)
    BY <1>3, <1>7, <2>1 DEF QuietMove, Posted
  <2>3. \A o \in Queues : SameHost(o) /\ SameNames(o)
    BY <1>2 DEF SameHost, SameNames
  <2> QED
    BY <1>2, <1>7, <1>12, <2>2, <2>3, MoveInv
<1>15. SequencesDistinct'
  BY <1>1, <1>2, <1>9, ListTypes, DistinctNext
<1>16. AtHome'
  <2>1. \A o \in Queues : \A s \in Rng(req_list'[o]) : s[1] = o
    BY <1>1, <1>4, <1>9 DEF AtHome, Structures
  <2> QED
    BY <1>1, <1>2, <2>1 DEF AtHome, Structures, SameDevice, Rng
<1>17. PosterOK' /\ NothingAborted'
  <2>1. ASSUME NEW o \in Pollers
        PROVE  /\ poller'[o].pc = "recycle" => poller'[o].req # NoReq
               /\ poller'[o].req # NoReq =>
                    /\ poller'[o].pc \in {"recycle", "crash"}
                    /\ poller'[o].req \in pq'[o]
    <3>1. CASE o = p
      BY <1>6, <1>10, <3>1
    <3>2. CASE o # p
      BY <1>1, <1>10, <3>2 DEF Structures, PosterOK
    <3> QED
      BY <3>1, <3>2
  <2> QED
    BY <1>1, <1>2, <2>1 DEF PosterOK, NothingAborted, Structures, SameDevice, NoReq
<1>18. Serving'
  <2>1. ASSUME multipoller_enabled, NEW o \in Pollers
        PROVE  poller'[o].q = o /\ \A s \in pq'[o] : s[1] = o
    BY <1>1, <1>6, <1>10, <2>1, ServingNow
  <2> QED
    BY <1>1, <1>2, <2>1, ServingNow, ServingNext
<1> QED
  BY <1>11, <1>14, <1>15, <1>16, <1>17, <1>18 DEF IInv, Structures, SameDevice

(* An abort puts a request on the list of aborted requests.                *)
LEMMA AbortInv ==
  ASSUME IInv, SameDevice, UNCHANGED conf, NEW q \in Queues, NEW s \in Slots, Abort(q, s)
  PROVE  IInv'
<1>1. TypeOK /\ Structures
  BY DEF IInv
<1>2. /\ UNCHANGED <<cqmem, dropped, sq, cq, req, pq, ftl, to_ftl,
                     to_poller, host, irq, ncmds, should_isr, now>>
      /\ naborts' = naborts + 1
  BY DEF Abort, ringVars
<1>3. CASE req_list[q] = <<>>
  <2>1. Crash /\ UNCHANGED <<req_list, out_req_list, sqmem>>
    BY <1>3 DEF Abort
  <2>2. /\ poller' \in [Pollers -> Poller] /\ PosterOK' /\ Posted' = Posted
        /\ \A o \in Pollers : poller'[o].q = poller[o].q
    BY <1>2, <2>1, CrashStep
  <2>3. naborts' # 0
    BY <1>1, <1>2 DEF TypeOK
  <2>4. Structures'
    BY <1>1, <1>2, <2>1, <2>2, <2>3, StructuresStay DEF Structures, Serving
  <2>5. TypeOK'
    BY <1>1, <1>2, <2>1, <2>2 DEF TypeOK, SameDevice
  <2> QED
    BY <1>2, <2>1, <2>2, <2>4, <2>5, NothingHappens DEF SameHost
<1>4. CASE req_list[q] # <<>>
  <2>1. /\ req_list' = [req_list EXCEPT ![q] = Tail(@)]
        /\ out_req_list' = [out_req_list EXCEPT ![q] = @ \cup {Head(req_list[q])}]
        /\ sqmem' = [sqmem EXCEPT ![q][s].ok = FALSE]
        /\ poller' = poller
    BY <1>4 DEF Abort
  <2>2. req_list \in [Queues -> Seq(Reqs)] /\ \A o \in Queues : Distinct(req_list[o])
    BY <1>1, ListTypes DEF TypeOK
  <2>3. PICK r \in Reqs : r = Head(req_list[q])
    BY <1>4, <2>2, TakeFirst
  <2>4. /\ r \in Rng(req_list[q]) /\ Tail(req_list[q]) \in Seq(Reqs)
        /\ Distinct(Tail(req_list[q])) /\ Rng(Tail(req_list[q])) = Rng(req_list[q]) \ {r}
    BY <1>4, <2>2, <2>3, TakeFirst
  <2>5. /\ req_list' \in [Queues -> Seq(Reqs)] /\ \A o \in Queues : Distinct(req_list'[o])
        /\ \A o \in Queues : Rng(req_list'[o]) = IF o = q THEN Rng(req_list[o]) \ {r}
                                                         ELSE Rng(req_list[o])
    <3>1. /\ req_list' \in [Queues -> Seq(Reqs)] /\ req_list'[q] = Tail(req_list[q])
          /\ \A o \in Queues : o # q => req_list'[o] = req_list[o]
      BY <2>1, <2>2, <2>4
    <3> QED
      BY <2>2, <2>4, <3>1
  <2>6. /\ out_req_list' \in [Queues -> SUBSET Reqs]
        /\ \A o \in Queues : out_req_list'[o] = IF o = q THEN out_req_list[o] \cup {r}
                                                        ELSE out_req_list[o]
    BY <1>1, <2>1, <2>3 DEF TypeOK
  <2>7. /\ sqmem' \in [Queues -> [Slots -> Sqe]]
        /\ \A o \in Queues, t \in Slots : sqmem'[o][t].cid = sqmem[o][t].cid
    <3> DEFINE e == [sqmem[q][s] EXCEPT !.ok = FALSE]
    <3>1. sqmem \in [Queues -> [Slots -> Sqe]] /\ sqmem[q][s] \in Sqe
      BY <1>1 DEF TypeOK
    <3>2. e \in Sqe /\ e.cid = sqmem[q][s].cid
      BY <3>1 DEF Sqe
    <3>3. sqmem' = [sqmem EXCEPT ![q] = [sqmem[q] EXCEPT ![s] = e]]
      BY <2>1, Zenon
    <3> HIDE DEF e
    <3> QED
      BY <3>1, <3>2, <3>3
  <2>8. TypeOK'
    BY <1>1, <1>2, <2>1, <2>5, <2>6, <2>7 DEF TypeOK, SameDevice
  <2> DEFINE a == <<"free", q>>
             b == <<"out", q>>
  <2>9. a \in Holders \ Flying /\ b \in Holders \ Flying /\ a # b
    BY HolderKinds
  <2>10. Moves(r, a, b)
    <3>1. r \in Held(a)
      BY <2>4, HeldBy
    <3>2. \A o \in Queues : /\ Rng(req_list'[o]) = After(<<"free", o>>, r, a, b)
                            /\ out_req_list'[o] = After(<<"out", o>>, r, a, b)
      BY <2>5, <2>6, HeldBy DEF After
    <3>3. \A o \in Pollers : /\ Rng(to_ftl'[o]) = After(<<"to_ftl", o>>, r, a, b)
                             /\ Rng(to_poller'[o]) = After(<<"to_poller", o>>, r, a, b)
                             /\ pq'[o] = After(<<"pq", o>>, r, a, b)
      BY <1>2, HeldBy DEF After
    <3>4. {ftl'.req} \ {NoReq} = After(<<"ftl", 0>>, r, a, b)
      BY <1>2, HeldBy DEF After
    <3> HIDE DEF a, b
    <3> QED
      BY <3>1, <3>2, <3>3, <3>4, MovesIf
  <2> HIDE DEF a, b
  <2>11. Separate' /\ \A o \in Queues : QueuePair(o)'
    <3>1. Posted' = Posted
      BY <2>1 DEF Posted, SameDevice
    <3>2. QuietMove(r, a, b)
      BY <2>9, <3>1 DEF QuietMove
    <3>3. \A o \in Queues : SameHost(o) /\ SameNames(o)
      BY <1>2, <2>7 DEF SameHost, SameNames
    <3> QED
      BY <1>2, <2>9, <2>10, <3>2, <3>3, MoveInv
  <2>12. SequencesDistinct'
    BY <1>1, <1>2, <2>5, ListTypes, DistinctNext
  <2>13. AtHome'
    <3>1. \A o \in Queues : /\ \A t \in Rng(req_list'[o]) : t[1] = o
                            /\ \A t \in out_req_list'[o] : t[1] = o
      BY <1>1, <2>4, <2>5, <2>6 DEF AtHome, Structures
    <3> QED
      BY <3>1 DEF AtHome, SameDevice, Rng
  <2>14. PosterOK' /\ NothingAborted' /\ Serving'
    <3>1. PosterOK'
      BY <1>1, <1>2, <2>1 DEF PosterOK, Structures, SameDevice, NoReq
    <3>2. NothingAborted'
      BY <1>1, <1>2 DEF NothingAborted, TypeOK
    <3>3. Serving'
      BY <1>1, <1>2, <2>1 DEF Serving, Structures, SameDevice, Rng
    <3> QED
      BY <3>1, <3>2, <3>3
  <2> QED
    BY <2>8, <2>11, <2>12, <2>13, <2>14 DEF IInv, Structures, SameDevice
<1> QED
  BY <1>3, <1>4

-----------------------------------------------------------------------------
(* Actions that move a command from one stage to the next                  *)

(* Indices of a queue pair are slots.                                      *)
LEMMA Indices ==
  ASSUME TypeOK, NEW q \in Queues
  PROVE  /\ conf \in Configs /\ host[q] \in Host
         /\ host[q].tail \in Slots /\ host[q].sq_head \in Slots
         /\ host[q].cq_head \in Slots /\ host[q].phase \in {0, 1}
         /\ host[q].busy \in SUBSET Cids
         /\ sq[q].head \in Slots /\ sq[q].tail \in Slots
         /\ cq[q].tail \in Slots /\ cq[q].phase \in {0, 1}
<1>1. conf \in Configs /\ host[q] \in Host
  BY DEF TypeOK
<1>2. /\ host[q].tail \in Slots /\ host[q].sq_head \in Slots
      /\ host[q].cq_head \in Slots /\ host[q].phase \in {0, 1}
      /\ host[q].busy \in SUBSET Cids
  BY <1>1 DEF Host
<1>3. /\ sq[q].head \in Slots /\ sq[q].tail \in Slots
      /\ cq[q].tail \in Slots /\ cq[q].phase \in {0, 1}
  BY DEF TypeOK
<1> QED
  BY <1>1, <1>2, <1>3

(* A slot short of a whole round is followed by one a step further.        *)
LEMMA DistNext ==
  ASSUME conf \in Configs, NEW i \in Slots, NEW j \in Slots, NEW k \in Slots,
         Dist(i, j) < Dist(i, k)
  PROVE  Inc(j) # i /\ Dist(i, Inc(j)) = Dist(i, j) + 1
BY ConfFacts, IncValue DEF Slots, Dist

(* The host submits a command under a tag of its own.                      *)
LEMMA SubmitInv ==
  ASSUME IInv, SameDevice, UNCHANGED conf, NEW q \in Queues, NEW c \in Cids,
         NEW ok \in Success, Submit(q, c, ok)
  PROVE  IInv'
<1>1. TypeOK /\ Structures /\ QueuePair(q)
  BY DEF IInv
<1>t. PICK t \in Slots : t = host[q].tail
  BY <1>1, Indices
<1> DEFINE e == [cid |-> c, ok |-> ok]
           g == [host[q] EXCEPT !.tail = Inc(t), !.busy = host[q].busy \cup {c}]
<1>2. /\ UNCHANGED <<cqmem, dropped, sq, cq, req, req_list, out_req_list, pq, ftl,
                     to_ftl, to_poller, poller, naborts, irq, should_isr, now>>
      /\ c \notin host[q].busy /\ Inc(t) # host[q].sq_head
      /\ sqmem' = [sqmem EXCEPT ![q][t] = e] /\ ncmds' = ncmds + 1
      /\ host' = [host EXCEPT ![q].tail = Inc(t), ![q].busy = @ \cup {c}]
  BY <1>t DEF Submit, abortVars, ringVars
<1>3. /\ conf \in Configs /\ host[q] \in Host /\ t \in Slots
      /\ host[q].sq_head \in Slots /\ host[q].cq_head \in Slots
      /\ sq[q].head \in Slots /\ sq[q].tail \in Slots /\ cq[q].tail \in Slots
      /\ host[q].busy \in SUBSET Cids /\ Inc(t) \in Slots
  BY <1>1, <1>t, Indices, IncValue
<1>4. /\ g \in Host /\ g.tail = Inc(t) /\ g.busy = host[q].busy \cup {c}
      /\ g.sq_head = host[q].sq_head /\ g.cq_head = host[q].cq_head
      /\ g.phase = host[q].phase
  <2>1. host[q].busy \cup {c} \in SUBSET Cids
    BY <1>3
  <2> DEFINE h == host[q]
             b == host[q].busy \cup {c}
             i == Inc(t)
  <2>2. h \in Host /\ b \in SUBSET Cids /\ i \in Slots
    BY <1>3, <2>1
  <2> HIDE DEF h, b, i
  <2>3. LET k == [h EXCEPT !.tail = i, !.busy = b] IN
        /\ k \in Host /\ k.tail = i /\ k.busy = b /\ k.sq_head = h.sq_head
        /\ k.cq_head = h.cq_head /\ k.phase = h.phase
    BY <2>2 DEF Host
  <2> QED
    BY <2>3 DEF h, b, i
<1>5. host' = [host EXCEPT ![q] = g]
  BY <1>1, <1>2 DEF TypeOK
<1> HIDE DEF g
<1>6. /\ host' \in [Queues -> Host] /\ host'[q] = g
      /\ \A o \in Queues : o # q => host'[o] = host[o]
  BY <1>1, <1>4, <1>5 DEF TypeOK
<1>7. e \in Sqe /\ e.cid = c
  BY SizeAssumption DEF Sqe
<1> HIDE DEF e
<1>8. /\ sqmem' \in [Queues -> [Slots -> Sqe]]
      /\ \A o \in Queues, s \in Slots :
           sqmem'[o][s] = IF o = q /\ s = t THEN e ELSE sqmem[o][s]
  <2>1. sqmem \in [Queues -> [Slots -> Sqe]]
    BY <1>1 DEF TypeOK
  <2> QED
    BY <1>2, <1>3, <1>7, <2>1
<1>9. TypeOK'
  BY <1>1, <1>2, <1>6, <1>8 DEF TypeOK, SameDevice
<1>10. Structures' /\ Posted' = Posted
  <2>1. PosterOK' /\ Posted' = Posted
    BY <1>1, <1>2 DEF Structures, PosterOK, Posted, SameDevice, NoReq
  <2> QED
    BY <1>1, <1>2, <2>1, StructuresStay DEF Structures, Serving
<1>11. ASSUME NEW o \in Queues PROVE Flight(o)' = Flight(o) /\ Lost(o)' = Lost(o)
  BY <1>2, NothingMoves, StaysStages
<1>12. ASSUME NEW o \in Queues, o # q PROVE QueuePair(o)'
  <2>1. SameStages(o)
    BY <1>2, <1>6, <1>8, <1>10, <1>11, <1>12 DEF SameStages, SameNames, SameHost
  <2> QED
    BY <1>1, <1>2, <2>1, QueuePairStays DEF IInv
<1>13. /\ Dist(host[q].sq_head, Inc(t)) = Dist(host[q].sq_head, t) + 1
       /\ Inc(t) # sq[q].head
       /\ Dist(host[q].sq_head, sq[q].tail) <= Dist(host[q].sq_head, t)
  <2>1. Dist(host[q].sq_head, Inc(t)) = Dist(host[q].sq_head, t) + 1
    BY <1>2, <1>3, DistInc
  <2>2. /\ Dist(host[q].sq_head, sq[q].head) <= Dist(host[q].sq_head, sq[q].tail)
        /\ Dist(host[q].sq_head, sq[q].tail) <= Dist(host[q].sq_head, t)
    BY <1>1, <1>t DEF QueuePair, SqOrder
  <2>3. /\ Dist(host[q].sq_head, t) \in Int /\ Dist(host[q].sq_head, sq[q].head) \in Int
        /\ Dist(host[q].sq_head, sq[q].tail) \in Int
    BY <1>3, DistType
  <2> QED
    BY <2>1, <2>2, <2>3
<1>14. /\ t \notin Queued(q) /\ Queued(q)' = Queued(q) \cup {t}
       /\ Unreaped(q)' = Unreaped(q)
  <2>1. /\ t \notin Between(sq[q].head, t)
        /\ Between(sq[q].head, Inc(t)) = Between(sq[q].head, t) \cup {t}
    BY <1>3, <1>13, AdvanceEnd
  <2>2. Queued(q)' = Between(sq[q].head, Inc(t))
    BY <1>2, <1>4, <1>6 DEF Queued, Between, SameDevice
  <2>3. Unreaped(q)' = Unreaped(q)
    BY <1>2, <1>4, <1>6 DEF Unreaped, Between, SameDevice
  <2> QED
    BY <1>t, <2>1, <2>2, <2>3 DEF Queued
<1>15. OneStage(q)'
  <2>1. Stages(q)' = Stages(q) \cup {<<"sq", t>>}
    <3>1. Stages(q)' = StageSet(Queued(q) \cup {t}, Flight(q) \ Posted,
                                Unreaped(q), dropped[q])
      BY <1>2, <1>10, <1>11, <1>14 DEF Stages, StageSet
    <3>2. StageSet(Queued(q) \cup {t}, Flight(q) \ Posted, Unreaped(q), dropped[q])
            = StageSet(Queued(q), Flight(q) \ Posted, Unreaped(q), dropped[q])
                \cup {<<"sq", t>>}
      BY DEF StageSet
    <3> QED
      BY <3>1, <3>2, Zenon DEF Stages
  <2>2. SameCids(q, Stages(q))
    <3>1. ASSUME NEW x \in Queued(q) PROVE sqmem'[q][x].cid = sqmem[q][x].cid
      BY <1>1, <1>8, <1>14, <3>1, StageTypes
    <3>2. ASSUME NEW f \in Stages(q) PROVE CidOf(q, f)' = CidOf(q, f)
      <4>1. \/ \E x \in Queued(q) : f = <<"sq", x>>
            \/ f[1] \in {"req", "cq", "dropped"}
        <5>1. f \in StageSet(Queued(q), Flight(q) \ Posted, Unreaped(q), dropped[q])
          BY <3>2 DEF Stages
        <5> QED
          BY <5>1, StageKinds
      <4>2. CASE \E x \in Queued(q) : f = <<"sq", x>>
        BY <3>1, <4>2 DEF CidOf
      <4>3. CASE f[1] \in {"req", "cq", "dropped"}
        BY <1>2, <4>3 DEF CidOf
      <4> QED
        BY <4>1, <4>2, <4>3
    <3> QED
      BY <3>2 DEF SameCids
  <2>3. CidOf(q, <<"sq", t>>)' = c
    BY <1>3, <1>7, <1>8 DEF CidOf
  <2> QED
    BY <1>1, <1>2, <1>4, <1>6, <2>1, <2>2, <2>3, CommandComes DEF QueuePair
<1>16. LostOnce(q)'
  BY <1>1, <1>2, <1>11 DEF LostOnce, QueuePair
<1>17. SqOrder(q)'
  <2>1. Dist(host[q].sq_head, t) \in Int /\ Dist(host[q].sq_head, sq[q].tail) \in Int
    BY <1>3, DistType
  <2>2. Dist(host[q].sq_head, sq[q].tail) <= Dist(host[q].sq_head, Inc(t))
    BY <1>13, <2>1
  <2> QED
    BY <1>1, <1>2, <1>4, <1>6, <1>14, <2>2
       DEF QueuePair, SqOrder, Dist, SameDevice
<1>18. PhaseOrder(q)'
  BY <1>1, <1>2, <1>4, <1>6, <1>14 DEF QueuePair, PhaseOrder, SameDevice
<1> QED
  BY <1>9, <1>10, <1>12, <1>15, <1>16, <1>17, <1>18 DEF IInv, QueuePair, SameDevice

(* Distances to two slots differ.                                          *)
LEMMA DistStrict ==
  ASSUME conf \in Configs, NEW i \in Slots, NEW j \in Slots, NEW k \in Slots,
         Dist(i, j) <= Dist(i, k), j # k
  PROVE  Dist(i, j) < Dist(i, k)
BY ConfFacts DEF Slots, Dist

(* A request whose completion was posted is in a priority queue.           *)
LEMMA PostedWaits ==
  ASSUME TypeOK, Structures, NEW r \in Reqs, r \in Posted
  PROVE  \E p \in Pollers : poller[p].req = r /\ r \in Held(<<"pq", p>>)
<1>1. PICK p \in Pollers : r = poller[p].req
  BY DEF Posted
<1>2. r # NoReq
  BY ConfFacts DEF TypeOK
<1>3. r \in pq[p]
  BY <1>1, <1>2 DEF Structures, PosterOK
<1> QED
  BY <1>1, <1>3, HeldBy

(* The controller's head moves on by one entry, which was queued.          *)
LEMMA HeadAdvances ==
  ASSUME TypeOK, SameDevice, NEW q \in Queues, SqOrder(q), sq[q].head # sq[q].tail,
         SameHost(q), cq'[q] = cq[q], cqmem'[q] = cqmem[q],
         sq'[q].head = Inc(sq[q].head), sq'[q].tail = sq[q].tail
  PROVE  /\ sq[q].head \in Queued(q) /\ Queued(q)' = Queued(q) \ {sq[q].head}
         /\ SqOrder(q)'
<1> DEFINE d(i) == Dist(host[q].sq_head, i)
           x == sq[q].head
<1>1. /\ conf \in Configs /\ x \in Slots /\ sq[q].tail \in Slots
      /\ host[q].tail \in Slots /\ host[q].sq_head \in Slots
  BY Indices
<1>2. /\ d(x) <= d(sq[q].tail) /\ d(sq[q].tail) <= d(host[q].tail)
      /\ \A s \in Unreaped(q) : d(cqmem[q][s].sq_head) <= d(x)
      /\ \A s, t \in Unreaped(q) :
           Dist(host[q].cq_head, s) <= Dist(host[q].cq_head, t) =>
             d(cqmem[q][s].sq_head) <= d(cqmem[q][t].sq_head)
  BY DEF SqOrder
<1>3. d(x) < d(sq[q].tail)
  BY <1>1, <1>2, DistStrict
<1>4. Inc(x) # host[q].sq_head /\ d(Inc(x)) = d(x) + 1
  BY <1>1, <1>3, DistNext
<1>5. /\ d(x) \in Int /\ d(sq[q].tail) \in Int /\ d(host[q].tail) \in Int
  BY <1>1, DistType
<1>6. x # host[q].tail
  BY <1>2, <1>3, <1>5
<1>7. x \in Queued(q) /\ Between(Inc(x), host[q].tail) = Queued(q) \ {x}
  BY <1>1, <1>6, AdvanceFront DEF Queued
<1>8. Queued(q)' = Between(Inc(x), host[q].tail)
  BY DEF Queued, Between, SameDevice, SameHost
<1>9. Unreaped(q)' = Unreaped(q)
  BY QueuesStay
<1>10. ASSUME NEW s \in Unreaped(q)
       PROVE  d(cqmem[q][s].sq_head) <= d(Inc(x))
  <2>1. s \in Slots
    BY StageTypes
  <2>2. cqmem[q][s] \in Cqe
    BY <2>1 DEF TypeOK
  <2>3. cqmem[q][s].sq_head \in Slots
    BY <2>2 DEF Cqe
  <2>4. d(cqmem[q][s].sq_head) \in Int
    BY <1>1, <2>3, DistType
  <2> QED
    BY <1>2, <1>4, <1>5, <2>4
<1>11. d(Inc(x)) <= d(sq[q].tail)
  BY <1>3, <1>4, <1>5
<1>12. SqOrder(q)'
  BY <1>2, <1>9, <1>10, <1>11 DEF SqOrder, Dist, SameDevice, SameHost
<1> QED
  BY <1>7, <1>8, <1>12

(* A poller fetches an entry: its structure flies, or is lost.             *)
LEMMA FetchInv ==
  ASSUME IInv, SameDevice, UNCHANGED conf, NEW p \in Pollers, Fetch(p)
  PROVE  IInv'
<1>1. TypeOK /\ Structures /\ conf \in Configs
  BY DEF IInv, TypeOK
<1>2. PICK q \in Queues : q = poller[p].q
  BY <1>1, PollerFields DEF TypeOK
<1>3. PICK x \in Slots : x = sq[q].head
  BY <1>1, Indices
<1>4. PICK c \in Cids, ok \in BOOLEAN : sqmem[q][x].cid = c /\ sqmem[q][x].ok = ok
  <2>1. sqmem[q][x] \in Sqe
    BY <1>1 DEF TypeOK
  <2> QED
    BY <2>1 DEF Sqe
<1>5. req_list[q] # <<>> /\ sq[q].head # sq[q].tail /\ QueuePair(q)
  BY <1>2 DEF Fetch, nvme_sq_empty, IInv
<1>6. req_list \in [Queues -> Seq(Reqs)] /\ \A o \in Queues : Distinct(req_list[o])
  BY <1>1, ListTypes DEF TypeOK
<1>7. PICK r \in Reqs : r = Head(req_list[q])
  BY <1>5, <1>6, TakeFirst
<1>8. /\ r \in Rng(req_list[q]) /\ Tail(req_list[q]) \in Seq(Reqs)
      /\ Distinct(Tail(req_list[q])) /\ Rng(Tail(req_list[q])) = Rng(req_list[q]) \ {r}
  BY <1>5, <1>6, <1>7, TakeFirst
<1>9. r[1] = q
  BY <1>1, <1>8 DEF Structures, AtHome
<1> DEFINE a == <<"free", q>>
           b == IF ok THEN <<"to_ftl", p>> ELSE Nowhere
<1>10. /\ a \in Holders \ Flying /\ a # b
       /\ ok => b \in Holders \cap Flying
       /\ ~ok => b \notin Holders /\ b \notin Flying
  BY HolderKinds DEF Nowhere
<1>11. r \in Held(a) /\ \A h \in Holders : h # a => r \notin Held(h)
  <2>1. r \in Held(a)
    BY <1>8, HeldBy
  <2> QED
    BY <1>1, <1>10, <2>1 DEF Structures, Separate
<1>12. r \notin Rng(to_ftl[p]) /\ r \notin Posted /\ r \notin Flight(q) /\ r \notin Lost(q)
  <2>1. r \notin Rng(to_ftl[p])
    <3>1. <<"to_ftl", p>> \in Holders /\ <<"to_ftl", p>> # a
      BY HolderKinds
    <3>2. r \notin Held(<<"to_ftl", p>>)
      BY <1>11, <3>1
    <3> QED
      BY <3>2, HeldBy
  <2>2. r \notin Posted
    BY <1>1, <1>11, HolderKinds, PostedWaits
  <2>3. r \notin Flight(q)
    BY <1>10, <1>11, HolderKinds DEF Flight
  <2>4. r \notin Lost(q)
    BY <1>10, <1>11 DEF Lost
  <2> QED
    BY <2>1, <2>2, <2>3, <2>4
<1>13. /\ UNCHANGED <<sqmem, cqmem, cq, out_req_list, to_poller, ftl, pq, poller,
                      naborts, host, irq, ncmds, should_isr, now>>
       /\ sq' = [sq EXCEPT ![q] = nvme_inc_sq_head(@)]
       /\ req_list' = [req_list EXCEPT ![q] = Tail(@)]
  BY <1>2 DEF Fetch, abortVars, hostVars
<1>14. /\ ok => to_ftl' = [to_ftl EXCEPT ![p] = Append(@, r)] /\ dropped' = dropped
       /\ ~ok => to_ftl' = to_ftl /\ dropped' = [dropped EXCEPT ![q] = @ \cup {c}]
  <2>1. CASE ok
    <3>1. to_ftl' = [to_ftl EXCEPT ![p] = femu_ring_enqueue(to_ftl[p], r)]
          /\ dropped' = dropped
      BY <1>2, <1>3, <1>4, <1>7, <2>1 DEF Fetch
    <3>2. femu_ring_enqueue(to_ftl[p], r) = Append(to_ftl[p], r)
      BY <1>1, <1>12, ListTypes, RingNeverFull
    <3> QED
      BY <2>1, <3>1, <3>2
  <2>2. CASE ~ok
    BY <1>2, <1>3, <1>4, <2>2 DEF Fetch
  <2> QED
    BY <2>1, <2>2
<1>15. /\ req' \in [Reqs -> Request] /\ req'[r].cid = c
       /\ \A s \in Reqs : s # r => req'[s] = req[s]
  <2>1. PICK lat \in Nat :
          req' = [req EXCEPT ![r] = [cid |-> c, expire_time |-> now + lat]]
    <3>1. PICK lat \in IF BBSSD THEN {0} ELSE Lats :
            req' = [req EXCEPT ![Head(req_list[poller[p].q])] =
                      [cid |-> sqmem[poller[p].q][sq[poller[p].q].head].cid,
                       expire_time |-> now + lat]]
      BY Zenon DEF Fetch
    <3>2. lat \in Nat
      BY SizeAssumption
    <3> QED
      BY <1>2, <1>3, <1>4, <1>7, <3>1, <3>2
  <2>2. req \in [Reqs -> Request] /\ now \in Nat
    BY <1>1 DEF TypeOK
  <2>3. [cid |-> c, expire_time |-> now + lat] \in Request
    BY <2>2 DEF Request
  <2> QED
    BY <2>1, <2>2, <2>3
<1>16. /\ sq' \in [Queues -> [head : Slots, tail : Slots]]
       /\ sq'[q].head = Inc(x) /\ sq'[q].tail = sq[q].tail
       /\ \A o \in Queues : o # q => sq'[o] = sq[o]
  <2>1. sq \in [Queues -> [head : Slots, tail : Slots]] /\ Inc(x) \in Slots
    BY <1>1, IncValue DEF TypeOK
  <2>2. sq' = [sq EXCEPT ![q] = [sq[q] EXCEPT !.head = Inc(x)]]
    BY <1>3, <1>13 DEF nvme_inc_sq_head
  <2> QED
    BY <2>1, <2>2
<1>17. /\ req_list' \in [Queues -> Seq(Reqs)] /\ \A o \in Queues : Distinct(req_list'[o])
       /\ \A o \in Queues : Rng(req_list'[o]) = IF o = q THEN Rng(req_list[o]) \ {r}
                                                         ELSE Rng(req_list[o])
  <2>1. /\ req_list' \in [Queues -> Seq(Reqs)] /\ req_list'[q] = Tail(req_list[q])
        /\ \A o \in Queues : o # q => req_list'[o] = req_list[o]
    BY <1>6, <1>8, <1>13
  <2> QED
    BY <1>6, <1>8, <2>1
<1>18. /\ to_ftl' \in [Pollers -> Seq(Reqs)] /\ \A o \in Pollers : Distinct(to_ftl'[o])
       /\ \A o \in Pollers : Rng(to_ftl'[o]) = IF ok /\ o = p THEN Rng(to_ftl[o]) \cup {r}
                                                              ELSE Rng(to_ftl[o])
  <2>1. to_ftl \in [Pollers -> Seq(Reqs)] /\ \A o \in Pollers : Distinct(to_ftl[o])
    BY <1>1, ListTypes DEF TypeOK
  <2>2. /\ Append(to_ftl[p], r) \in Seq(Reqs) /\ Distinct(Append(to_ftl[p], r))
        /\ Rng(Append(to_ftl[p], r)) = Rng(to_ftl[p]) \cup {r}
    BY <1>12, <2>1, AddLast
  <2>3. CASE ok
    <3>1. /\ to_ftl' \in [Pollers -> Seq(Reqs)]
          /\ to_ftl'[p] = Append(to_ftl[p], r)
          /\ \A o \in Pollers : o # p => to_ftl'[o] = to_ftl[o]
      BY <1>14, <2>1, <2>2, <2>3
    <3> QED
      BY <2>1, <2>2, <2>3, <3>1
  <2>4. CASE ~ok
    BY <1>14, <2>1, <2>4
  <2> QED
    BY <2>3, <2>4
<1>19. /\ dropped' \in [Queues -> SUBSET Cids]
       /\ \A o \in Queues : dropped'[o] = IF ~ok /\ o = q THEN dropped[o] \cup {c}
                                                          ELSE dropped[o]
  <2>1. dropped \in [Queues -> SUBSET Cids]
    BY <1>1 DEF TypeOK
  <2>2. CASE ok
    BY <1>14, <2>1, <2>2
  <2>3. CASE ~ok
    BY <1>14, <2>1, <2>3
  <2> QED
    BY <2>2, <2>3
<1>20. TypeOK'
  BY <1>1, <1>13, <1>15, <1>16, <1>17, <1>18, <1>19 DEF TypeOK, SameDevice

<1>21. Moves(r, a, b)
  <2>1. \A o \in Queues : /\ Rng(req_list'[o]) = After(<<"free", o>>, r, a, b)
                          /\ out_req_list'[o] = After(<<"out", o>>, r, a, b)
    BY <1>13, <1>17, HeldBy DEF After, Nowhere
  <2>2. \A o \in Pollers : /\ Rng(to_ftl'[o]) = After(<<"to_ftl", o>>, r, a, b)
                           /\ Rng(to_poller'[o]) = After(<<"to_poller", o>>, r, a, b)
                           /\ pq'[o] = After(<<"pq", o>>, r, a, b)
    BY <1>13, <1>18, HeldBy DEF After, Nowhere
  <2>3. {ftl'.req} \ {NoReq} = After(<<"ftl", 0>>, r, a, b)
    BY <1>13, HeldBy DEF After, Nowhere
  <2> HIDE DEF a, b
  <2> QED
    BY <1>11, <2>1, <2>2, <2>3, MovesIf
<1> HIDE DEF a, b
<1>22. Posted' = Posted
  BY <1>13 DEF Posted, SameDevice
<1>23. ASSUME NEW o \in Queues
       PROVE  /\ Flight(o)' = IF r[1] # o THEN Flight(o)
                              ELSE IF b \in Flying THEN Flight(o) \cup {r}
                                                   ELSE Flight(o) \ {r}
              /\ Lost(o)' = IF r[1] = o /\ b \notin Holders THEN Lost(o) \cup {r}
                                                            ELSE Lost(o)
  BY <1>1, <1>10, <1>21, MoveStages DEF Structures
<1>24. ASSUME NEW o \in Queues, o # q PROVE QueuePair(o)'
  <2>1. Flight(o)' = Flight(o) /\ Lost(o)' = Lost(o)
    BY <1>9, <1>23, <1>24
  <2>2. SameNames(o)
    BY <1>9, <1>13, <1>15, <1>24 DEF SameNames
  <2>3. SameStages(o) /\ sq'[o] = sq[o]
    BY <1>13, <1>16, <1>19, <1>22, <1>24, <2>1, <2>2 DEF SameStages, SameHost
  <2> QED
    BY <1>1, <2>3, QueuePairStays DEF IInv
<1>25. /\ x \in Queued(q) /\ Queued(q)' = Queued(q) \ {x} /\ SqOrder(q)'
       /\ Unreaped(q)' = Unreaped(q) /\ PhaseOrder(q)' /\ SameHost(q)
  <2>1. SameHost(q) /\ cq'[q] = cq[q] /\ cqmem'[q] = cqmem[q]
    BY <1>13 DEF SameHost
  <2>2. x \in Queued(q) /\ Queued(q)' = Queued(q) \ {x} /\ SqOrder(q)'
    BY <1>1, <1>3, <1>5, <1>16, <2>1, HeadAdvances DEF QueuePair
  <2>3. Unreaped(q)' = Unreaped(q) /\ PhaseOrder(q)'
    BY <1>1, <1>5, <2>1, QueuesStay DEF QueuePair
  <2> QED
    BY <2>1, <2>2, <2>3
<1> DEFINE e == <<"sq", x>>
           f == IF ok THEN <<"req", r>> ELSE <<"dropped", c>>
<1>26. e \in Stages(q) /\ CidOf(q, e) = c
  BY <1>4, <1>25 DEF Stages, StageSet, CidOf
<1>27. Stages(q)' = (Stages(q) \ {e}) \cup {f}
  <2>1. Stages(q)' = StageSet(Queued(q) \ {x}, Flight(q)' \ Posted, Unreaped(q), dropped'[q])
    BY <1>22, <1>25 DEF Stages, StageSet
  <2>2. CASE ok
    <3>1. Flight(q)' \ Posted = (Flight(q) \ Posted) \cup {r} /\ dropped'[q] = dropped[q]
      BY <1>9, <1>10, <1>12, <1>19, <1>23, <2>2
    <3>2. Stages(q)' = StageSet(Queued(q) \ {x}, (Flight(q) \ Posted) \cup {r},
                                Unreaped(q), dropped[q])
      BY <2>1, <3>1
    <3> QED
      BY <2>2, <3>2 DEF Stages, StageSet
  <2>3. CASE ~ok
    <3>1. Flight(q)' \ Posted = Flight(q) \ Posted /\ dropped'[q] = dropped[q] \cup {c}
      BY <1>9, <1>10, <1>12, <1>19, <1>23, <2>3
    <3>2. Stages(q)' = StageSet(Queued(q) \ {x}, Flight(q) \ Posted,
                                Unreaped(q), dropped[q] \cup {c})
      BY <2>1, <3>1
    <3> QED
      BY <2>3, <3>2 DEF Stages, StageSet
  <2> QED
    BY <2>2, <2>3
<1>28. SameCids(q, Stages(q))
  <2>1. ASSUME NEW g \in Stages(q) PROVE CidOf(q, g)' = CidOf(q, g)
    <3>1. \/ \E y \in Flight(q) : g = <<"req", y>>
          \/ g[1] \in {"sq", "cq", "dropped"}
      BY <2>1 DEF Stages, StageSet
    <3>2. CASE \E y \in Flight(q) : g = <<"req", y>>
      BY <1>12, <1>15, <3>2 DEF CidOf, Flight
    <3>3. CASE g[1] \in {"sq", "cq", "dropped"}
      BY <1>13, <3>3 DEF CidOf
    <3> QED
      BY <3>1, <3>2, <3>3
  <2> QED
    BY <2>1 DEF SameCids
<1>29. CidOf(q, f)' = c
  <2>1. CASE ok
    BY <1>15, <2>1 DEF CidOf
  <2>2. CASE ~ok
    BY <2>2 DEF CidOf
  <2> QED
    BY <2>1, <2>2
<1>30. OneStage(q)'
  <2> HIDE DEF e, f
  <2> QED
    BY <1>5, <1>25, <1>26, <1>27, <1>28, <1>29, CommandMoves
       DEF QueuePair, SameCids, SameHost
<1>31. LostOnce(q)'
  <2>1. \A s \in Lost(q) : req'[s].cid = req[s].cid
    BY <1>12, <1>15 DEF Lost
  <2>2. LostOnce(q)
    BY <1>5 DEF QueuePair
  <2>3. CASE ok
    <3>1. Lost(q)' = Lost(q) /\ dropped'[q] = dropped[q]
      BY <1>10, <1>19, <1>23, <2>3
    <3> QED
      BY <2>1, <2>2, <3>1 DEF LostOnce
  <2>4. CASE ~ok
    <3>1. Lost(q)' = Lost(q) \cup {r} /\ dropped'[q] = dropped[q] \cup {c}
      BY <1>9, <1>10, <1>19, <1>23, <2>4
    <3>2. c \notin dropped[q]
      <4>1. ASSUME c \in dropped[q] PROVE FALSE
        <5>1. <<"dropped", c>> \in Stages(q) /\ CidOf(q, <<"dropped", c>>) = c
          BY <4>1 DEF Stages, StageSet, CidOf
        <5>2. <<"dropped", c>> = e
          BY <1>5, <1>26, <5>1 DEF QueuePair, OneStage
        <5> QED
          BY <5>2
      <4> QED
        BY <4>1
    <3> QED
      BY <1>15, <2>1, <2>2, <3>1, <3>2 DEF LostOnce
  <2> QED
    BY <2>3, <2>4
<1>32. QueuePair(q)'
  BY <1>25, <1>30, <1>31 DEF QueuePair
<1>33. Separate'
  BY <1>1, <1>10, <1>21, MoveSeparate DEF Structures
<1>34. SequencesDistinct'
  BY <1>1, <1>13, <1>17, <1>18, ListTypes, DistinctNext
<1>35. AtHome' /\ NothingAborted' /\ PosterOK'
  <2>1. \A o \in Queues : \A s \in Rng(req_list'[o]) : s[1] = o
    BY <1>1, <1>17 DEF AtHome, Structures
  <2>2. AtHome'
    BY <1>1, <1>13, <2>1 DEF AtHome, Structures, SameDevice, Rng
  <2> QED
    BY <1>1, <1>13, <2>2 DEF NothingAborted, PosterOK, Structures, SameDevice, NoReq
<1>36. Serving'
  <2>1. ASSUME multipoller_enabled, NEW o \in Pollers
        PROVE  \A s \in Rng(to_ftl'[o]) : s[1] = o
    <3>1. poller[p].q = p
      BY <1>1, <2>1, ServingNow
    <3> QED
      BY <1>1, <1>2, <1>9, <1>18, <2>1, <3>1, ServingNow
  <2> QED
    BY <1>1, <1>13, <2>1, ServingNow, ServingNext
<1> QED
  BY <1>20, <1>24, <1>32, <1>33, <1>34, <1>35, <1>36 DEF IInv, Structures, SameDevice

(* A request in flight finds an entry of the completion queue that the     *)
(* host has reaped: were they all new, their commands and its own would be *)
(* qsize different tags.                                                   *)
LEMMA CqHasRoom ==
  ASSUME IInv, NEW q \in Queues, NEW r \in Flight(q) \ Posted
  PROVE  Inc(cq[q].tail) # host[q].cq_head
<1> SUFFICES ASSUME Inc(cq[q].tail) = host[q].cq_head PROVE FALSE
  OBVIOUS
<1> DEFINE t == cq[q].tail
           f == [s \in Slots |-> IF s = t THEN req[r].cid ELSE cqmem[q][s].cid]
           e(s) == IF s = t THEN <<"req", r>> ELSE <<"cq", s>>
<1>1. TypeOK /\ conf \in Configs /\ OneStage(q)
  BY DEF IInv, TypeOK, QueuePair
<1>2. t \in Slots /\ host[q].cq_head \in Slots
  BY <1>1, Indices
<1>3. t \notin Unreaped(q) /\ Unreaped(q) \cup {t} = Slots
  BY <1>1, <1>2, AdvanceEnd DEF Unreaped
<1>4. ASSUME NEW s \in Slots PROVE e(s) \in Stages(q) /\ CidOf(q, e(s)) = f[s]
  <2>1. CASE s = t
    BY <2>1 DEF Stages, StageSet, CidOf
  <2>2. CASE s # t
    BY <1>3, <2>2 DEF Stages, StageSet, CidOf
  <2> QED
    BY <2>1, <2>2
<1>5. f \in [Slots -> Cids]
  <2>1. req[r] \in Request /\ \A s \in Slots : cqmem[q][s] \in Cqe
    BY <1>1 DEF TypeOK, Flight
  <2>2. req[r].cid \in Cids /\ \A s \in Slots : cqmem[q][s].cid \in Cids
    BY <2>1 DEF Request, Cqe
  <2> QED
    BY <2>2
<1>6. PICK s \in Slots, u \in Slots : s # u /\ f[s] = f[u]
  <2> HIDE DEF f
  <2> QED
    BY <1>1, <1>5, TooFewTags
<1>7. e(s) = e(u)
  <2> HIDE DEF e, f
  <2> QED
    BY <1>1, <1>4, <1>6 DEF OneStage
<1> QED
  BY <1>6, <1>7

(* The controller's tail moves on, and inverts the phase on wraparound.    *)
LEMMA TailAdvances ==
  ASSUME conf \in Configs, NEW t \in Slots, NEW h \in {0, 1}
  PROVE  LET c == nvme_inc_cq_tail([tail |-> t, phase |-> h]) IN
         c.tail = Inc(t) /\ c.phase = IF t + 1 = qsize THEN 1 - h ELSE h
<1>1. t \in 0 .. qsize - 1 /\ qsize \in Nat
  BY ConfFacts DEF Slots
<1>2. CASE t + 1 = qsize
  BY <1>1, <1>2, IncValue DEF nvme_inc_cq_tail
<1>3. CASE t + 1 # qsize
  BY <1>1, <1>3, IncValue DEF nvme_inc_cq_tail
<1> QED
  BY <1>2, <1>3

(* An entry is written at the controller's tail.                           *)
LEMMA EntryAppended ==
  ASSUME TypeOK, SameDevice, NEW q \in Queues, SqOrder(q), PhaseOrder(q),
         Inc(cq[q].tail) # host[q].cq_head,
         SameHost(q), sq'[q] = sq[q],
         NEW t \in Slots, t = cq[q].tail,
         cqmem'[q][t].phase = cq[q].phase, cqmem'[q][t].sq_head = sq[q].head,
         \A s \in Slots : s # t => cqmem'[q][s] = cqmem[q][s],
         cq'[q].tail = Inc(t),
         cq'[q].phase = IF t + 1 = qsize THEN 1 - cq[q].phase ELSE cq[q].phase
  PROVE  /\ t \notin Unreaped(q) /\ Unreaped(q)' = Unreaped(q) \cup {t}
         /\ SqOrder(q)' /\ PhaseOrder(q)'
<1> DEFINE i == host[q].cq_head
           d(j) == Dist(host[q].sq_head, j)
<1>1. /\ conf \in Configs /\ i \in Slots /\ host[q].phase \in {0, 1}
      /\ cq[q].phase \in {0, 1} /\ sq[q].head \in Slots /\ host[q].sq_head \in Slots
  BY Indices
<1>2. t \notin Unreaped(q) /\ Between(i, Inc(t)) = Unreaped(q) \cup {t}
  BY <1>1, AdvanceEnd DEF Unreaped
<1>3. Unreaped(q)' = Unreaped(q) \cup {t}
  BY <1>2 DEF Unreaped, Between, SameDevice, SameHost
<1>4. Unreaped(q) \subseteq Slots
  BY StageTypes
<1>5. /\ d(sq[q].head) <= d(sq[q].tail) /\ d(sq[q].tail) <= d(host[q].tail)
      /\ \A s \in Unreaped(q) : d(cqmem[q][s].sq_head) <= d(sq[q].head)
      /\ \A s, u \in Unreaped(q) :
           Dist(i, s) <= Dist(i, u) => d(cqmem[q][s].sq_head) <= d(cqmem[q][u].sq_head)
  BY DEF SqOrder
<1>6. \A s \in Unreaped(q)' : d(cqmem'[q][s].sq_head) <= d(sq[q].head)
  <2>1. d(sq[q].head) \in Int
    BY <1>1, DistType
  <2> QED
    BY <1>2, <1>3, <1>4, <1>5, <2>1
<1>7. ASSUME NEW s \in Unreaped(q)', NEW u \in Unreaped(q)', Dist(i, s) <= Dist(i, u)
      PROVE  d(cqmem'[q][s].sq_head) <= d(cqmem'[q][u].sq_head)
  <2>1. CASE u = t
    BY <1>6, <2>1
  <2>2. CASE u # t
    <3>1. u \in Unreaped(q) /\ u \in Slots
      BY <1>3, <1>4, <1>7, <2>2
    <3>2. Dist(i, u) < Dist(i, t) /\ Dist(i, u) \in Int /\ Dist(i, t) \in Int
      BY <1>1, <3>1, BetweenByDist, DistType DEF Unreaped
    <3>3. s # t
      BY <1>7, <3>2
    <3> QED
      BY <1>3, <1>4, <1>5, <1>7, <2>2, <3>1, <3>3
  <2> QED
    BY <2>1, <2>2
<1>8. SqOrder(q)'
  BY <1>5, <1>6, <1>7 DEF SqOrder, Dist, SameDevice, SameHost
<1>9. /\ cq[q].phase = IF i <= t THEN host[q].phase ELSE 1 - host[q].phase
      /\ \A s \in Slots : (cqmem[q][s].phase =
                             IF s >= i THEN host[q].phase ELSE 1 - host[q].phase)
                          <=> s \in Unreaped(q)
  BY DEF PhaseOrder
<1>10. cq'[q].phase = IF i <= Inc(t) THEN host[q].phase ELSE 1 - host[q].phase
  <2>1. t \in 0 .. qsize - 1 /\ i \in 0 .. qsize - 1 /\ qsize \in Nat
    BY <1>1, ConfFacts DEF Slots
  <2>2. CASE t + 1 = qsize
    BY <1>1, <1>9, <2>1, <2>2, IncValue
  <2>3. CASE t + 1 # qsize
    BY <1>1, <1>9, <2>1, <2>3, IncValue
  <2> QED
    BY <2>2, <2>3
<1>11. \A s \in Slots : (cqmem'[q][s].phase =
                           IF s >= i THEN host[q].phase ELSE 1 - host[q].phase)
                        <=> s \in Unreaped(q)'
  <2>1. cqmem'[q][t].phase = IF t >= i THEN host[q].phase ELSE 1 - host[q].phase
    BY <1>1, <1>9, ConfFacts DEF Slots
  <2> QED
    BY <1>2, <1>3, <1>9, <2>1
<1>12. PhaseOrder(q)'
  BY <1>10, <1>11 DEF PhaseOrder, SameDevice, SameHost
<1> QED
  BY <1>2, <1>3, <1>8, <1>12

(* A request that a poller finds in its priority queue is in flight, and   *)
(* its completion was not posted.                                          *)
LEMMA PostFinds ==
  ASSUME IInv, NEW p \in Pollers, NEW r \in pq[p], poller[p].pc = "post"
  PROVE  r \in Reqs /\ r[1] \in Queues /\ r \in Flight(r[1]) \ Posted
         /\ poller[p].req = NoReq /\ r # NoReq
<1>1. TypeOK /\ Structures /\ conf \in Configs /\ pq[p] \in SUBSET Reqs
  BY DEF IInv, TypeOK
<1>2. r \in Reqs /\ r[1] \in Queues /\ r # NoReq
  BY <1>1, ConfFacts DEF Reqs
<1>3. poller[p].req = NoReq
  BY <1>1 DEF Structures, PosterOK
<1>4. r \in Held(<<"pq", p>>) /\ <<"pq", p>> \in Holders \cap Flying
  BY HeldBy, HolderKinds
<1>5. r \in Flight(r[1])
  BY <1>2, <1>4 DEF Flight
<1>6. r \notin Posted
  <2> SUFFICES ASSUME r \in Posted PROVE FALSE
    OBVIOUS
  <2>1. PICK o \in Pollers : poller[o].req = r /\ r \in Held(<<"pq", o>>)
    BY <1>1, <1>2, PostedWaits
  <2>2. <<"pq", o>> = <<"pq", p>>
    BY <1>1, <1>2, <1>4, <2>1, HolderKinds DEF Structures, Separate
  <2> QED
    BY <1>2, <1>3, <2>1, <2>2
<1> QED
  BY <1>2, <1>3, <1>5, <1>6

(* A poller posts a completion: the queue has room for it.                 *)
LEMMA PostInv ==
  ASSUME IInv, SameDevice, UNCHANGED conf, NEW p \in Pollers, NEW r \in pq[p], Post(p, r)
  PROVE  IInv'
<1>1. TypeOK /\ Structures /\ conf \in Configs
  BY DEF IInv, TypeOK
<1>2. PICK q \in Queues : q = r[1]
  BY PostFinds DEF Post
<1>3. PICK t \in Slots : t = cq[q].tail
  BY <1>1, Indices
<1>4. /\ r \in Reqs /\ r \in Flight(q) \ Posted /\ poller[p].req = NoReq /\ r # NoReq
      /\ poller[p].pc = "post"
  BY <1>2, PostFinds DEF Post
<1>5. Inc(t) # host[q].cq_head /\ Inc(t) \in Slots
  BY <1>1, <1>3, <1>4, CqHasRoom, IncValue
<1> DEFINE c == [cid |-> req[r].cid, phase |-> cq[q].phase, sq_head |-> sq[q].head]
           g == [poller[p] EXCEPT !.pc = "recycle", !.req = r]
           n == nvme_inc_cq_tail(cq[q])
<1>6. /\ UNCHANGED <<host, irq, sqmem, ncmds, naborts, out_req_list, dropped, sq, req_list,
                     req, to_ftl, to_poller, ftl, pq, should_isr, now>>
      /\ cqmem' = [cqmem EXCEPT ![q][t] = c]
      /\ cq' = [cq EXCEPT ![q] = n]
      /\ poller' = [poller EXCEPT ![p].pc = "recycle", ![p].req = r]
  BY <1>2, <1>3 DEF Post, abortVars, hostVars, ringVars
<1>7. c \in Cqe /\ c.cid = req[r].cid /\ c.phase = cq[q].phase /\ c.sq_head = sq[q].head
  <2>1. req[r] \in Request
    BY <1>1, <1>4 DEF TypeOK
  <2>2. req[r].cid \in Cids /\ cq[q].phase \in {0, 1} /\ sq[q].head \in Slots
    BY <1>1, <2>1, Indices DEF Request
  <2> QED
    BY <2>2 DEF Cqe
<1>8. /\ n \in [tail : Slots, phase : {0, 1}] /\ n.tail = Inc(t)
      /\ n.phase = IF t + 1 = qsize THEN 1 - cq[q].phase ELSE cq[q].phase
  <2>1. cq[q].phase \in {0, 1} /\ cq[q] = [tail |-> t, phase |-> cq[q].phase]
    BY <1>1, <1>3 DEF TypeOK
  <2>2. /\ n.tail = Inc(t)
        /\ n.phase = IF t + 1 = qsize THEN 1 - cq[q].phase ELSE cq[q].phase
    BY <1>1, <2>1, TailAdvances
  <2>3. n = [tail |-> n.tail, phase |-> n.phase]
    BY DEF nvme_inc_cq_tail
  <2> HIDE DEF n
  <2>4. n.phase \in {0, 1}
    BY <2>1, <2>2
  <2> QED
    BY <1>5, <2>2, <2>3, <2>4
<1>9. g \in Poller /\ g.req = r /\ g.pc = "recycle" /\ g.q = poller[p].q
  <2>1. poller[p] \in Poller
    BY <1>1 DEF TypeOK
  <2> QED
    BY <1>4, <2>1 DEF Poller, Labels
<1>10. poller' = [poller EXCEPT ![p] = g]
  BY <1>6
<1> HIDE DEF c, g, n
<1>11. /\ cqmem' \in [Queues -> [Slots -> Cqe]]
       /\ \A o \in Queues, s \in Slots :
            cqmem'[o][s] = IF o = q /\ s = t THEN c ELSE cqmem[o][s]
       /\ \A o \in Queues : o # q => cqmem'[o] = cqmem[o]
  <2>1. cqmem \in [Queues -> [Slots -> Cqe]]
    BY <1>1 DEF TypeOK
  <2> QED
    BY <1>6, <1>7, <2>1
<1>12. /\ cq' \in [Queues -> [tail : Slots, phase : {0, 1}]]
       /\ cq'[q] = n /\ \A o \in Queues : o # q => cq'[o] = cq[o]
  <2>1. cq \in [Queues -> [tail : Slots, phase : {0, 1}]]
    BY <1>1 DEF TypeOK
  <2> QED
    BY <1>6, <1>8, <2>1
<1>13. /\ poller' \in [Pollers -> Poller] /\ poller'[p] = g
       /\ \A o \in Pollers : o # p => poller'[o] = poller[o]
  <2>1. poller \in [Pollers -> Poller]
    BY <1>1 DEF TypeOK
  <2> QED
    BY <1>9, <1>10, <2>1
<1>14. TypeOK'
  BY <1>1, <1>6, <1>11, <1>12, <1>13 DEF TypeOK, SameDevice
<1>15. \A s \in Reqs : s \in Posted' <=> s \in Posted \/ s = r
  <2>1. \A s \in Reqs : s # NoReq
    BY <1>1, ConfFacts
  <2> QED
    BY <1>4, <1>9, <1>13, <2>1 DEF Posted, SameDevice
<1>16. PosterOK'
  <2>1. ASSUME NEW o \in Pollers
        PROVE  /\ poller'[o].pc = "recycle" => poller'[o].req # NoReq
               /\ poller'[o].req # NoReq =>
                    /\ poller'[o].pc \in {"recycle", "crash"}
                    /\ poller'[o].req \in pq[o]
    <3>1. CASE o = p
      BY <1>4, <1>9, <1>13, <3>1
    <3>2. CASE o # p
      BY <1>1, <1>13, <3>2 DEF Structures, PosterOK
    <3> QED
      BY <3>1, <3>2
  <2> QED
    BY <1>6, <2>1 DEF PosterOK, SameDevice, NoReq
<1>17. Structures'
  BY <1>1, <1>6, <1>9, <1>13, <1>16, StructuresStay DEF Structures, Serving
<1>18. ASSUME NEW o \in Queues PROVE Flight(o)' = Flight(o) /\ Lost(o)' = Lost(o)
  BY <1>6, NothingMoves, StaysStages
<1>19. ASSUME NEW o \in Queues, o # q PROVE QueuePair(o)'
  <2>1. Flight(o)' \ Posted' = Flight(o) \ Posted
    BY <1>2, <1>15, <1>18, <1>19 DEF Flight
  <2>2. SameStages(o) /\ sq'[o] = sq[o]
    BY <1>6, <1>11, <1>12, <1>18, <1>19, <2>1 DEF SameStages, SameHost, SameNames
  <2> QED
    BY <1>1, <2>2, QueuePairStays DEF IInv
<1>20. /\ t \notin Unreaped(q) /\ Unreaped(q)' = Unreaped(q) \cup {t}
       /\ SqOrder(q)' /\ PhaseOrder(q)' /\ SameHost(q)
  <2>1. SameHost(q) /\ sq'[q] = sq[q] /\ SqOrder(q) /\ PhaseOrder(q)
    BY <1>6 DEF SameHost, IInv, QueuePair
  <2>2. /\ cqmem'[q][t].phase = cq[q].phase /\ cqmem'[q][t].sq_head = sq[q].head
        /\ \A s \in Slots : s # t => cqmem'[q][s] = cqmem[q][s]
    BY <1>7, <1>11
  <2>3. /\ cq'[q].tail = Inc(t)
        /\ cq'[q].phase = IF t + 1 = qsize THEN 1 - cq[q].phase ELSE cq[q].phase
    BY <1>8, <1>12
  <2> QED
    BY <1>1, <1>3, <1>5, <2>1, <2>2, <2>3, EntryAppended
<1> DEFINE e == <<"req", r>>
           f == <<"cq", t>>
<1>21. e \in Stages(q) /\ CidOf(q, e) = req[r].cid
  BY <1>4 DEF Stages, StageSet, CidOf
<1>22. Stages(q)' = (Stages(q) \ {e}) \cup {f}
  <2>1. Flight(q)' \ Posted' = (Flight(q) \ Posted) \ {r}
    BY <1>15, <1>18 DEF Flight
  <2>2. Queued(q)' = Queued(q)
    BY <1>6, <1>20 DEF Queued, Between, SameDevice
  <2>3. Stages(q)' = StageSet(Queued(q), (Flight(q) \ Posted) \ {r},
                              Unreaped(q) \cup {t}, dropped[q])
    BY <1>6, <1>20, <2>1, <2>2 DEF Stages, StageSet
  <2> QED
    BY <2>3 DEF Stages, StageSet
<1>23. SameCids(q, Stages(q))
  <2>1. ASSUME NEW s \in Stages(q) PROVE CidOf(q, s)' = CidOf(q, s)
    <3>1. \/ \E y \in Unreaped(q) : s = <<"cq", y>>
          \/ s[1] \in {"sq", "req", "dropped"}
      BY <2>1 DEF Stages, StageSet
    <3>2. CASE \E y \in Unreaped(q) : s = <<"cq", y>>
      BY <1>1, <1>11, <1>20, <3>2, StageTypes DEF CidOf
    <3>3. CASE s[1] \in {"sq", "req", "dropped"}
      BY <1>6, <3>3 DEF CidOf
    <3> QED
      BY <3>1, <3>2, <3>3
  <2> QED
    BY <2>1 DEF SameCids
<1>24. CidOf(q, f)' = req[r].cid
  BY <1>7, <1>11 DEF CidOf
<1>25. OneStage(q)' /\ LostOnce(q)'
  <2>1. OneStage(q) /\ LostOnce(q)
    BY DEF IInv, QueuePair
  <2>2. OneStage(q)'
    <3> HIDE DEF e, f
    <3> QED
      BY <1>20, <1>21, <1>22, <1>23, <1>24, <2>1, CommandMoves DEF SameCids, SameHost
  <2>3. LostOnce(q)'
    BY <1>6, <1>18, <2>1 DEF LostOnce
  <2> QED
    BY <2>2, <2>3
<1> QED
  BY <1>14, <1>17, <1>19, <1>20, <1>25 DEF IInv, QueuePair, SameDevice

(* The host takes the entry at its head, which tells it of the             *)
(* controller's head.                                                      *)
LEMMA EntryReaped ==
  ASSUME TypeOK, SameDevice, NEW q \in Queues, SqOrder(q), PhaseOrder(q),
         NEW i \in Slots, i = host[q].cq_head, cqmem[q][i].phase = host[q].phase,
         cq'[q] = cq[q], cqmem'[q] = cqmem[q], sq'[q] = sq[q],
         host'[q].tail = host[q].tail, host'[q].sq_head = cqmem[q][i].sq_head,
         host'[q].cq_head = Inc(i),
         host'[q].phase = IF i + 1 = qsize THEN 1 - host[q].phase ELSE host[q].phase
  PROVE  /\ i \in Unreaped(q) /\ Unreaped(q)' = Unreaped(q) \ {i}
         /\ SqOrder(q)' /\ PhaseOrder(q)'
<1> DEFINE told(s) == cqmem[q][s].sq_head
           d(j) == Dist(host[q].sq_head, j)
           n == told(i)
<1>1. /\ conf \in Configs /\ host[q].phase \in {0, 1} /\ cq[q].phase \in {0, 1}
      /\ sq[q].head \in Slots /\ sq[q].tail \in Slots /\ host[q].tail \in Slots
      /\ host[q].sq_head \in Slots /\ cq[q].tail \in Slots
  BY Indices
<1>2. /\ cq[q].phase = IF i <= cq[q].tail THEN host[q].phase ELSE 1 - host[q].phase
      /\ \A s \in Slots : (cqmem[q][s].phase =
                             IF s >= i THEN host[q].phase ELSE 1 - host[q].phase)
                          <=> s \in Unreaped(q)
  BY DEF PhaseOrder
<1>3. i \in Unreaped(q)
  BY <1>1, <1>2, ConfFacts DEF Slots
<1>4. i # cq[q].tail
  BY <1>1, <1>3, AdvanceEnd DEF Unreaped
<1>5. Unreaped(q)' = Unreaped(q) \ {i}
  <2>1. Between(Inc(i), cq[q].tail) = Unreaped(q) \ {i}
    BY <1>1, <1>4, AdvanceFront DEF Unreaped
  <2> QED
    BY <2>1 DEF Unreaped, Between, SameDevice
<1>6. Unreaped(q) \subseteq Slots /\ Inc(i) \in Slots
  BY <1>1, StageTypes, IncValue
<1>7. \A s \in Slots : told(s) \in Slots
  <2>1. \A s \in Slots : cqmem[q][s] \in Cqe
    BY DEF TypeOK
  <2> QED
    BY <2>1 DEF Cqe
<1>8. /\ d(sq[q].head) <= d(sq[q].tail) /\ d(sq[q].tail) <= d(host[q].tail)
      /\ \A s \in Unreaped(q) : d(told(s)) <= d(sq[q].head)
      /\ \A s, u \in Unreaped(q) : Dist(i, s) <= Dist(i, u) => d(told(s)) <= d(told(u))
  BY DEF SqOrder
<1>9. /\ d(sq[q].head) \in Int /\ d(sq[q].tail) \in Int /\ d(host[q].tail) \in Int
      /\ \A s \in Slots : d(told(s)) \in Int
  BY <1>1, <1>7, DistType
<1>10. \A k \in Slots : d(n) <= d(k) => Dist(n, k) = d(k) - d(n)
  BY <1>1, <1>7, DistLater
<1>11. /\ d(n) <= d(sq[q].head) /\ d(n) <= d(sq[q].tail) /\ d(n) <= d(host[q].tail)
  BY <1>3, <1>6, <1>8, <1>9
<1>12. ASSUME NEW s \in Unreaped(q) PROVE d(n) <= d(told(s))
  <2>1. Dist(i, i) = 0 /\ Dist(i, s) >= 0
    BY <1>1, <1>6, DistType
  <2> QED
    BY <1>3, <1>8, <2>1
<1>13. ASSUME NEW s \in Unreaped(q), s # i PROVE Dist(Inc(i), s) = Dist(i, s) - 1
  <2>1. Dist(i, i) = 0 /\ Dist(i, s) \in 0 .. qsize - 1 /\ Dist(i, s) # 0
    BY <1>1, <1>6, <1>13, DistType
  <2>2. Inc(i) # i /\ Dist(i, Inc(i)) = 1
    BY <1>1, <1>6, <1>13, <2>1, DistNext
  <2>3. Dist(i, Inc(i)) <= Dist(i, s)
    BY <2>1, <2>2
  <2> QED
    BY <1>1, <1>6, <2>2, <2>3, DistLater
<1>14. SqOrder(q)'
  <2>1. /\ Dist(n, sq[q].head) <= Dist(n, sq[q].tail)
        /\ Dist(n, sq[q].tail) <= Dist(n, host[q].tail)
    BY <1>1, <1>3, <1>6, <1>8, <1>9, <1>10, <1>11
  <2>2. ASSUME NEW s \in Unreaped(q) PROVE Dist(n, told(s)) <= Dist(n, sq[q].head)
    BY <1>1, <1>3, <1>6, <1>7, <1>8, <1>9, <1>10, <1>11, <1>12
  <2>3. ASSUME NEW s \in Unreaped(q), NEW u \in Unreaped(q), s # i, u # i,
               Dist(Inc(i), s) <= Dist(Inc(i), u)
        PROVE  Dist(n, told(s)) <= Dist(n, told(u))
    <3>1. Dist(i, s) <= Dist(i, u)
      BY <1>1, <1>6, <1>13, <2>3, DistType
    <3>2. d(told(s)) <= d(told(u))
      BY <1>8, <3>1
    <3> QED
      BY <1>3, <1>6, <1>7, <1>9, <1>10, <1>12, <3>2
  <2> QED
    BY <1>5, <2>1, <2>2, <2>3 DEF SqOrder, Dist, SameDevice
<1>15. i \in 0 .. qsize - 1 /\ cq[q].tail \in 0 .. qsize - 1 /\ qsize \in Nat
  BY <1>1, ConfFacts DEF Slots
<1> DEFINE h == host'[q].phase
<1>16. cq[q].phase = IF Inc(i) <= cq[q].tail THEN h ELSE 1 - h
  <2>1. CASE i + 1 = qsize
    BY <1>1, <1>2, <1>4, <1>15, <2>1, IncValue
  <2>2. CASE i + 1 # qsize
    BY <1>1, <1>2, <1>4, <1>15, <2>2, IncValue
  <2> QED
    BY <2>1, <2>2
<1>17. ASSUME NEW s \in Slots
       PROVE  (cqmem[q][s].phase = IF s >= Inc(i) THEN h ELSE 1 - h)
              <=> s \in Unreaped(q) /\ s # i
  <2>1. s \in 0 .. qsize - 1
    BY DEF Slots
  <2>2. CASE i + 1 = qsize
    BY <1>1, <1>2, <1>15, <2>1, <2>2, IncValue
  <2>3. CASE i + 1 # qsize
    BY <1>1, <1>2, <1>15, <2>1, <2>3, IncValue
  <2> QED
    BY <2>2, <2>3
<1>18. PhaseOrder(q)'
  BY <1>5, <1>16, <1>17 DEF PhaseOrder, SameDevice
<1> QED
  BY <1>3, <1>5, <1>14, <1>18

(* The host reaps a completion, its tag and the head it tells.             *)
LEMMA ReapInv ==
  ASSUME IInv, SameDevice, UNCHANGED conf, NEW q \in Queues, Reap(q)
  PROVE  IInv'
<1>1. TypeOK /\ Structures /\ conf \in Configs
  BY DEF IInv, TypeOK
<1>2. UNCHANGED <<sqmem, irq, ncmds, naborts, out_req_list, dropped, cqmem, sq, cq,
                  req_list, req, to_ftl, to_poller, ftl, pq, poller, should_isr, now>>
  BY DEF Reap, abortVars, ringVars
<1>3. Structures' /\ Posted' = Posted
  <2>1. PosterOK' /\ Posted' = Posted
    BY <1>1, <1>2 DEF Structures, PosterOK, Posted, SameDevice, NoReq
  <2> QED
    BY <1>1, <1>2, <2>1, StructuresStay DEF Structures, Serving
<1>4. CASE ~NewCqe(q)
  <2>1. host' \in [Queues -> Host] /\ \A o \in Queues : SameHost(o)
    BY <1>1, <1>4, HandlerStep DEF Reap
  <2>2. TypeOK'
    BY <1>1, <1>2, <2>1 DEF TypeOK, SameDevice
  <2> QED
    BY <1>2, <1>3, <2>1, <2>2, NothingHappens
<1>5. CASE NewCqe(q)
  <2>1. PICK i \in Slots, c \in Cids, n \in Slots :
          i = host[q].cq_head /\ c = cqmem[q][i].cid /\ n = cqmem[q][i].sq_head
    <3>1. host[q].cq_head \in Slots
      BY <1>1, Indices
    <3>2. cqmem[q][host[q].cq_head] \in Cqe
      BY <1>1, <3>1 DEF TypeOK
    <3> QED
      BY <3>1, <3>2 DEF Cqe
  <2> DEFINE h == host[q]
             k == Inc(i)
             f == IF i + 1 = qsize THEN 1 - h.phase ELSE h.phase
             g == [h EXCEPT !.busy = h.busy \ {c}, !.sq_head = n, !.cq_head = k, !.phase = f]
  <2>2. host' = [host EXCEPT ![q] = g]
    BY <1>5, <2>1 DEF Reap
  <2>3. /\ h \in Host /\ k \in Slots /\ f \in {0, 1}
    BY <1>1, Indices, IncValue
  <2>4. /\ g \in Host /\ g.busy = h.busy \ {c} /\ g.sq_head = n /\ g.cq_head = k
        /\ g.phase = f /\ g.tail = h.tail
    <3> HIDE DEF h, k, f
    <3> QED
      BY <2>3 DEF Host
  <2> HIDE DEF g
  <2>5. /\ host' \in [Queues -> Host] /\ host'[q] = g
        /\ \A o \in Queues : o # q => host'[o] = host[o]
    <3>1. host \in [Queues -> Host]
      BY <1>1 DEF TypeOK
    <3> QED
      BY <2>2, <2>4, <3>1
  <2>6. TypeOK'
    BY <1>1, <1>2, <2>5 DEF TypeOK, SameDevice
  <2>7. ASSUME NEW o \in Queues PROVE Flight(o)' = Flight(o) /\ Lost(o)' = Lost(o)
    BY <1>2, NothingMoves, StaysStages
  <2>8. ASSUME NEW o \in Queues, o # q PROVE QueuePair(o)'
    <3>1. SameStages(o) /\ sq'[o] = sq[o]
      BY <1>2, <1>3, <2>5, <2>7, <2>8 DEF SameStages, SameHost, SameNames
    <3> QED
      BY <1>1, <3>1, QueuePairStays DEF IInv
  <2>9. /\ i \in Unreaped(q) /\ Unreaped(q)' = Unreaped(q) \ {i}
        /\ SqOrder(q)' /\ PhaseOrder(q)'
    <3>1. SqOrder(q) /\ PhaseOrder(q) /\ cqmem[q][i].phase = host[q].phase
      BY <1>5, <2>1 DEF IInv, QueuePair, NewCqe
    <3> QED
      BY <1>1, <1>2, <2>1, <2>4, <2>5, <3>1, EntryReaped
  <2> DEFINE e == <<"cq", i>>
  <2>10. e \in Stages(q) /\ CidOf(q, e) = c
    BY <2>1, <2>9 DEF Stages, StageSet, CidOf
  <2>11. Stages(q)' = Stages(q) \ {e}
    <3>1. Queued(q)' = Queued(q)
      BY <1>2, <2>4, <2>5 DEF Queued, Between, SameDevice
    <3>2. Stages(q)' = StageSet(Queued(q), Flight(q) \ Posted, Unreaped(q) \ {i}, dropped[q])
      BY <1>2, <1>3, <2>7, <2>9, <3>1 DEF Stages, StageSet
    <3> QED
      BY <3>2 DEF Stages, StageSet
  <2>12. SameCids(q, Stages(q))
    BY <1>2 DEF SameCids, CidOf
  <2>13. OneStage(q)' /\ LostOnce(q)'
    <3>1. OneStage(q) /\ LostOnce(q)
      BY DEF IInv, QueuePair
    <3>2. OneStage(q)'
      <4> HIDE DEF e
      <4> QED
        BY <2>4, <2>5, <2>10, <2>11, <2>12, <3>1, CommandLeaves
    <3>3. LostOnce(q)'
      BY <1>2, <2>7, <3>1 DEF LostOnce
    <3> QED
      BY <3>2, <3>3
  <2> QED
    BY <1>3, <2>6, <2>8, <2>9, <2>13 DEF IInv, QueuePair, SameDevice
<1> QED
  BY <1>4, <1>5

-----------------------------------------------------------------------------
(* The invariant holds                                                     *)

(* A device starts with every structure free and nothing under way.        *)
LEMMA InitInv == Init => IInv
<1> SUFFICES ASSUME Init PROVE IInv
  OBVIOUS
<1>1. conf \in Configs
  BY DEF Init
<1>2. /\ qsize \in Nat /\ qsize >= 2 /\ 1 \in Pollers /\ Pollers \subseteq Queues
      /\ 0 \in Slots /\ 0 \in Cids /\ NoReq \notin Reqs
  BY <1>1, ConfFacts
<1>3. ASSUME NEW q \in Queues
      PROVE  /\ req_list[q] \in Seq(Reqs) /\ Distinct(req_list[q])
             /\ Rng(req_list[q]) = {r \in Reqs : r[1] = q}
  <2> DEFINE l == [i \in 1 .. qsize |-> <<q, i - 1>>]
  <2>1. req_list[q] = l
    BY DEF Init
  <2>2. \A i \in 1 .. qsize : l[i] \in Reqs
    BY <1>2 DEF Reqs, Slots
  <2>3. l \in Seq(Reqs)
    BY <1>2, <2>2
  <2>4. DOMAIN l = 1 .. qsize /\ \A i \in 1 .. qsize : l[i] = <<q, i - 1>>
    OBVIOUS
  <2> HIDE DEF l
  <2>5. Distinct(l)
    BY <2>4, <1>2 DEF Distinct
  <2>6. ASSUME NEW r \in Reqs, r[1] = q PROVE r \in Rng(l)
    <3>1. PICK s \in 0 .. qsize - 1 : r = <<q, s>>
      BY <2>6 DEF Reqs, Slots
    <3>2. s + 1 \in 1 .. qsize /\ (s + 1) - 1 = s
      BY <1>2
    <3>3. s + 1 \in DOMAIN l /\ l[s + 1] = r
      BY <2>4, <3>1, <3>2
    <3> QED
      BY <3>3 DEF Rng
  <2>7. ASSUME NEW r \in Rng(l) PROVE r \in Reqs /\ r[1] = q
    BY <2>2, <2>4, <2>7 DEF Rng
  <2> QED
    BY <2>1, <2>3, <2>5, <2>6, <2>7
<1>4. /\ \A q \in Queues : Held(<<"out", q>>) = {}
      /\ \A q \in Queues : Held(<<"free", q>>) = {r \in Reqs : r[1] = q}
      /\ \A p \in Pollers : /\ Held(<<"to_ftl", p>>) = {} /\ Held(<<"to_poller", p>>) = {}
                            /\ Held(<<"pq", p>>) = {}
      /\ Held(<<"ftl", 0>>) = {}
  <2>1. ASSUME NEW q \in Queues
        PROVE  /\ Held(<<"out", q>>) = {}
               /\ Held(<<"free", q>>) = {r \in Reqs : r[1] = q}
    <3>1. out_req_list[q] = {}
      BY DEF Init
    <3> QED
      BY <1>3, <3>1, HeldBy
  <2>2. ASSUME NEW p \in Pollers
        PROVE  /\ Held(<<"to_ftl", p>>) = {} /\ Held(<<"to_poller", p>>) = {}
               /\ Held(<<"pq", p>>) = {}
    <3>1. to_ftl[p] = <<>> /\ to_poller[p] = <<>> /\ pq[p] = {}
      BY DEF Init
    <3>2. Rng(<<>>) = {}
      BY DEF Rng
    <3> QED
      BY <3>1, <3>2, HeldBy
  <2>3. Held(<<"ftl", 0>>) = {}
    <3>1. ftl.req = NoReq
      BY DEF Init
    <3> QED
      BY <3>1, HeldBy
  <2> QED
    BY <2>1, <2>2, <2>3
<1>5. TypeOK
  <2>1. /\ host \in [Queues -> Host] /\ sqmem \in [Queues -> [Slots -> Sqe]]
        /\ cqmem \in [Queues -> [Slots -> Cqe]]
        /\ sq \in [Queues -> [head : Slots, tail : Slots]]
        /\ cq \in [Queues -> [tail : Slots, phase : {0, 1}]]
        /\ req \in [Reqs -> Request]
    BY <1>2 DEF Init, Host, Sqe, Cqe, Request
  <2>2. /\ req_list \in [Queues -> Seq(Reqs)]
        /\ to_ftl \in [Pollers -> Seq(Reqs)] /\ to_poller \in [Pollers -> Seq(Reqs)]
    <3>1. req_list = [q \in Queues |-> req_list[q]]
      BY DEF Init
    <3> QED
      BY <1>3, <3>1 DEF Init
  <2>3. poller \in [Pollers -> Poller]
    BY <1>1, <1>2, IdlePoller DEF Init
  <2> QED
    BY <1>1, <1>2, <2>1, <2>2, <2>3 DEF TypeOK, Init
<1>6. Structures
  <2>1. Separate
    <3>1. ASSUME NEW h \in Holders, NEW r \in Reqs, r \in Held(h)
          PROVE  h = <<"free", r[1]>>
      <4>1. CASE \E q \in Queues : h = <<"free", q>> \/ h = <<"out", q>>
        BY <1>4, <3>1, <4>1
      <4>2. CASE \E p \in Pollers : \/ h = <<"to_ftl", p>> \/ h = <<"to_poller", p>>
                                    \/ h = <<"pq", p>>
        BY <1>4, <3>1, <4>2
      <4>3. CASE h = <<"ftl", 0>>
        BY <1>4, <3>1, <4>3
      <4> QED
        BY <4>1, <4>2, <4>3, HolderKinds
    <3> QED
      BY <3>1 DEF Separate
  <2>2. SequencesDistinct
    BY <1>3 DEF SequencesDistinct, Init, Distinct
  <2>3. AtHome
    BY <1>3 DEF AtHome, Init
  <2>4. Serving /\ PosterOK /\ NothingAborted
    BY <1>2 DEF Serving, PosterOK, NothingAborted, Init, PollerIdle, Rng
  <2> QED
    BY <2>1, <2>2, <2>3, <2>4 DEF Structures
<1>7. ASSUME NEW q \in Queues PROVE QueuePair(q)
  <2>1. Queued(q) = {} /\ Unreaped(q) = {} /\ dropped[q] = {} /\ host[q].busy = {}
    BY DEF Init, Queued, Unreaped, Between
  <2>2. Flight(q) = {} /\ Lost(q) = {}
    <3>1. ASSUME NEW h \in Flying PROVE Held(h) = {}
      <4>1. CASE \E p \in Pollers : \/ h = <<"to_ftl", p>> \/ h = <<"to_poller", p>>
                                    \/ h = <<"pq", p>>
        BY <1>4, <4>1
      <4>2. CASE h = <<"ftl", 0>>
        BY <1>4, <4>2
      <4> QED
        BY <4>1, <4>2 DEF Flying
    <3>2. \A r \in Reqs : r[1] = q => r \in Held(<<"free", q>>)
      BY <1>4
    <3> QED
      BY <3>1, <3>2, HolderKinds DEF Flight, Lost
  <2>3. Stages(q) = {}
    BY <2>1, <2>2 DEF Stages, StageSet
  <2>4. OneStage(q) /\ LostOnce(q)
    BY <2>1, <2>2, <2>3 DEF OneStage, LostOnce
  <2>5. SqOrder(q)
    BY <2>1 DEF SqOrder, Init, Dist
  <2>6. PhaseOrder(q)
    BY <2>1, <1>2 DEF PhaseOrder, Init, Slots
  <2> QED
    BY <2>4, <2>5, <2>6 DEF QueuePair
<1> QED
  BY <1>5, <1>6, <1>7 DEF IInv

(* A step that changes nothing.                                            *)
LEMMA StutterInv == ASSUME IInv, UNCHANGED vars PROVE IInv'
<1>1. UNCHANGED <<conf, host, sqmem, cqmem, irq, ncmds, naborts, dropped, sq, cq, req_list,
                  out_req_list, req, to_ftl, to_poller, ftl, pq, poller, should_isr, now>>
  BY DEF vars, stepVars, hostVars, abortVars, ringVars
<1>2. SameDevice
  BY <1>1, DeviceFixed
<1>3. TypeOK /\ Structures
  BY DEF IInv
<1>4. PosterOK' /\ Posted' = Posted
  BY <1>1, <1>2, <1>3 DEF Structures, PosterOK, Posted, SameDevice, NoReq
<1>5. Structures'
  BY <1>1, <1>2, <1>3, <1>4, StructuresStay DEF Structures, Serving
<1>6. TypeOK'
  BY <1>1, <1>2, <1>3 DEF TypeOK, SameDevice
<1> QED
  BY <1>1, <1>2, <1>4, <1>5, <1>6, NothingHappens DEF SameHost

(* Every step of a poller preserves the invariant.                         *)
LEMMA PollerInv ==
  ASSUME IInv, SameDevice, UNCHANGED conf, NEW p \in Pollers, PollerStep(p)
  PROVE  IInv'
BY UpdateTailInv, FetchInv, FetchCrashInv, SqDoneInv, DrainInv, RecycleInv,
   PostDoneInv, IsrInv, PostInv DEF PollerStep

(* Every step preserves the invariant.                                     *)
LEMMA StepInv == IInv /\ [Next]_vars => IInv'
<1> SUFFICES ASSUME IInv, [Next]_vars PROVE IInv'
  OBVIOUS
<1>1. CASE UNCHANGED vars
  BY <1>1, StutterInv
<1>2. CASE Next
  <2>1. UNCHANGED conf /\ SameDevice
    BY <1>2, DeviceFixed DEF Next
  <2>2. ASSUME NEW q \in Queues, NEW c \in Cids, NEW ok \in Success, Submit(q, c, ok)
        PROVE  IInv'
    BY <2>1, <2>2, SubmitInv
  <2>3. ASSUME NEW q \in Queues, HostIsrStep(q) PROVE IInv'
    BY <2>1, <2>3, TakeIrqInv, ReapInv DEF HostIsrStep
  <2>4. ASSUME NEW p \in Pollers, PollerStep(p) \/ FtlDequeue(p) PROVE IInv'
    BY <2>1, <2>4, PollerInv, FtlDequeueInv
  <2>5. ASSUME NEW q \in Queues, NEW s \in Slots, Abort(q, s) PROVE IInv'
    BY <2>1, <2>5, AbortInv
  <2>6. ASSUME FtlEnqueue \/ Tick PROVE IInv'
    BY <2>1, <2>6, FtlEnqueueInv, TickInv
  <2> QED
    BY <1>2, <2>2, <2>3, <2>4, <2>5, <2>6, Zenon DEF Next
<1> QED
  BY <1>1, <1>2

(* The invariant of the data path, for every device: every structure in    *)
(* one place, every command in one stage, indices and phases in order.     *)
THEOREM Invariance == Spec => []IInv
<1>1. Init => IInv
  BY InitInv
<1>2. IInv /\ [Next]_vars => IInv'
  BY StepInv
<1> QED
  BY <1>1, <1>2, PTL DEF Spec

-----------------------------------------------------------------------------
(* What the invariant says of the program                                  *)

(* The phase bit tells the host which entries are new: it reads an entry   *)
(* as new exactly when nvme_post_cqe wrote it and it was not reaped.       *)
THEOREM PhaseAlwaysTellsNew == Spec => []PhaseTellsNew
<1>1. IInv => PhaseTellsNew
  BY DEF IInv, QueuePair, PhaseOrder, PhaseTellsNew, Unreaped
<1> QED
  BY <1>1, Invariance, PTL

(* nvme_process_cq_cpl never overwrites an entry the host has not reaped,  *)
(* although it never asks whether the completion queue is full.            *)
THEOREM NeverOverwritesCqe == Spec => NoCqeOverwritten
<1>1. IInv /\ [Next]_vars
        => [\A q \in Queues : cq'[q] # cq[q] => Inc(cq[q].tail) # host[q].cq_head]_vars
  <2> SUFFICES ASSUME IInv, Next, NEW q \in Queues, cq'[q] # cq[q]
               PROVE  Inc(cq[q].tail) # host[q].cq_head
    OBVIOUS
  <2>1. PICK p \in Pollers : \E r \in pq[p] : Post(p, r)
    BY DEF Next, Submit, HostIsrStep, TakeIrq, Reap, PollerStep, UpdateTail, Fetch,
           FetchCrash, SqDone, Drain, Recycle, PostDone, Isr, FtlDequeue, FtlEnqueue,
           Abort, Tick
  <2>2. PICK r \in pq[p] : Post(p, r)
    BY <2>1
  <2>3. r[1] = q
    <3>1. cq' = [cq EXCEPT ![r[1]] = nvme_inc_cq_tail(@)]
      BY <2>2 DEF Post
    <3>2. cq \in [Queues -> [tail : Slots, phase : {0, 1}]]
      BY DEF IInv, TypeOK
    <3> QED
      BY <3>1, <3>2
  <2>4. r \in Flight(q) \ Posted
    BY <2>2, <2>3, PostFinds DEF Post
  <2> QED
    BY <2>4, CqHasRoom
<1> QED
  BY <1>1, Invariance, PTL DEF Spec, NoCqeOverwritten

(* A structure that is neither free nor set aside is with a command or     *)
(* lost to one.                                                            *)
LEMMA Elsewhere ==
  ASSUME IInv, NEW q \in Queues, NEW r \in Reqs, r[1] = q,
         r \notin Rng(req_list[q]), r \notin out_req_list[q]
  PROVE  r \in Flight(q) \/ r \in Lost(q)
<1>1. AtHome
  BY DEF IInv, Structures
<1>2. ASSUME NEW h \in Holders, r \in Held(h) PROVE h \in Flying
  <2>1. ASSUME NEW o \in Queues, h = <<"free", o>> \/ h = <<"out", o>> PROVE FALSE
    <3>1. r \in Rng(req_list[o]) \/ r \in out_req_list[o]
      BY <1>2, <2>1, HeldBy
    <3>2. o = q
      BY <1>1, <3>1 DEF AtHome
    <3> QED
      BY <3>1, <3>2
  <2>2. h \in Home => \E o \in Queues : h = <<"free", o>> \/ h = <<"out", o>>
    BY DEF Home
  <2> QED
    BY <2>1, <2>2 DEF Holders
<1> QED
  BY <1>2 DEF Flight, Lost

(* nvme_process_sq_io never finds the list of structures empty, so long as *)
(* no command is aborted: structures not free would carry different tags,  *)
(* and the host has one tag less than the queue has structures.            *)
THEOREM AlwaysARequest == Spec => []RequestAlwaysAvailable
<1>1. IInv => RequestAlwaysAvailable
  <2> SUFFICES ASSUME IInv, naborts = 0, NEW p \in Pollers, poller[p].pc = "fetch",
                      req_list[poller[p].q] = <<>>
               PROVE  FALSE
    BY DEF RequestAlwaysAvailable
  <2>1. TypeOK /\ Structures /\ conf \in Configs
    BY DEF IInv, TypeOK
  <2>2. PICK q \in Queues : q = poller[p].q
    BY <2>1, PollerFields DEF TypeOK
  <2>3. out_req_list[q] = {} /\ Rng(req_list[q]) = {}
    BY <2>1, <2>2 DEF Structures, NothingAborted, Rng
  <2>4. ASSUME NEW r \in Reqs, r[1] = q PROVE r \in Flight(q) \ Posted \/ r \in Lost(q)
    <3>1. r \in Flight(q) \/ r \in Lost(q)
      BY <2>3, <2>4, Elsewhere
    <3>2. r \notin Posted
      <4> SUFFICES ASSUME r \in Posted PROVE FALSE
        OBVIOUS
      <4>1. PICK o \in Pollers : poller[o].req = r /\ r \in Held(<<"pq", o>>)
        BY <2>1, PostedWaits
      <4>2. r \in pq[o] /\ r # NoReq
        BY <2>1, <4>1, HeldBy, ConfFacts
      <4>3. o = p
        <5>1. CASE multipoller_enabled
          BY <2>1, <2>2, <2>4, <4>2, <5>1, ServingNow
        <5>2. CASE ~multipoller_enabled
          BY <5>2 DEF Pollers
        <5> QED
          BY <5>1, <5>2
      <4> QED
        BY <2>1, <4>1, <4>2, <4>3 DEF Structures, PosterOK
    <3> QED
      BY <3>1, <3>2
  <2> DEFINE f == [s \in Slots |-> req[<<q, s>>].cid]
  <2>5. \A s \in Slots : <<q, s>> \in Reqs /\ <<q, s>>[1] = q
    BY DEF Reqs
  <2>6. f \in [Slots -> Cids]
    <3>1. ASSUME NEW s \in Slots PROVE req[<<q, s>>].cid \in Cids
      <4>1. req[<<q, s>>] \in Request
        BY <2>1, <2>5 DEF TypeOK
      <4> QED
        BY <4>1 DEF Request
    <3> QED
      BY <3>1
  <2>7. PICK s \in Slots, u \in Slots : s # u /\ f[s] = f[u]
    <3> HIDE DEF f
    <3> QED
      BY <2>1, <2>6, TooFewTags
  <2> DEFINE a == <<q, s>>
             b == <<q, u>>
  <2>8. a \in Reqs /\ b \in Reqs /\ a[1] = q /\ b[1] = q /\ a # b /\ req[a].cid = req[b].cid
    BY <2>5, <2>7
  <2> HIDE DEF f, a, b
  <2>9. OneStage(q) /\ LostOnce(q)
    BY DEF IInv, QueuePair
  <2>10. \A r \in Flight(q) \ Posted :
           <<"req", r>> \in Stages(q) /\ CidOf(q, <<"req", r>>) = req[r].cid
    BY DEF Stages, StageSet, CidOf
  <2>11. \A r \in Lost(q) : /\ <<"dropped", req[r].cid>> \in Stages(q)
                            /\ CidOf(q, <<"dropped", req[r].cid>>) = req[r].cid
    BY <2>9 DEF Stages, StageSet, CidOf, LostOnce
  <2>12. \A e, g \in Stages(q) : CidOf(q, e) = CidOf(q, g) => e = g
    BY <2>9 DEF OneStage
  <2>13. CASE a \in Flight(q) \ Posted /\ b \in Flight(q) \ Posted
    <3>1. <<"req", a>> = <<"req", b>>
      BY <2>8, <2>10, <2>12, <2>13
    <3> QED
      BY <2>8, <3>1
  <2>14. CASE a \in Lost(q) /\ b \in Lost(q)
    BY <2>8, <2>9, <2>14 DEF LostOnce
  <2>15. ASSUME NEW r \in Flight(q) \ Posted, NEW d \in Lost(q), req[r].cid = req[d].cid
         PROVE  FALSE
    <3> DEFINE e == <<"req", r>>
               g == <<"dropped", req[d].cid>>
    <3>1. e \in Stages(q) /\ CidOf(q, e) = req[r].cid
      BY <2>10
    <3>2. g \in Stages(q) /\ CidOf(q, g) = req[d].cid
      BY <2>11
    <3>3. e # g
      OBVIOUS
    <3> HIDE DEF e, g
    <3> QED
      BY <2>12, <2>15, <3>1, <3>2, <3>3
  <2> QED
    BY <2>4, <2>8, <2>13, <2>14, <2>15
<1> QED
  BY <1>1, Invariance, PTL

-----------------------------------------------------------------------------
(* Places, one by one                                                      *)

\* The places of request r with holder h.
PlacesIn(r, h) ==
  CASE h[1] = "free"      -> {<<"free", i>> : i \in At(req_list[h[2]], r)}
    [] h[1] = "out"       -> {<<"out">> : o \in {o \in {0} : r \in out_req_list[h[2]]}}
    [] h[1] = "to_ftl"    -> {<<"to_ftl", h[2], i>> : i \in At(to_ftl[h[2]], r)}
    [] h[1] = "to_poller" -> {<<"to_poller", h[2], i>> : i \in At(to_poller[h[2]], r)}
    [] h[1] = "pq"        -> {<<"pq", h[2]>> : o \in {o \in {0} : r \in pq[h[2]]}}
    [] OTHER              -> {<<"ftl">> : o \in {o \in {0} : ftl.req = r}}

(* The places of a request with each holder.                               *)
LEMMA PlacesBy ==
  ASSUME NEW r, NEW i
  PROVE  /\ \A x : x \in PlacesIn(r, <<"free", i>>)
                    <=> \E k \in At(req_list[i], r) : x = <<"free", k>>
         /\ \A x : x \in PlacesIn(r, <<"to_ftl", i>>)
                    <=> \E k \in At(to_ftl[i], r) : x = <<"to_ftl", i, k>>
         /\ \A x : x \in PlacesIn(r, <<"to_poller", i>>)
                    <=> \E k \in At(to_poller[i], r) : x = <<"to_poller", i, k>>
         /\ \A x : x \in PlacesIn(r, <<"out", i>>) <=> x = <<"out">> /\ r \in out_req_list[i]
         /\ \A x : x \in PlacesIn(r, <<"pq", i>>) <=> x = <<"pq", i>> /\ r \in pq[i]
         /\ \A x : x \in PlacesIn(r, <<"ftl", i>>) <=> x = <<"ftl">> /\ ftl.req = r
BY DEF PlacesIn

(* A list of distinct requests has a request at one index at most.         *)
LEMMA OneIndex ==
  ASSUME NEW s, NEW r, Distinct(s)
  PROVE  /\ \A i, j \in At(s, r) : i = j
         /\ (\E i : i \in At(s, r)) <=> r \in Rng(s)
BY DEF At, Distinct, Rng

(* A request is with a holder in one place at most, and in one if it is    *)
(* held there.                                                             *)
LEMMA OnePlaceIn ==
  ASSUME IInv, NEW r \in Reqs, NEW h \in Holders
  PROVE  /\ \A x, y \in PlacesIn(r, h) : x = y
         /\ (\E x : x \in PlacesIn(r, h)) <=> r \in Held(h)
<1>1. SequencesDistinct /\ r # NoReq
  BY ConfFacts DEF IInv, Structures, TypeOK
<1>2. ASSUME NEW q \in Queues, h = <<"free", q>>
      PROVE  /\ \A x, y \in PlacesIn(r, h) : x = y
             /\ (\E x : x \in PlacesIn(r, h)) <=> r \in Held(h)
  <2>1. /\ \A i, j \in At(req_list[q], r) : i = j
        /\ (\E i : i \in At(req_list[q], r)) <=> r \in Rng(req_list[q])
    BY <1>1, OneIndex DEF SequencesDistinct
  <2>2. \A x : x \in PlacesIn(r, h) <=> \E k \in At(req_list[q], r) : x = <<"free", k>>
    BY <1>2 DEF PlacesIn
  <2>3. Held(h) = Rng(req_list[q])
    BY <1>2, HeldBy
  <2>4. \A x, y \in PlacesIn(r, h) : x = y
    BY <2>1, <2>2, <2>3
  <2>5. (\E x : x \in PlacesIn(r, h)) <=> r \in Held(h)
    BY <2>1, <2>2, <2>3
  <2> QED
    BY <2>4, <2>5
<1>3. ASSUME NEW p \in Pollers, h = <<"to_ftl", p>>
      PROVE  /\ \A x, y \in PlacesIn(r, h) : x = y
             /\ (\E x : x \in PlacesIn(r, h)) <=> r \in Held(h)
  <2>1. /\ \A i, j \in At(to_ftl[p], r) : i = j
        /\ (\E i : i \in At(to_ftl[p], r)) <=> r \in Rng(to_ftl[p])
    BY <1>1, OneIndex DEF SequencesDistinct
  <2>2. \A x : x \in PlacesIn(r, h) <=> \E k \in At(to_ftl[p], r) : x = <<"to_ftl", p, k>>
    BY <1>3 DEF PlacesIn
  <2>3. Held(h) = Rng(to_ftl[p])
    BY <1>3, HeldBy
  <2>4. \A x, y \in PlacesIn(r, h) : x = y
    BY <2>1, <2>2, <2>3
  <2>5. (\E x : x \in PlacesIn(r, h)) <=> r \in Held(h)
    BY <2>1, <2>2, <2>3
  <2> QED
    BY <2>4, <2>5
<1>4. ASSUME NEW p \in Pollers, h = <<"to_poller", p>>
      PROVE  /\ \A x, y \in PlacesIn(r, h) : x = y
             /\ (\E x : x \in PlacesIn(r, h)) <=> r \in Held(h)
  <2>1. /\ \A i, j \in At(to_poller[p], r) : i = j
        /\ (\E i : i \in At(to_poller[p], r)) <=> r \in Rng(to_poller[p])
    BY <1>1, OneIndex DEF SequencesDistinct
  <2>2. \A x : x \in PlacesIn(r, h) <=> \E k \in At(to_poller[p], r) : x = <<"to_poller", p, k>>
    BY <1>4 DEF PlacesIn
  <2>3. Held(h) = Rng(to_poller[p])
    BY <1>4, HeldBy
  <2>4. \A x, y \in PlacesIn(r, h) : x = y
    BY <2>1, <2>2, <2>3
  <2>5. (\E x : x \in PlacesIn(r, h)) <=> r \in Held(h)
    BY <2>1, <2>2, <2>3
  <2> QED
    BY <2>4, <2>5
<1>5. ASSUME NEW q \in Queues, h = <<"out", q>>
      PROVE  /\ \A x, y \in PlacesIn(r, h) : x = y
             /\ (\E x : x \in PlacesIn(r, h)) <=> r \in Held(h)
  <2>1. \A x : x \in PlacesIn(r, h) <=> x = <<"out">> /\ r \in out_req_list[q]
    BY <1>5 DEF PlacesIn
  <2>2. Held(h) = out_req_list[q]
    BY <1>5, HeldBy
  <2>4. \A x, y \in PlacesIn(r, h) : x = y
    BY <2>1, <2>2
  <2>5. (\E x : x \in PlacesIn(r, h)) <=> r \in Held(h)
    BY <2>1, <2>2
  <2> QED
    BY <2>4, <2>5
<1>6. ASSUME NEW p \in Pollers, h = <<"pq", p>>
      PROVE  /\ \A x, y \in PlacesIn(r, h) : x = y
             /\ (\E x : x \in PlacesIn(r, h)) <=> r \in Held(h)
  <2>1. \A x : x \in PlacesIn(r, h) <=> x = <<"pq", p>> /\ r \in pq[p]
    BY <1>6 DEF PlacesIn
  <2>2. Held(h) = pq[p]
    BY <1>6, HeldBy
  <2>4. \A x, y \in PlacesIn(r, h) : x = y
    BY <2>1, <2>2
  <2>5. (\E x : x \in PlacesIn(r, h)) <=> r \in Held(h)
    BY <2>1, <2>2
  <2> QED
    BY <2>4, <2>5
<1>7. ASSUME h = <<"ftl", 0>>
      PROVE  /\ \A x, y \in PlacesIn(r, h) : x = y
             /\ (\E x : x \in PlacesIn(r, h)) <=> r \in Held(h)
  <2>1. \A x : x \in PlacesIn(r, h) <=> x = <<"ftl">> /\ ftl.req = r
    BY <1>7 DEF PlacesIn
  <2>2. Held(h) = {ftl.req} \ {NoReq}
    BY <1>7, HeldBy
  <2>4. \A x, y \in PlacesIn(r, h) : x = y
    BY <1>1, <2>1, <2>2
  <2>5. (\E x : x \in PlacesIn(r, h)) <=> r \in Held(h)
    BY <1>1, <2>1, <2>2
  <2> QED
    BY <2>4, <2>5
<1> QED
  BY <1>2, <1>3, <1>4, <1>5, <1>6, <1>7, HolderKinds

(* A request's places.                                                     *)
LEMMA PlaceKinds ==
  ASSUME NEW r, NEW x
  PROVE  x \in Places(r) <=>
           \/ \E i \in At(req_list[r[1]], r) : x = <<"free", i>>
           \/ \E p \in Pollers : \E i \in At(to_ftl[p], r) : x = <<"to_ftl", p, i>>
           \/ \E p \in Pollers : \E i \in At(to_poller[p], r) : x = <<"to_poller", p, i>>
           \/ \E p \in Pollers : x = <<"pq", p>> /\ r \in pq[p]
           \/ x = <<"ftl">> /\ ftl.req = r
           \/ x = <<"out">> /\ r \in out_req_list[r[1]]
BY DEF Places

(* A request's places are what its holders have of it.                     *)
LEMMA PlacesOfHolders ==
  ASSUME IInv, NEW r \in Reqs, NEW x
  PROVE  x \in Places(r) <=> \E h \in Holders : x \in PlacesIn(r, h)
<1>1. PICK q \in Queues : r[1] = q
  BY DEF Reqs
<1>2. ASSUME x \in Places(r) PROVE \E h \in Holders : x \in PlacesIn(r, h)
  <2>1. ASSUME NEW i \in At(req_list[q], r), x = <<"free", i>>
        PROVE  x \in PlacesIn(r, <<"free", q>>) /\ <<"free", q>> \in Holders
    BY <2>1, HolderKinds, PlacesBy
  <2>2. ASSUME NEW p \in Pollers, NEW i \in At(to_ftl[p], r), x = <<"to_ftl", p, i>>
        PROVE  x \in PlacesIn(r, <<"to_ftl", p>>) /\ <<"to_ftl", p>> \in Holders
    BY <2>2, HolderKinds, PlacesBy
  <2>3. ASSUME NEW p \in Pollers, NEW i \in At(to_poller[p], r), x = <<"to_poller", p, i>>
        PROVE  x \in PlacesIn(r, <<"to_poller", p>>) /\ <<"to_poller", p>> \in Holders
    BY <2>3, HolderKinds, PlacesBy
  <2>4. ASSUME NEW p \in Pollers, x = <<"pq", p>>, r \in pq[p]
        PROVE  x \in PlacesIn(r, <<"pq", p>>) /\ <<"pq", p>> \in Holders
    BY <2>4, HolderKinds, PlacesBy
  <2>5. ASSUME x = <<"ftl">>, ftl.req = r
        PROVE  x \in PlacesIn(r, <<"ftl", 0>>) /\ <<"ftl", 0>> \in Holders
    BY <2>5, HolderKinds, PlacesBy
  <2>6. ASSUME x = <<"out">>, r \in out_req_list[q]
        PROVE  x \in PlacesIn(r, <<"out", q>>) /\ <<"out", q>> \in Holders
    BY <2>6, HolderKinds, PlacesBy
  <2> QED
    <3>1. \/ \E i \in At(req_list[q], r) : x = <<"free", i>>
          \/ \E p \in Pollers : \E i \in At(to_ftl[p], r) : x = <<"to_ftl", p, i>>
          \/ \E p \in Pollers : \E i \in At(to_poller[p], r) : x = <<"to_poller", p, i>>
          \/ \E p \in Pollers : x = <<"pq", p>> /\ r \in pq[p]
          \/ x = <<"ftl">> /\ ftl.req = r
          \/ x = <<"out">> /\ r \in out_req_list[q]
      BY <1>1, <1>2, PlaceKinds
    <3> QED
      BY <2>1, <2>2, <2>3, <2>4, <2>5, <2>6, <3>1
<1>3. ASSUME NEW h \in Holders, x \in PlacesIn(r, h) PROVE x \in Places(r)
  <2>1. r \in Held(h)
    BY <1>3, OnePlaceIn
  <2>2. ASSUME NEW o \in Queues, h = <<"free", o>> \/ h = <<"out", o>> PROVE o = q
    <3>1. r \in Rng(req_list[o]) \/ r \in out_req_list[o]
      BY <2>1, <2>2, HeldBy
    <3> QED
      BY <1>1, <3>1 DEF IInv, Structures, AtHome
  <2>3. ASSUME h = <<"free", q>> PROVE x \in Places(r)
    <3>1. \E i \in At(req_list[q], r) : x = <<"free", i>>
      BY <1>3, <2>3 DEF PlacesIn
    <3> QED
      BY <1>1, <3>1, PlaceKinds
  <2>4. ASSUME h = <<"out", q>> PROVE x \in Places(r)
    <3>1. x = <<"out">> /\ r \in out_req_list[q]
      BY <1>3, <2>4 DEF PlacesIn
    <3> QED
      BY <1>1, <3>1, PlaceKinds
  <2>5. ASSUME NEW p \in Pollers, h = <<"to_ftl", p>> PROVE x \in Places(r)
    <3>1. \E i \in At(to_ftl[p], r) : x = <<"to_ftl", p, i>>
      BY <1>3, <2>5 DEF PlacesIn
    <3> QED
      BY <3>1, PlaceKinds
  <2>6. ASSUME NEW p \in Pollers, h = <<"to_poller", p>> PROVE x \in Places(r)
    <3>1. \E i \in At(to_poller[p], r) : x = <<"to_poller", p, i>>
      BY <1>3, <2>6 DEF PlacesIn
    <3> QED
      BY <3>1, PlaceKinds
  <2>7. ASSUME NEW p \in Pollers, h = <<"pq", p>> PROVE x \in Places(r)
    <3>1. x = <<"pq", p>> /\ r \in pq[p]
      BY <1>3, <2>7 DEF PlacesIn
    <3> QED
      BY <3>1, PlaceKinds
  <2>8. ASSUME h = <<"ftl", 0>> PROVE x \in Places(r)
    <3>1. x = <<"ftl">> /\ ftl.req = r
      BY <1>3, <2>8 DEF PlacesIn
    <3> QED
      BY <3>1, PlaceKinds
  <2> QED
    BY <2>2, <2>3, <2>4, <2>5, <2>6, <2>7, <2>8, HolderKinds
<1> QED
  BY <1>2, <1>3

(* A request has a place exactly if some holder has it.                    *)
LEMMA PlacedIfHeld ==
  ASSUME IInv, NEW r \in Reqs
  PROVE  /\ Places(r) = {} <=> \A h \in Holders : r \notin Held(h)
         /\ \A x, y \in Places(r) : x = y
<1>1. ASSUME NEW h \in Holders, r \in Held(h) PROVE Places(r) # {}
  <2>1. PICK x : x \in PlacesIn(r, h)
    BY <1>1, OnePlaceIn
  <2> QED
    BY <2>1, PlacesOfHolders
<1>2. ASSUME NEW x \in Places(r) PROVE \E h \in Holders : r \in Held(h)
  <2>1. PICK h \in Holders : x \in PlacesIn(r, h)
    BY PlacesOfHolders
  <2> QED
    BY <2>1, OnePlaceIn
<1>3. ASSUME NEW x \in Places(r), NEW y \in Places(r) PROVE x = y
  <2>1. PICK h \in Holders : x \in PlacesIn(r, h)
    BY PlacesOfHolders
  <2>2. PICK k \in Holders : y \in PlacesIn(r, k)
    BY PlacesOfHolders
  <2>3. r \in Held(h) /\ r \in Held(k)
    BY <2>1, <2>2, OnePlaceIn
  <2>4. h = k
    BY <2>3 DEF IInv, Structures, Separate
  <2> QED
    BY <2>1, <2>2, <2>4, OnePlaceIn
<1> QED
  BY <1>1, <1>2, <1>3

(* A set of one element at most.                                           *)
LEMMA AtMostOne ==
  ASSUME NEW S, \A x, y \in S : x = y
  PROVE  /\ Cardinality(S) <= 1
         /\ Cardinality(S) = IF S = {} THEN 0 ELSE 1
<1>1. CASE S = {}
  BY <1>1, FS_EmptySet
<1>2. CASE S # {}
  <2>1. PICK x : x \in S
    BY <1>2
  <2>2. S = {x}
    BY <2>1
  <2>3. Cardinality({x}) = 1
    BY FS_Singleton
  <2> QED
    BY <1>2, <2>2, <2>3
<1> QED
  BY <1>1, <1>2

(* Every structure of a queue is in one place only, and those that are     *)
(* nowhere are as many as the commands that nvme_io_cmd refused.           *)
THEOREM RequestsAlwaysConserved == Spec => []RequestsConserved
<1>1. IInv => RequestsConserved
  <2> SUFFICES ASSUME IInv PROVE RequestsConserved
    OBVIOUS
  <2>1. ASSUME NEW r \in Reqs PROVE Cardinality(Places(r)) <= 1
    BY PlacedIfHeld, AtMostOne
  <2>2. ASSUME NEW q \in Queues
        PROVE  Cardinality({r \in Reqs : r[1] = q /\ Places(r) = {}})
                 = Cardinality(dropped[q])
    <3>1. {r \in Reqs : r[1] = q /\ Places(r) = {}} = Lost(q)
      BY PlacedIfHeld DEF Lost
    <3>2. TypeOK /\ conf \in Configs /\ LostOnce(q) /\ dropped[q] \subseteq Cids
      BY DEF IInv, TypeOK, QueuePair
    <3>3. IsFiniteSet(dropped[q])
      <4>1. IsFiniteSet(Cids)
        BY <3>2, ConfFacts, FS_Interval DEF Cids
      <4> QED
        BY <3>2, <4>1, FS_Subset
    <3> DEFINE f == [r \in Lost(q) |-> req[r].cid]
    <3>4. /\ f \in [Lost(q) -> dropped[q]]
          /\ \A r, s \in Lost(q) : f[r] = f[s] => r = s
          /\ \A c \in dropped[q] : \E r \in Lost(q) : f[r] = c
      BY <3>2 DEF LostOnce
    <3>5. f \in Injection(Lost(q), dropped[q])
      <4> HIDE DEF f
      <4> QED
        BY <3>4 DEF Injection, IsInjective
    <3>6. f \in Surjection(Lost(q), dropped[q])
      <4> HIDE DEF f
      <4> QED
        BY <3>4 DEF Surjection
    <3> HIDE DEF f
    <3>7. Cardinality(Lost(q)) = Cardinality(dropped[q])
      BY <3>3, <3>5, <3>6, FS_Injection
    <3> QED
      BY <3>1, <3>7
  <2> QED
    BY <2>1, <2>2 DEF RequestsConserved
<1> QED
  BY <1>1, Invariance, PTL

(* The structures with a command, by their places and by their holders.    *)
LEMMA InFlightIsFlight ==
  ASSUME IInv, NEW q \in Queues
  PROVE  InFlight(q) = Flight(q)
<1>1. ASSUME NEW r \in Reqs, r[1] = q
      PROVE  /\ At(req_list[q], r) = {} <=> r \notin Held(<<"free", q>>)
             /\ r \in out_req_list[q] <=> r \in Held(<<"out", q>>)
  <2>1. Distinct(req_list[q])
    BY DEF IInv, Structures, SequencesDistinct
  <2>2. At(req_list[q], r) = {} <=> r \notin Rng(req_list[q])
    BY <2>1, OneIndex
  <2>3. Held(<<"free", q>>) = Rng(req_list[q]) /\ Held(<<"out", q>>) = out_req_list[q]
    BY HeldBy
  <2> QED
    BY <2>2, <2>3
<1>2. /\ <<"free", q>> \in Holders \ Flying /\ <<"out", q>> \in Holders \ Flying
      /\ Flying \subseteq Holders
  BY HolderKinds
<1>3. ASSUME NEW r \in InFlight(q) PROVE r \in Flight(q)
  <2>1. /\ r \in Reqs /\ r[1] = q /\ At(req_list[q], r) = {} /\ r \notin out_req_list[q]
        /\ Places(r) # {}
    BY <1>3 DEF InFlight
  <2>2. r \notin Lost(q)
    BY <2>1, PlacedIfHeld DEF Lost
  <2>3. r \notin Rng(req_list[q])
    BY <1>1, <2>1, HeldBy
  <2> QED
    BY <2>1, <2>2, <2>3, Elsewhere
<1>4. ASSUME NEW r \in Flight(q) PROVE r \in InFlight(q)
  <2>1. PICK h \in Flying : r \in Held(h)
    BY DEF Flight
  <2>2. r \in Reqs /\ r[1] = q
    BY DEF Flight
  <2>3. \A k \in Holders : r \in Held(k) => k = h
    BY <1>2, <2>1, <2>2 DEF IInv, Structures, Separate
  <2>4. Places(r) # {}
    BY <1>2, <2>1, <2>2, PlacedIfHeld
  <2>5. At(req_list[q], r) = {} /\ r \notin out_req_list[q]
    BY <1>1, <1>2, <2>1, <2>2, <2>3
  <2> QED
    BY <2>2, <2>4, <2>5 DEF InFlight
<1> QED
  BY <1>3, <1>4

(* A command of the host is in exactly one stage: none is fetched twice,   *)
(* completed twice, overwritten in a ring or lost on the way; a tag the    *)
(* host may use again is in none.                                          *)
THEOREM AlwaysExactlyOnce == Spec => []ExactlyOnce
<1>1. IInv => ExactlyOnce
  <2> SUFFICES ASSUME IInv PROVE ExactlyOnce
    OBVIOUS
  <2> SUFFICES ASSUME NEW q \in Queues, NEW c \in Cids
               PROVE  Cardinality({s \in Queued(q) : sqmem[q][s].cid = c})
                      + Cardinality({r \in Flight(q) \ Posted : req[r].cid = c})
                      + Cardinality({s \in Unreaped(q) : cqmem[q][s].cid = c})
                      + B(c \in dropped[q])
                        = B(c \in host[q].busy)
    <3>1. \A q \in Queues : InFlight(q) = Flight(q)
      BY InFlightIsFlight
    <3> QED
      BY <3>1 DEF ExactlyOnce, Queued, Unreaped
  <2> DEFINE A == {s \in Queued(q) : sqmem[q][s].cid = c}
             F == {r \in Flight(q) \ Posted : req[r].cid = c}
             U == {s \in Unreaped(q) : cqmem[q][s].cid = c}
  <2>1. /\ \A x \in A : <<"sq", x>> \in Stages(q) /\ CidOf(q, <<"sq", x>>) = c
        /\ \A x \in F : <<"req", x>> \in Stages(q) /\ CidOf(q, <<"req", x>>) = c
        /\ \A x \in U : <<"cq", x>> \in Stages(q) /\ CidOf(q, <<"cq", x>>) = c
        /\ c \in dropped[q] =>
             <<"dropped", c>> \in Stages(q) /\ CidOf(q, <<"dropped", c>>) = c
    BY DEF Stages, StageSet, CidOf
  <2>2. \A e, f \in Stages(q) : CidOf(q, e) = c /\ CidOf(q, f) = c => e = f
    BY DEF IInv, QueuePair, OneStage
  <2>3. c \in host[q].busy <=> \E e \in Stages(q) : CidOf(q, e) = c
    BY DEF IInv, QueuePair, OneStage
  <2>4. (\E e \in Stages(q) : CidOf(q, e) = c) => A # {} \/ F # {} \/ U # {} \/ c \in dropped[q]
    BY DEF Stages, StageSet, CidOf
  <2> HIDE DEF A, F, U
  <2>5. /\ \A x, y \in A : x = y
        /\ \A x, y \in F : x = y
        /\ \A x, y \in U : x = y
    <3>1. ASSUME NEW x \in A, NEW y \in A PROVE x = y
      <4>1. <<"sq", x>> = <<"sq", y>>
        BY <2>1, <2>2
      <4> QED
        BY <4>1
    <3>2. ASSUME NEW x \in F, NEW y \in F PROVE x = y
      <4>1. <<"req", x>> = <<"req", y>>
        BY <2>1, <2>2
      <4> QED
        BY <4>1
    <3>3. ASSUME NEW x \in U, NEW y \in U PROVE x = y
      <4>1. <<"cq", x>> = <<"cq", y>>
        BY <2>1, <2>2
      <4> QED
        BY <4>1
    <3> QED
      BY <3>1, <3>2, <3>3
  <2>6. /\ A # {} => F = {} /\ U = {} /\ c \notin dropped[q]
        /\ F # {} => A = {} /\ U = {} /\ c \notin dropped[q]
        /\ U # {} => A = {} /\ F = {} /\ c \notin dropped[q]
    <3>1. ASSUME NEW x \in A, NEW y \in F PROVE FALSE
      <4>1. <<"sq", x>> = <<"req", y>>
        BY <2>1, <2>2
      <4> QED
        BY <4>1
    <3>2. ASSUME NEW x \in A, NEW y \in U PROVE FALSE
      <4>1. <<"sq", x>> = <<"cq", y>>
        BY <2>1, <2>2
      <4> QED
        BY <4>1
    <3>3. ASSUME NEW x \in F, NEW y \in U PROVE FALSE
      <4>1. <<"req", x>> = <<"cq", y>>
        BY <2>1, <2>2
      <4> QED
        BY <4>1
    <3>4. ASSUME NEW x \in A, c \in dropped[q] PROVE FALSE
      <4>1. <<"sq", x>> = <<"dropped", c>>
        BY <2>1, <2>2, <3>4
      <4> QED
        BY <4>1
    <3>5. ASSUME NEW x \in F, c \in dropped[q] PROVE FALSE
      <4>1. <<"req", x>> = <<"dropped", c>>
        BY <2>1, <2>2, <3>5
      <4> QED
        BY <4>1
    <3>6. ASSUME NEW x \in U, c \in dropped[q] PROVE FALSE
      <4>1. <<"cq", x>> = <<"dropped", c>>
        BY <2>1, <2>2, <3>6
      <4> QED
        BY <4>1
    <3> QED
      BY <3>1, <3>2, <3>3, <3>4, <3>5, <3>6
  <2>7. /\ Cardinality(A) = IF A = {} THEN 0 ELSE 1
        /\ Cardinality(F) = IF F = {} THEN 0 ELSE 1
        /\ Cardinality(U) = IF U = {} THEN 0 ELSE 1
    BY <2>5, AtMostOne
  <2>8. c \in host[q].busy <=> A # {} \/ F # {} \/ U # {} \/ c \in dropped[q]
    <3>1. A # {} \/ F # {} \/ U # {} \/ c \in dropped[q]
            => \E e \in Stages(q) : CidOf(q, e) = c
      BY <2>1
    <3> QED
      BY <2>3, <2>4, <3>1
  <2>9. Cardinality(A) + Cardinality(F) + Cardinality(U) + B(c \in dropped[q])
          = B(c \in host[q].busy)
    BY <2>6, <2>7, <2>8 DEF B
  <2> QED
    BY <2>9 DEF A, F, U
<1> QED
  BY <1>1, Invariance, PTL

=============================================================================
