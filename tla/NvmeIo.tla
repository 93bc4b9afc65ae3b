------------------------------- MODULE NvmeIo -------------------------------
(***************************************************************************)
(* The I/O data path (femu/nvme-io.c): the host driver, the poller threads *)
(* and the FTL thread, which share the submission and completion queues,   *)
(* the pool of request structures of every submission queue, and the two   *)
(* rings of request pointers between a poller and the FTL.                 *)
(*                                                                         *)
(*   host --SQ--> poller --to_ftl--> FTL --to_poller--> poller --CQ--> host *)
(*                   \___(not BBSSD: to_ftl read by the poller)___/         *)
(*                                                                         *)
(* A request waits in the poller's priority queue until the emulated       *)
(* device would be done with it (expire_time). Queues are created and      *)
(* active throughout; creating and deleting them is the subject of         *)
(* QueueAdmin. What a command does to the media is reduced to whether its  *)
(* handler returned NVME_SUCCESS and to the latency it adds.               *)
(*                                                                         *)
(* Submission queue i completes on completion queue i (n->cq[sqid]) and    *)
(* both have `qsize' entries, as Linux creates them.                       *)
(***************************************************************************)
EXTENDS Integers, Sequences, FiniteSets

CONSTANTS
  Configs,      \* the devices: records with the fields below
  ring_size,    \* entries a ring can hold (65535 in the code)
  Lats,         \* latencies a request may be given
  Success       \* values of "the handler returned NVME_SUCCESS"

VARIABLE conf   \* the device of this behaviour; it never changes

num_io_queues       == conf.num_io_queues
qsize               == conf.qsize
BBSSD               == conf.BBSSD                \* requests pass through ftl_thread
multipoller_enabled == conf.multipoller_enabled  \* one poller per queue, or one in all
MaxCmds             == conf.MaxCmds              \* bound: commands the host submits
MaxAborts           == conf.MaxAborts            \* bound: abort commands

AllQueues == UNION {1 .. c.num_io_queues : c \in Configs}
AllCids   == UNION {0 .. c.qsize - 2 : c \in Configs}

Queues  == 1 .. num_io_queues
Pollers == IF multipoller_enabled THEN Queues ELSE {1}
Slots   == 0 .. qsize - 1
Cids    == 0 .. qsize - 2          \* the host's tags: at most qsize - 1
Reqs    == Queues \X Slots         \* sq->io_req[slot]

NoReq == <<0, 0>>

ASSUME SizeAssumption ==
  /\ \A c \in Configs :
       /\ c.num_io_queues \in Nat \ {0}
       /\ c.qsize \in Nat /\ c.qsize >= 2
       /\ ring_size >= c.num_io_queues * c.qsize
       /\ c.BBSSD \in BOOLEAN /\ c.multipoller_enabled \in BOOLEAN
       /\ c.MaxCmds \in Nat /\ c.MaxAborts \in Nat
  /\ ring_size \in Nat
  /\ Lats \subseteq Nat /\ Success \subseteq BOOLEAN

VARIABLES
  host,       \* driver's view of queue pair q, and its outstanding commands
  sqmem,      \* submission queue entries in host memory
  cqmem,      \* completion queue entries in host memory
  irq,        \* queues whose interrupt is pending at the host
  ncmds,      \* commands submitted so far (bounded by MaxCmds)
  naborts,    \* aborts so far (bounded by MaxAborts)
  dropped,    \* commands whose handler failed (a history variable)
  sq,         \* NvmeSQueue: head, tail
  cq,         \* NvmeCQueue: tail, phase
  req_list,   \* free request structures of a submission queue, FIFO
  out_req_list,  \* structures taken by aborts
  req,        \* NvmeRequest: cid, expire_time
  to_ftl, to_poller,   \* rings, one of each per poller
  ftl,        \* request ftl_thread is working on, and its poller
  pq,         \* requests of a poller waiting for their expire_time
  poller,     \* where a poller is: the queue it serves, the request it posted
  should_isr, \* queues to interrupt at the end of the completion pass
  now         \* QEMU_CLOCK_REALTIME

hostVars == <<host, sqmem, irq, ncmds>>
ringVars == <<to_ftl, to_poller>>
abortVars == <<naborts, out_req_list>>
stepVars == <<hostVars, abortVars, dropped, cqmem, sq, cq, req_list, req, ringVars,
              ftl, pq, poller, should_isr, now>>
vars == <<conf, stepVars>>

-----------------------------------------------------------------------------
(* Queue arithmetic *)

Inc(i) == (i + 1) % qsize

\* Slots of a ring from i up to (not including) j.
Between(i, j) == IF i <= j THEN i .. j - 1 ELSE (i .. qsize - 1) \cup (0 .. j - 1)

nvme_sq_empty(q) == sq[q].head = sq[q].tail

\* Mutant: the phase is not inverted on wraparound.
nvme_inc_cq_tail_SamePhase(c) ==
  IF c.tail + 1 >= qsize THEN [tail |-> 0, phase |-> c.phase]
                         ELSE [tail |-> c.tail + 1, phase |-> c.phase]

nvme_inc_cq_tail(c) ==
  IF c.tail + 1 >= qsize THEN [tail |-> 0, phase |-> 1 - c.phase]
                         ELSE [tail |-> c.tail + 1, phase |-> c.phase]

\* femu_ring_enqueue of one pointer; when the ring is full the caller logs
\* an error and the request is gone.
femu_ring_enqueue(ring, r) ==
  IF Len(ring) < ring_size THEN Append(ring, r) ELSE ring

\* A poller at the head of its loop.
PollerIdle(p) == [pc |-> "sq", q |-> p, req |-> NoReq, processed |-> FALSE]

Init ==
  /\ conf \in Configs
  /\ host = [q \in Queues |-> [tail |-> 0, sq_head |-> 0, cq_head |-> 0,
                               phase |-> 1, busy |-> {}, in_isr |-> FALSE]]
  /\ dropped = [q \in Queues |-> {}]
  /\ sqmem = [q \in Queues |-> [s \in Slots |-> [cid |-> 0, ok |-> TRUE]]]
  /\ cqmem = [q \in Queues |-> [s \in Slots |->
                [cid |-> 0, phase |-> 0, sq_head |-> 0]]]
  /\ irq = {} /\ ncmds = 0 /\ naborts = 0
  /\ sq = [q \in Queues |-> [head |-> 0, tail |-> 0]]
  /\ cq = [q \in Queues |-> [tail |-> 0, phase |-> 1]]
  /\ req_list = [q \in Queues |-> [i \in 1 .. qsize |-> <<q, i - 1>>]]
  /\ out_req_list = [q \in Queues |-> {}]
  /\ req = [r \in Reqs |-> [cid |-> 0, expire_time |-> 0]]
  /\ to_ftl = [p \in Pollers |-> <<>>]
  /\ to_poller = [p \in Pollers |-> <<>>]
  /\ ftl = [req |-> NoReq, from |-> 1]
  /\ pq = [p \in Pollers |-> {}]
  /\ poller = [p \in Pollers |-> PollerIdle(p)]
  /\ should_isr = {}
  /\ now = 0

-----------------------------------------------------------------------------
(* The host: a driver that keeps at most qsize - 1 commands outstanding,   *)
(* rings the shadow doorbell and reaps completions from its interrupt      *)
(* handler only.                                                           *)

Submit(q, c, ok) ==
  LET h == host[q] IN
  /\ ncmds < MaxCmds
  /\ c \notin h.busy
  /\ Inc(h.tail) # h.sq_head
  /\ sqmem' = [sqmem EXCEPT ![q][h.tail] = [cid |-> c, ok |-> ok]]
  /\ host' = [host EXCEPT ![q].tail = Inc(h.tail), ![q].busy = @ \cup {c}]
  /\ ncmds' = ncmds + 1
  /\ UNCHANGED <<abortVars, irq, dropped, cqmem, sq, cq, req_list, req, ringVars, ftl, pq, poller,
                 should_isr, now>>

TakeIrq(q) ==
  /\ q \in irq
  /\ irq' = irq \ {q}
  /\ host' = [host EXCEPT ![q].in_isr = TRUE]
  /\ UNCHANGED <<abortVars, sqmem, ncmds, dropped, cqmem, sq, cq, req_list, req, ringVars, ftl, pq,
                 poller, should_isr, now>>

NewCqe(q) == cqmem[q][host[q].cq_head].phase = host[q].phase

Reap(q) ==
  LET h == host[q]
      e == cqmem[q][h.cq_head]
  IN
  /\ h.in_isr
  /\ IF NewCqe(q)
     THEN host' = [host EXCEPT ![q] =
            [h EXCEPT !.busy = @ \ {e.cid}, !.sq_head = e.sq_head,
                      !.cq_head = Inc(@),
                      !.phase = IF h.cq_head + 1 = qsize THEN 1 - @ ELSE @]]
     ELSE host' = [host EXCEPT ![q].in_isr = FALSE]
  /\ UNCHANGED <<abortVars, sqmem, irq, ncmds, dropped, cqmem, sq, cq, req_list, req, ringVars, ftl,
                 pq, poller, should_isr, now>>

-----------------------------------------------------------------------------
(* nvme_poller: first the submission queues it serves ... *)

Goto(p, l) == poller' = [poller EXCEPT ![p].pc = l]

\* nvme_update_sq_tail reads the shadow doorbell once per visit.
UpdateTail(p) ==
  LET q == poller[p].q IN
  /\ poller[p].pc = "sq"
  /\ sq' = [sq EXCEPT ![q].tail = host[q].tail]
  /\ Goto(p, "fetch")
  /\ UNCHANGED <<abortVars, hostVars, dropped, cqmem, cq, req_list, req, ringVars, ftl, pq,
                 should_isr, now>>

\* Mutant: the head stays, so the command is fetched again.
nvme_inc_sq_head_Stuck(s) == s

nvme_inc_sq_head(s) == [s EXCEPT !.head = Inc(@)]

\* One iteration of the loop of nvme_process_sq_io. A request whose command
\* failed goes neither to the ring nor back to the free list.
Fetch(p) ==
  LET q == poller[p].q
      cmd == sqmem[q][sq[q].head]
      r == Head(req_list[q])
  IN
  /\ poller[p].pc = "fetch"
  /\ ~nvme_sq_empty(q)
  /\ req_list[q] # <<>>
  /\ sq' = [sq EXCEPT ![q] = nvme_inc_sq_head(@)]
  /\ req_list' = [req_list EXCEPT ![q] = Tail(@)]
  /\ \E lat \in IF BBSSD THEN {0} ELSE Lats :
       req' = [req EXCEPT ![r] = [cid |-> cmd.cid, expire_time |-> now + lat]]
  /\ IF cmd.ok
     THEN /\ to_ftl' = [to_ftl EXCEPT ![p] = femu_ring_enqueue(@, r)]
          /\ UNCHANGED dropped
     ELSE /\ dropped' = [dropped EXCEPT ![q] = @ \cup {cmd.cid}]
          /\ UNCHANGED to_ftl
  /\ UNCHANGED <<abortVars, hostVars, cqmem, cq, to_poller, ftl, pq, poller,
                 should_isr, now>>

Crashed == \E p \in Pollers : poller[p].pc = "crash"
Crash == poller' = [p \in Pollers |-> [poller[p] EXCEPT !.pc = "crash"]]

\* QTAILQ_FIRST of an empty list is NULL, and QTAILQ_REMOVE reads it.
FetchCrash(p) ==
  /\ poller[p].pc = "fetch"
  /\ ~nvme_sq_empty(poller[p].q)
  /\ req_list[poller[p].q] = <<>>
  /\ Crash
  /\ UNCHANGED <<abortVars, hostVars, dropped, cqmem, sq, cq, req_list, req, ringVars, ftl, pq,
                 should_isr, now>>

LastQueue(p) == multipoller_enabled \/ poller[p].q = num_io_queues

SqDone(p) ==
  /\ poller[p].pc = "fetch"
  /\ nvme_sq_empty(poller[p].q)
  /\ poller' = [poller EXCEPT ![p] =
       IF LastQueue(p) THEN [PollerIdle(p) EXCEPT !.pc = "drain"]
                       ELSE [PollerIdle(p) EXCEPT !.q = poller[p].q + 1]]
  /\ UNCHANGED <<abortVars, hostVars, dropped, cqmem, sq, cq, req_list, req, ringVars, ftl, pq,
                 should_isr, now>>

-----------------------------------------------------------------------------
(* ... then nvme_process_cq_cpl. *)

Drain(p) ==
  /\ poller[p].pc = "drain"
  /\ LET ring == IF BBSSD THEN to_poller[p] ELSE to_ftl[p] IN
     IF ring = <<>>
     THEN /\ Goto(p, "post")
          /\ UNCHANGED <<ringVars, pq>>
     ELSE /\ pq' = [pq EXCEPT ![p] = @ \cup {Head(ring)}]
          /\ IF BBSSD
             THEN /\ to_poller' = [to_poller EXCEPT ![p] = Tail(@)]
                  /\ UNCHANGED to_ftl
             ELSE /\ to_ftl' = [to_ftl EXCEPT ![p] = Tail(@)]
                  /\ UNCHANGED to_poller
          /\ UNCHANGED poller
  /\ UNCHANGED <<abortVars, hostVars, dropped, cqmem, sq, cq, req_list, req, ftl, should_isr, now>>

\* pqueue_peek: a request with the least expire_time.
Peek(p, r) ==
  /\ r \in pq[p]
  /\ \A s \in pq[p] : req[r].expire_time <= req[s].expire_time

\* nvme_post_cqe: from here on the host can see the completion.
Post(p, r) ==
  LET q == r[1] IN
  /\ poller[p].pc = "post"
  /\ Peek(p, r)
  /\ now >= req[r].expire_time
  /\ cqmem' = [cqmem EXCEPT ![q][cq[q].tail] =
       [cid |-> req[r].cid, phase |-> cq[q].phase, sq_head |-> sq[q].head]]
  /\ cq' = [cq EXCEPT ![q] = nvme_inc_cq_tail(@)]
  /\ poller' = [poller EXCEPT ![p].pc = "recycle", ![p].req = r]
  /\ UNCHANGED <<abortVars, hostVars, dropped, sq, req_list, req, ringVars, ftl, pq, should_isr, now>>

\* Mutant: pqueue_pop is missing.
Recycle_NoPop(p) ==
  LET r == poller[p].req IN
  /\ poller[p].pc = "recycle"
  /\ req_list' = [req_list EXCEPT ![r[1]] = Append(@, r)]
  /\ poller' = [poller EXCEPT ![p] =
       [PollerIdle(p) EXCEPT !.pc = "post", !.processed = TRUE]]
  /\ should_isr' = should_isr \cup {r[1]}
  /\ UNCHANGED <<abortVars, hostVars, dropped, cqmem, sq, cq, req, ringVars, ftl, pq, now>>

\* Mutant: the structure is not given back.
Recycle_Leak(p) ==
  LET r == poller[p].req IN
  /\ poller[p].pc = "recycle"
  /\ pq' = [pq EXCEPT ![p] = @ \ {r}]
  /\ poller' = [poller EXCEPT ![p] =
       [PollerIdle(p) EXCEPT !.pc = "post", !.processed = TRUE]]
  /\ should_isr' = should_isr \cup {r[1]}
  /\ UNCHANGED <<abortVars, hostVars, dropped, cqmem, sq, cq, req_list, req,
                 ringVars, ftl, now>>

\* The rest of the iteration: the structure is free again, the head of the
\* priority queue (still the request posted) is popped.
Recycle(p) ==
  LET r == poller[p].req IN
  /\ poller[p].pc = "recycle"
  /\ req_list' = [req_list EXCEPT ![r[1]] = Append(@, r)]
  /\ pq' = [pq EXCEPT ![p] = @ \ {r}]
  /\ poller' = [poller EXCEPT ![p] =
       [PollerIdle(p) EXCEPT !.pc = "post", !.processed = TRUE]]
  /\ should_isr' = should_isr \cup {r[1]}
  /\ UNCHANGED <<abortVars, hostVars, dropped, cqmem, sq, cq, req, ringVars, ftl, now>>

PostDone(p) ==
  /\ poller[p].pc = "post"
  /\ \A r \in pq[p] : now < req[r].expire_time
  /\ Goto(p, IF poller[p].processed THEN "isr" ELSE "sq")
  /\ UNCHANGED <<abortVars, hostVars, dropped, cqmem, sq, cq, req_list, req, ringVars, ftl, pq,
                 should_isr, now>>

\* Mutant: every flag is cleared after the first interrupt.
Isr_FirstOnly(p) ==
  /\ poller[p].pc = "isr"
  /\ IF multipoller_enabled
     THEN irq' = irq \cup {p} /\ UNCHANGED should_isr
     ELSE /\ irq' = irq \cup {CHOOSE q \in should_isr :
                                \A t \in should_isr : q <= t}
          /\ should_isr' = {}
  /\ poller' = [poller EXCEPT ![p] = PollerIdle(p)]
  /\ UNCHANGED <<abortVars, host, sqmem, ncmds, dropped, cqmem, sq, cq, req_list, req, ringVars, ftl,
                 pq, now>>

\* nvme_isr_notify_io, once for every queue that got completions. A poller of
\* its own queue leaves should_isr alone.
Isr(p) ==
  /\ poller[p].pc = "isr"
  /\ IF multipoller_enabled
     THEN irq' = irq \cup {p} /\ UNCHANGED should_isr
     ELSE irq' = irq \cup should_isr /\ should_isr' = {}
  /\ poller' = [poller EXCEPT ![p] = PollerIdle(p)]
  /\ UNCHANGED <<abortVars, host, sqmem, ncmds, dropped, cqmem, sq, cq, req_list, req, ringVars, ftl,
                 pq, now>>

-----------------------------------------------------------------------------
(* ftl_thread, as the data path sees it: one request at a time, from any   *)
(* poller's ring and back to the same poller.                              *)

FtlDequeue(p) ==
  /\ BBSSD /\ ~Crashed
  /\ ftl.req = NoReq
  /\ to_ftl[p] # <<>>
  /\ ftl' = [req |-> Head(to_ftl[p]), from |-> p]
  /\ to_ftl' = [to_ftl EXCEPT ![p] = Tail(@)]
  /\ UNCHANGED <<abortVars, hostVars, dropped, cqmem, sq, cq, req_list, req, to_poller, pq, poller,
                 should_isr, now>>

FtlEnqueue ==
  /\ ~Crashed
  /\ ftl.req # NoReq
  /\ \E lat \in Lats : req' = [req EXCEPT ![ftl.req].expire_time = @ + lat]
  /\ to_poller' = [to_poller EXCEPT ![ftl.from] = femu_ring_enqueue(@, ftl.req)]
  /\ ftl' = [req |-> NoReq, from |-> 1]
  /\ UNCHANGED <<abortVars, hostVars, dropped, cqmem, sq, cq, req_list, to_ftl, pq, poller,
                 should_isr, now>>

-----------------------------------------------------------------------------
(* nvme_abort_req, in the thread that serves the admin queue: a command    *)
(* among the entries the poller knows of but has not fetched is given the  *)
(* opcode NVME_OP_ABORTED, which nvme_io_cmd will reject, and a request    *)
(* structure is set aside for a completion nothing ever posts. Any other   *)
(* command is left alone. The race between the two threads on the links of *)
(* req_list is not modelled.                                               *)

Abort(q, s) ==
  /\ ~Crashed
  /\ naborts < MaxAborts
  /\ s \in Between(sq[q].head, sq[q].tail)
  /\ naborts' = naborts + 1
  /\ IF req_list[q] = <<>>
     THEN Crash /\ UNCHANGED <<req_list, out_req_list, sqmem>>
     ELSE /\ req_list' = [req_list EXCEPT ![q] = Tail(@)]
          /\ out_req_list' = [out_req_list EXCEPT ![q] = @ \cup {Head(req_list[q])}]
          /\ sqmem' = [sqmem EXCEPT ![q][s].ok = FALSE]
          /\ UNCHANGED poller
  /\ UNCHANGED <<host, irq, ncmds, dropped, cqmem, sq, cq, req, ringVars, ftl, pq,
                 should_isr, now>>

\* Time matters only while some request waits for it.
Tick ==
  /\ \E p \in Pollers : \E r \in pq[p] : now < req[r].expire_time
  /\ now' = now + 1
  /\ UNCHANGED <<abortVars, hostVars, dropped, cqmem, sq, cq, req_list, req, ringVars, ftl, pq,
                 poller, should_isr>>

-----------------------------------------------------------------------------

PollerStep(p) ==
  \/ UpdateTail(p) \/ Fetch(p) \/ FetchCrash(p) \/ SqDone(p)
  \/ Drain(p) \/ Recycle(p) \/ PostDone(p) \/ Isr(p)
  \/ \E r \in pq[p] : Post(p, r)

HostIsrStep(q) == TakeIrq(q) \/ Reap(q)

Next ==
  /\ \/ \E q \in Queues, c \in Cids, ok \in Success : Submit(q, c, ok)
     \/ \E q \in Queues : HostIsrStep(q)
     \/ \E p \in Pollers : PollerStep(p) \/ FtlDequeue(p)
     \/ FtlEnqueue
     \/ \E q \in Queues, s \in Slots : Abort(q, s)
     \/ Tick
  /\ UNCHANGED conf

\* Pollers and the FTL thread are busy loops that the operating system keeps
\* scheduling; the FTL scans the rings in turn; a guest services its
\* interrupts; time passes. Nothing makes the host submit.
Fairness ==
  /\ \A p \in AllQueues : /\ WF_stepVars(p \in Pollers /\ PollerStep(p))
                          /\ SF_stepVars(p \in Pollers /\ FtlDequeue(p))
  /\ WF_stepVars(FtlEnqueue)
  /\ \A q \in AllQueues : WF_stepVars(q \in Queues /\ HostIsrStep(q))
  /\ WF_stepVars(Tick)

Spec == Init /\ [][Next]_vars /\ Fairness

-----------------------------------------------------------------------------
(* Correctness *)

B(b) == IF b THEN 1 ELSE 0

At(s, r) == {i \in DOMAIN s : s[i] = r}

\* The places a request structure is in.
Places(r) ==
  {<<"free", i>> : i \in At(req_list[r[1]], r)}
  \cup (UNION {{<<"to_ftl", p, i>> : i \in At(to_ftl[p], r)} : p \in Pollers})
  \cup (UNION {{<<"to_poller", p, i>> : i \in At(to_poller[p], r)} : p \in Pollers})
  \cup {<<"pq", p>> : p \in {p \in Pollers : r \in pq[p]}}
  \cup (IF ftl.req = r THEN {<<"ftl">>} ELSE {})
  \cup (IF r \in out_req_list[r[1]] THEN {<<"out">>} ELSE {})

\* Structures of queue q that are with a command.
InFlight(q) == {r \in Reqs : r[1] = q /\ At(req_list[q], r) = {}
                             /\ r \notin out_req_list[q] /\ Places(r) # {}}

(* Every request structure is in exactly one place: free in its queue's    *)
(* list, in one ring, with the FTL, waiting for its time in one poller's   *)
(* queue, or set aside by an abort. Only commands that failed keep a       *)
(* structure for good, one each.                                           *)
RequestsConserved ==
  /\ \A r \in Reqs : Cardinality(Places(r)) <= 1
  /\ \A q \in Queues :
       Cardinality({r \in Reqs : r[1] = q /\ Places(r) = {}})
         = Cardinality(dropped[q])

(* As long as nothing is aborted, nvme_process_sq_io never finds the list  *)
(* of request structures empty: the host's tags run out first, even when   *)
(* commands that failed keep both their structure and their tag.           *)
RequestAlwaysAvailable ==
  naborts = 0 =>
    \A p \in Pollers :
      poller[p].pc = "fetch" /\ ~nvme_sq_empty(poller[p].q) =>
        req_list[poller[p].q] # <<>>

\* The request whose completion is posted but which is still in the queue.
Posted == {poller[p].req : p \in Pollers}

(* Each outstanding command is in exactly one stage: a submission entry    *)
(* not fetched yet, a request in flight, a completion the host has not     *)
(* reaped, or (the code's treatment of an error) dropped. No command is    *)
(* executed twice, completed twice, overwritten in either ring or          *)
(* completed with another's identifier.                                    *)
ExactlyOnce ==
  \A q \in Queues :
    LET h == host[q]
        queued == Between(sq[q].head, h.tail)
        unreaped == Between(h.cq_head, cq[q].tail)
        stage(c) ==
          Cardinality({s \in queued : sqmem[q][s].cid = c})
          + Cardinality({r \in InFlight(q) \ Posted : req[r].cid = c})
          + Cardinality({s \in unreaped : cqmem[q][s].cid = c})
          + B(c \in dropped[q])
    IN \A c \in Cids : stage(c) = B(c \in h.busy)

(* The phase bit tells the host exactly which entries are new: those       *)
(* between its head and the controller's tail, and no other.               *)
PhaseTellsNew ==
  \A q \in Queues, s \in Slots :
    (cqmem[q][s].phase =
       IF s >= host[q].cq_head THEN host[q].phase ELSE 1 - host[q].phase)
    <=> s \in Between(host[q].cq_head, cq[q].tail)

(* Although nvme_process_cq_cpl never asks whether the completion queue is *)
(* full, it never overwrites an entry the host has not reaped.             *)
NoCqeOverwritten ==
  [][\A q \in Queues : cq'[q] # cq[q] =>
       Inc(cq[q].tail) # host[q].cq_head]_vars

\* Command c of queue q is outstanding.
Outstanding(q, c) == q \in Queues /\ c \in host[q].busy

(* A command whose handler succeeded is completed and the host, which      *)
(* looks only when interrupted, gets to know of it; the poller may instead *)
(* run out of request structures, which takes an abort.                    *)
CommandsComplete ==
  \A q \in AllQueues, c \in AllCids :
    Outstanding(q, c) ~> \/ ~Outstanding(q, c)
                         \/ c \in dropped[q]
                         \/ naborts > 0 /\ Crashed

=============================================================================
