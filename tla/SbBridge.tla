------------------------------ MODULE SbBridge ------------------------------
(***************************************************************************)
(* The bridge between the device model and the simulated host              *)
(* (qemu-compat/wrapper-main.c, wrapper-qemu.c): two arrays of slots, each *)
(* with a ready flag, joined by busy-waiting threads.                      *)
(*                                                                         *)
(*   host --h2d--> simbricks_thread --sb2q--> main thread (register        *)
(*                                             handlers, event notifiers)  *)
(*   host <--d2h-- simbricks_thread <--q2sb-- main thread and pollers      *)
(*                                                                         *)
(* A DMA is a call: its dma_op lives on the caller's stack and the caller  *)
(* spins until the SimBricks thread has set op.ready. Interrupts and read  *)
(* completions are only posted. A poller that has a completion for the     *)
(* host sets an event notifier, which the main thread turns into MSI-X.    *)
(*                                                                         *)
(* The device behind the bridge is reduced to one register, a doorbell     *)
(* whose handler fetches a command and posts its completion, and pollers   *)
(* that do the same on their own.                                          *)
(***************************************************************************)
EXTENDS Integers, Sequences

CONSTANTS
  NPollers,
  SB2Q_SZ, Q2SB_SZ,   \* slots of the two arrays (128 in the code)
  D2H_SZ,             \* messages the channel to the host holds
  Burst,              \* MMIO accesses the host has under way at most
  MaxMmio,            \* bound: MMIO accesses of the host in a behaviour
  MaxRounds           \* bound: commands a poller serves

Pollers == 1 .. NPollers
Main    == 0
Threads == {Main} \cup Pollers

\* While a poller that has got a slot has not filled it yet, all others may get
\* one for a DMA, every event may be turned into an interrupt twice (those of
\* the poller itself once, but the main thread may be about to raise one more),
\* and the main thread may post a read completion and start a DMA: 3 NPollers
\* + 1 slots behind the first. With fewer, two threads would hold the same one.
ASSUME BridgeAssumption ==
  /\ NPollers \in Nat /\ Q2SB_SZ \in Nat /\ D2H_SZ \in Nat \ {0}
  /\ Burst \in Nat \ {0} /\ SB2Q_SZ \in Nat \ {0}
  /\ Q2SB_SZ >= 3 * NPollers + 2
  /\ MaxMmio \in Nat /\ MaxRounds \in Nat

VARIABLES
  h2d, d2h,                      \* the SimBricks channel
  sb2q, sb2q_tail, sb2q_head,    \* struct sb2qemu
  q2sb, q2sb_tail, q2sb_head,    \* struct qemu2sb
  sb,                            \* where simbricks_thread is in its loop
  main, scan,                    \* where the main loop is; next notifier
  thr,                           \* calls a thread has still to make
  op_ready,                      \* op.ready of a thread's DMA
  reg,                           \* the device's register
  event_set,                     \* a poller's EventNotifier
  notified,                      \* ghost: completions a thread announced
  host,                          \* what the host has asked and been told
  nmmio, nrounds                 \* counts held against the bounds

chanVars == <<h2d, d2h>>
sb2qVars == <<sb2q, sb2q_tail, sb2q_head>>
q2sbVars == <<q2sb, q2sb_tail, q2sb_head>>
mainVars == <<main, scan, reg>>
hostVars == <<host, nmmio>>
vars == <<chanVars, sb2qVars, q2sbVars, sb, mainVars, thr, op_ready, event_set,
          notified, hostVars, nrounds>>

Free    == [ready |-> FALSE]
Full(m) == [ready |-> TRUE, msg |-> m]

\* Messages to the host and calls that post them: `of' is the thread (or the
\* interrupt vector, which is its poller's), `val' the register's value, or
\* the completions announced.
Msg(type, of, val) == [type |-> type, of |-> of, val |-> val]
Call(type, of)     == [type |-> type, of |-> of]

Init ==
  /\ h2d = <<>> /\ d2h = <<>>
  /\ sb2q = [i \in 0 .. SB2Q_SZ - 1 |-> Free] /\ sb2q_tail = 0 /\ sb2q_head = 0
  /\ q2sb = [i \in 0 .. Q2SB_SZ - 1 |-> Free] /\ q2sb_tail = 0 /\ q2sb_head = 0
  /\ sb = "poll"
  /\ main = "msg" /\ scan = 1 /\ reg = 0
  /\ thr = [t \in Threads |-> [todo |-> <<>>, pc |-> "call", slot |-> 0]]
  /\ op_ready = [t \in Threads |-> FALSE]
  /\ event_set = [p \in Pollers |-> FALSE]
  /\ notified = [t \in Threads |-> 0]
  /\ host = [written |-> 0, reading |-> FALSE, seen |-> 0,
             arrived |-> [t \in Threads |-> 0], told |-> [t \in Threads |-> 0]]
  /\ nmmio = 0 /\ nrounds = [p \in Pollers |-> 0]

-----------------------------------------------------------------------------
(* The host (external) *)

\* MMIO accesses the host has posted and the main thread not finished.
UnderWay ==
  Len(SelectSeq(h2d, LAMBDA m : m.type # "READCOMP"))
  + Len(SelectSeq([i \in 1 .. SB2Q_SZ |-> sb2q[i - 1]], LAMBDA s : s.ready))

HostMmio(type) ==
  /\ nmmio < MaxMmio
  /\ UnderWay < Burst
  /\ type = "READ" => ~host.reading
  /\ nmmio' = nmmio + 1
  /\ host' = CASE type = "READ"  -> [host EXCEPT !.reading = TRUE, !.seen = host.written]
               [] type = "WRITE" -> [host EXCEPT !.written = @ + 1]
               [] OTHER          -> host
  /\ h2d' = Append(h2d, Msg(type, Main, host'.written))
  /\ UNCHANGED <<d2h, sb2qVars, q2sbVars, sb, mainVars, thr, op_ready,
                 event_set, notified, nrounds>>

\* The host takes a message: it answers a DMA read, stores the data of a DMA
\* write, and notes interrupts and read completions.
HostTake ==
  LET m == Head(d2h) IN
  /\ d2h # <<>>
  /\ d2h' = Tail(d2h)
  /\ h2d' = IF m.type = "DMA_READ" THEN Append(h2d, Msg("READCOMP", m.of, 0)) ELSE h2d
  /\ host' = CASE m.type = "DMA_WRITE"      -> [host EXCEPT !.arrived[m.of] = @ + 1]
               [] m.type = "INT"            -> [host EXCEPT !.told[m.of] = m.val]
               [] m.type = "MMIO_READ_COMP" -> [host EXCEPT !.reading = FALSE]
               [] OTHER                     -> host
  /\ UNCHANGED <<sb2qVars, q2sbVars, sb, mainVars, thr, op_ready, event_set,
                 notified, nmmio, nrounds>>

-----------------------------------------------------------------------------
(* simbricks_thread *)

Inc(i, size) == (i + 1) % size

Room == Len(d2h) < D2H_SZ        \* SimbricksPcieIfD2HOutAlloc succeeds

\* A message from the host: a DMA read completion goes to the dma_op its
\* req_id points to; a register access is for the main thread, a write being
\* acknowledged first.
SbPoll ==
  /\ sb = "poll" /\ h2d # <<>>
  /\ LET m == Head(h2d) IN
     \/ /\ m.type = "READCOMP"
        /\ op_ready' = [op_ready EXCEPT ![m.of] = TRUE]
        /\ h2d' = Tail(h2d) /\ sb' = "fwd"
        /\ UNCHANGED d2h
     \/ /\ m.type = "READ"
        /\ sb' = "post" /\ UNCHANGED <<chanVars, op_ready>>
     \/ /\ m.type \in {"WRITE", "DOORBELL"}
        /\ Room
        /\ d2h' = Append(d2h, Msg("WRITECOMP", Main, 0))
        /\ sb' = "post" /\ UNCHANGED <<h2d, op_ready>>
  /\ UNCHANGED <<sb2qVars, q2sbVars, mainVars, thr, event_set, notified,
                 hostVars, nrounds>>

\* Mutant: the slot may still be in use.
mmio_post_NoWait ==
  /\ sb = "post"
  /\ sb2q' = [sb2q EXCEPT ![sb2q_tail] = Full(Head(h2d))]
  /\ sb2q_tail' = Inc(sb2q_tail, SB2Q_SZ)
  /\ h2d' = Tail(h2d) /\ sb' = "fwd"
  /\ UNCHANGED <<d2h, sb2q_head, q2sbVars, mainVars, thr, op_ready, event_set,
                 notified, hostVars, nrounds>>

\* The end of mmio_read and mmio_write: the slot must be free.
mmio_post ==
  /\ sb = "post"
  /\ ~sb2q[sb2q_tail].ready
  /\ sb2q' = [sb2q EXCEPT ![sb2q_tail] = Full(Head(h2d))]
  /\ sb2q_tail' = Inc(sb2q_tail, SB2Q_SZ)
  /\ h2d' = Tail(h2d) /\ sb' = "fwd"
  /\ UNCHANGED <<d2h, sb2q_head, q2sbVars, mainVars, thr, op_ready, event_set,
                 notified, hostVars, nrounds>>

Forwarded == q2sb[q2sb_head].msg

\* The device's turn of the loop; with nothing from the host it comes at
\* once, with nothing from the device it is over.
DeviceTurn == sb = "fwd" \/ (sb = "poll" /\ h2d = <<>>)

\* Mutant: the caller is released before its data is copied.
SbForward_ReadyFirst ==
  /\ DeviceTurn /\ q2sb[q2sb_head].ready
  /\ Room
  /\ IF Forwarded.type = "DMA_WRITE"
     THEN sb' = "copy" /\ op_ready' = [op_ready EXCEPT ![Forwarded.of] = TRUE]
     ELSE sb' = "send" /\ UNCHANGED op_ready
  /\ UNCHANGED <<chanVars, sb2qVars, q2sbVars, mainVars, thr, event_set,
                 notified, hostVars, nrounds>>

\* A message from the device waits for room; what a DMA transfers is copied
\* from, or its address read from, the caller's dma_op.
SbForward ==
  /\ DeviceTurn /\ q2sb[q2sb_head].ready
  /\ Room
  /\ sb' = IF Forwarded.type = "DMA_WRITE" THEN "copy" ELSE "send"
  /\ UNCHANGED <<chanVars, sb2qVars, q2sbVars, mainVars, thr, op_ready,
                 event_set, notified, hostVars, nrounds>>

SbNothing ==
  /\ sb = "fwd" /\ ~q2sb[q2sb_head].ready
  /\ sb' = "poll"
  /\ UNCHANGED <<chanVars, sb2qVars, q2sbVars, mainVars, thr, op_ready,
                 event_set, notified, hostVars, nrounds>>

\* op->ready = true of a DMA write, whose data has been copied.
SbCopied ==
  /\ sb = "copy"
  /\ op_ready' = [op_ready EXCEPT ![Forwarded.of] = TRUE]
  /\ sb' = "send"
  /\ UNCHANGED <<chanVars, sb2qVars, q2sbVars, mainVars, thr, event_set,
                 notified, hostVars, nrounds>>

SbSend ==
  /\ sb = "send"
  /\ d2h' = Append(d2h, Forwarded)
  /\ q2sb' = [q2sb EXCEPT ![q2sb_head] = Free]
  /\ q2sb_head' = Inc(q2sb_head, Q2SB_SZ)
  /\ sb' = "poll"
  /\ UNCHANGED <<h2d, sb2qVars, q2sb_tail, mainVars, thr, op_ready, event_set,
                 notified, hostVars, nrounds>>

-----------------------------------------------------------------------------
(* Calls of a thread: pci_dma_read, pci_dma_write, msix_notify, the         *)
(* completion of mmio_read, and event_notifier_set. All but the last post a *)
(* message into a slot they get from sb_op_alloc.                           *)

Dma == {"DMA_READ", "DMA_WRITE"}

Now(t) == Head(thr[t].todo)

\* Thread t is about to make, or in the middle of, a call.
At(t, pc) == thr[t].todo # <<>> /\ thr[t].pc = pc

Return(t) == thr' = [thr EXCEPT ![t].todo = Tail(@), ![t].pc = "call"]

\* Mutant: without the lock two threads may read the same tail.
sb_op_alloc_Unlocked(t) ==
  /\ At(t, "call") /\ Now(t).type # "NOTIFY"
  /\ thr' = [thr EXCEPT ![t].slot = q2sb_tail, ![t].pc = "fill"]
  /\ q2sb_tail' \in {q2sb_tail, Inc(q2sb_tail, Q2SB_SZ)}
  /\ UNCHANGED <<chanVars, sb2qVars, q2sb, q2sb_head, sb, mainVars, op_ready,
                 event_set, notified, hostVars, nrounds>>

sb_op_alloc(t) ==
  /\ At(t, "call") /\ Now(t).type # "NOTIFY"
  /\ thr' = [thr EXCEPT ![t].slot = q2sb_tail, ![t].pc = "fill"]
  /\ q2sb_tail' = Inc(q2sb_tail, Q2SB_SZ)
  /\ UNCHANGED <<chanVars, sb2qVars, q2sb, q2sb_head, sb, mainVars, op_ready,
                 event_set, notified, hostVars, nrounds>>

\* Once the slot is free the message is written and the slot made ready. For
\* an interrupt of its own the main thread announces what its handler did.
Fill(t) ==
  LET c == Now(t)
      own == c.type = "INT" /\ c.of = Main
      told == IF own THEN [notified EXCEPT ![Main] = @ + 1] ELSE notified
      val == CASE c.type = "MMIO_READ_COMP" -> reg
               [] c.type = "INT"            -> told[c.of]
               [] OTHER                     -> 0
  IN
  /\ At(t, "fill")
  /\ ~q2sb[thr[t].slot].ready
  /\ q2sb' = [q2sb EXCEPT ![thr[t].slot] = Full(Msg(c.type, c.of, val))]
  /\ notified' = told
  /\ IF c.type \in Dma
     THEN /\ thr' = [thr EXCEPT ![t].pc = "wait"]
          /\ op_ready' = [op_ready EXCEPT ![t] = FALSE]
     ELSE Return(t) /\ UNCHANGED op_ready
  /\ UNCHANGED <<chanVars, sb2qVars, q2sb_tail, q2sb_head, sb, mainVars,
                 event_set, hostVars, nrounds>>

\* while (!op.ready);
DmaReturn(t) ==
  /\ At(t, "wait")
  /\ op_ready[t]
  /\ Return(t)
  /\ UNCHANGED <<chanVars, sb2qVars, q2sbVars, sb, mainVars, op_ready,
                 event_set, notified, hostVars, nrounds>>

event_notifier_set(p) ==
  /\ At(p, "call") /\ Now(p).type = "NOTIFY"
  /\ event_set' = [event_set EXCEPT ![p] = TRUE]
  /\ notified' = [notified EXCEPT ![p] = @ + 1]
  /\ Return(p)
  /\ UNCHANGED <<chanVars, sb2qVars, q2sbVars, sb, mainVars, op_ready,
                 hostVars, nrounds>>

ThreadStep(t) ==
  \/ sb_op_alloc(t) \/ Fill(t) \/ DmaReturn(t)
  \/ t \in Pollers /\ event_notifier_set(t)

-----------------------------------------------------------------------------
(* qemu_main_thread *)

MainIdle(pc) == main = pc /\ thr[Main].todo = <<>>

\* What the handler of a register access does; a doorbell write fetches a
\* command, posts its completion and interrupts.
Handler(type) ==
  CASE type = "READ"     -> <<Call("MMIO_READ_COMP", Main)>>
    [] type = "WRITE"    -> <<>>
    [] type = "DOORBELL" -> <<Call("DMA_READ", Main), Call("DMA_WRITE", Main),
                              Call("INT", Main)>>

MainTake ==
  LET m == sb2q[sb2q_head].msg IN
  /\ MainIdle("msg")
  /\ sb2q[sb2q_head].ready
  /\ thr' = [thr EXCEPT ![Main].todo = Handler(m.type)]
  /\ reg' = IF m.type = "WRITE" THEN m.val ELSE reg
  /\ main' = "busy"
  /\ UNCHANGED <<chanVars, sb2qVars, q2sbVars, sb, scan, op_ready, event_set,
                 notified, hostVars, nrounds>>

\* The handler has returned: the slot is free.
MainDone ==
  /\ MainIdle("busy")
  /\ sb2q' = [sb2q EXCEPT ![sb2q_head] = Free]
  /\ sb2q_head' = Inc(sb2q_head, SB2Q_SZ)
  /\ main' = "poll"
  /\ UNCHANGED <<chanVars, sb2q_tail, q2sbVars, sb, scan, thr, reg, op_ready,
                 event_set, notified, hostVars, nrounds>>

\* The loop goes through the notifiers after an access, and without one;
\* passes that find none set are left out.
NotifierTurn ==
  \/ MainIdle("poll")
  \/ MainIdle("msg") /\ ~sb2q[sb2q_head].ready /\ \E p \in Pollers : event_set[p]

\* One notifier of the list of routes; a set one is cleared and raises the
\* interrupt of its queue.
MainPoll ==
  /\ NotifierTurn
  /\ IF scan \in Pollers
     THEN /\ IF event_set[scan]
             THEN /\ event_set' = [event_set EXCEPT ![scan] = FALSE]
                  /\ thr' = [thr EXCEPT ![Main].todo = <<Call("INT", scan)>>]
             ELSE UNCHANGED <<event_set, thr>>
          /\ scan' = scan + 1 /\ main' = "poll"
     ELSE main' = "msg" /\ scan' = 1 /\ UNCHANGED <<thr, event_set>>
  /\ UNCHANGED <<chanVars, sb2qVars, q2sbVars, sb, reg, op_ready, notified,
                 hostVars, nrounds>>

-----------------------------------------------------------------------------
(* A poller, as the bridge sees it: it reads a submission entry, writes the *)
(* completion entry, and only then has the host interrupted.                *)

\* Mutant: the host is interrupted before the completion entry is written.
PollerJob_NotifyFirst(p) ==
  <<Call("DMA_READ", p), Call("NOTIFY", p), Call("DMA_WRITE", p)>>

PollerJob(p) ==
  <<Call("DMA_READ", p), Call("DMA_WRITE", p), Call("NOTIFY", p)>>

PollerStart(p) ==
  /\ thr[p].todo = <<>>
  /\ nrounds[p] < MaxRounds
  /\ nrounds' = [nrounds EXCEPT ![p] = @ + 1]
  /\ thr' = [thr EXCEPT ![p].todo = PollerJob(p)]
  /\ UNCHANGED <<chanVars, sb2qVars, q2sbVars, sb, mainVars, op_ready,
                 event_set, notified, hostVars>>

-----------------------------------------------------------------------------

SbStep   == SbPoll \/ mmio_post \/ SbForward \/ SbNothing \/ SbCopied \/ SbSend
MainStep == MainTake \/ MainDone \/ MainPoll \/ ThreadStep(Main)

Next ==
  \/ \E type \in {"READ", "WRITE", "DOORBELL"} : HostMmio(type)
  \/ HostTake \/ SbStep \/ MainStep
  \/ \E p \in Pollers : PollerStart(p) \/ ThreadStep(p)

\* All threads are busy loops the operating system keeps scheduling, and the
\* host keeps taking messages. Nothing makes it, or a poller, start anything.
Fairness ==
  /\ WF_vars(HostTake) /\ WF_vars(SbStep) /\ WF_vars(MainStep)
  /\ \A p \in Pollers : WF_vars(ThreadStep(p))

Spec == Init /\ [][Next]_vars /\ Fairness

-----------------------------------------------------------------------------
(* Correctness *)

\* The places from which the SimBricks thread will use thread t's dma_op: a
\* DMA not forwarded yet, a read the host has not answered, its answer.
Uses(t) ==
  {<<"q2sb", i>> : i \in {i \in DOMAIN q2sb :
     /\ q2sb[i].ready /\ q2sb[i].msg.type \in Dma /\ q2sb[i].msg.of = t
     /\ ~(i = q2sb_head /\ sb = "send" /\ q2sb[i].msg.type = "DMA_WRITE")}}
  \cup {<<"d2h", i>> : i \in {i \in DOMAIN d2h : d2h[i].type = "DMA_READ" /\ d2h[i].of = t}}
  \cup {<<"h2d", i>> : i \in {i \in DOMAIN h2d : h2d[i].type = "READCOMP" /\ h2d[i].of = t}}

(* pci_dma_read and pci_dma_write keep their dma_op on the stack. Whenever *)
(* the SimBricks thread may still copy from, copy to or complete it, its   *)
(* caller is waiting for exactly that.                                     *)
OpAliveWhenUsed ==
  \A t \in Threads : \A u \in Uses(t) :
    /\ At(t, "wait") /\ ~op_ready[t]
    /\ Uses(t) = {u}

(* sb_op_alloc gives no slot to two threads at once: it looks at the tail, *)
(* not at the slot, and a thread may be stopped between the two.           *)
SlotsApart ==
  \A t, u \in Threads :
    t # u /\ At(t, "fill") /\ At(u, "fill") => thr[t].slot # thr[u].slot

(* A register read returns the effect of every write the host posted       *)
(* before it and of none posted after, although writes are acknowledged    *)
(* before the device has seen them.                                        *)
ReadSeesWrites ==
  \A i \in DOMAIN d2h : d2h[i].type = "MMIO_READ_COMP" => d2h[i].val = host.seen

(* When an interrupt reaches the host, so has every completion entry that  *)
(* was announced before it was raised: the entry's DMA, the notifier and   *)
(* the interrupt pass through three threads.                               *)
InterruptAfterData ==
  d2h # <<>> /\ Head(d2h).type = "INT" =>
    host.arrived[Head(d2h).of] >= Head(d2h).val

\* The SimBricks thread waits for a slot of sb2q, all of which hold accesses
\* the main thread has not finished, and the main thread waits for the
\* SimBricks thread in the middle of a handler.
Jammed ==
  /\ sb = "post" /\ sb2q[sb2q_tail].ready
  /\ At(Main, "wait") /\ ~op_ready[Main]

(* Nobody waits for ever: a DMA returns to its caller, the host's register *)
(* read is answered, and a completion announced is followed by an          *)
(* interrupt, however notifiers are set while the main thread clears them. *)
(* The one way to stop is that the host posts more than SB2Q_SZ accesses   *)
(* while a handler is in pci_dma_read or pci_dma_write.                    *)
AllAnswered ==
  /\ \A t \in Threads : At(t, "wait") ~> (~At(t, "wait") \/ Jammed)
  /\ host.reading ~> (~host.reading \/ Jammed)
  /\ \A t \in Threads :
       (notified[t] > host.told[t]) ~> (notified[t] = host.told[t] \/ Jammed)

=============================================================================
