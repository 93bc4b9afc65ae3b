--------------------------- MODULE SbBridgeProofs ---------------------------
(***************************************************************************)
(* For every number of pollers, every size of the two arrays and of the    *)
(* channel, and any accesses of the host: no dma_op is touched after its   *)
(* caller has returned, an interrupt does not overtake the entries it      *)
(* announces, a register read sees the writes before it and no others, and *)
(* no slot is given to two threads at once.                                *)
(***************************************************************************)
EXTENDS SbBridge, FiniteSetTheorems, SequenceTheorems, TLAPS

Access  == {"READ", "WRITE", "DOORBELL"}
Types   == Access \cup Dma \cup {"READCOMP", "WRITECOMP", "INT", "MMIO_READ_COMP"}
Message == [type : Types, of : Threads, val : Nat]

SbSlots == 0 .. SB2Q_SZ - 1
QSlots  == 0 .. Q2SB_SZ - 1

\* The calls a thread has still to make are the end of one of its jobs.
Jobs(t) ==
  {<<>>}
  \cup IF t = Main
       THEN {<<Call("DMA_READ", Main), Call("DMA_WRITE", Main), Call("INT", Main)>>,
             <<Call("DMA_WRITE", Main), Call("INT", Main)>>,
             <<Call("MMIO_READ_COMP", Main)>>}
            \cup {<<Call("INT", u)>> : u \in Threads}
       ELSE {<<Call("DMA_READ", t), Call("DMA_WRITE", t), Call("NOTIFY", t)>>,
             <<Call("DMA_WRITE", t), Call("NOTIFY", t)>>,
             <<Call("NOTIFY", t)>>}

ThreadOK(t) ==
  /\ thr[t] \in [todo : Jobs(t), pc : {"call", "fill", "wait"}, slot : QSlots]
  /\ thr[t].todo = <<>> => thr[t].pc = "call"
  /\ thr[t].pc = "fill" => Now(t).type # "NOTIFY"
  /\ thr[t].pc = "wait" => Now(t).type \in Dma

\* What may be in a slot, and an array of them.
SlotVal(s) == s.ready \in BOOLEAN /\ (s.ready => s.msg \in Message)
Array(a, S) ==
  /\ a = [i \in S |-> a[i]]
  /\ \A i \in S : a[i].ready \in BOOLEAN /\ (a[i].ready => a[i].msg \in Message)

Host == [written : Nat, reading : BOOLEAN, seen : Nat,
         arrived : [Threads -> Nat], told : [Threads -> Nat]]

ChanOK == h2d \in Seq(Message) /\ d2h \in Seq(Message)

Sb2qOK ==
  /\ Array(sb2q, SbSlots) /\ sb2q_tail \in SbSlots /\ sb2q_head \in SbSlots
  /\ \A i \in SbSlots : sb2q[i].ready => sb2q[i].msg.type \in Access

Q2sbOK == Array(q2sb, QSlots) /\ q2sb_tail \in QSlots /\ q2sb_head \in QSlots

ThreadsOK == thr = [t \in Threads |-> thr[t]] /\ \A t \in Threads : ThreadOK(t)

RestOK ==
  /\ sb \in {"poll", "post", "fwd", "copy", "send"}
  /\ main \in {"msg", "busy", "poll"} /\ scan \in Nat /\ reg \in Nat
  /\ op_ready \in [Threads -> BOOLEAN]
  /\ event_set \in [Pollers -> BOOLEAN]
  /\ notified \in [Threads -> Nat]
  /\ host \in Host

\* The threads hold what they work on.
Working ==
  /\ sb = "post" => h2d # <<>> /\ Head(h2d).type \in Access
  /\ sb \in {"copy", "send"} => q2sb[q2sb_head].ready
  /\ sb = "copy" => Forwarded.type = "DMA_WRITE"
  /\ main = "busy" => sb2q[sb2q_head].ready

TypeOK == ChanOK /\ Sb2qOK /\ Q2sbOK /\ ThreadsOK /\ RestOK /\ Working

-----------------------------------------------------------------------------
(* Sequences, arrays and jobs *)

(* The elements of a tail.                                                 *)
LEMMA TailShape ==
  ASSUME NEW S, NEW s \in Seq(S), s # <<>>
  PROVE  /\ Tail(s) \in Seq(S) /\ Len(s) \in Nat \ {0} /\ Len(Tail(s)) = Len(s) - 1
         /\ \A k \in 1 .. Len(s) - 1 : Tail(s)[k] = s[k + 1]
         /\ Head(s) = s[1] /\ s[1] \in S
OBVIOUS

(* The elements of a sequence with one appended.                           *)
LEMMA AppendShape ==
  ASSUME NEW S, NEW s \in Seq(S), NEW e \in S
  PROVE  /\ Append(s, e) \in Seq(S) /\ Len(Append(s, e)) = Len(s) + 1
         /\ Len(s) \in Nat
         /\ \A k \in 1 .. Len(s) : Append(s, e)[k] = s[k]
         /\ Append(s, e)[Len(s) + 1] = e
         /\ s # <<>> => Head(Append(s, e)) = Head(s)
         /\ Append(s, e) # <<>>
OBVIOUS

(* A free slot and a full one.                                             *)
LEMMA Slot ==
  /\ Free.ready = FALSE
  /\ \A m : Full(m).ready = TRUE /\ Full(m).msg = m
  /\ SlotVal(Free) /\ \A m \in Message : SlotVal(Full(m))
BY DEF Free, Full, SlotVal

(* Filling or freeing a slot.                                              *)
LEMMA SlotSet ==
  ASSUME NEW S, NEW a, Array(a, S), NEW i \in S, NEW s, SlotVal(s)
  PROVE  Array([a EXCEPT ![i] = s], S)
<1> DEFINE b == [a EXCEPT ![i] = s]
<1>1. b = [j \in S |-> b[j]] /\ \A j \in S : b[j] = IF j = i THEN s ELSE a[j]
  BY DEF Array
<1>2. s.ready \in BOOLEAN /\ (s.ready => s.msg \in Message)
  BY DEF SlotVal
<1> HIDE DEF b
<1>3. Array(b, S)
  BY <1>1, <1>2 DEF Array
<1> QED
  BY <1>3 DEF b

(* The tails of short sequences.                                           *)
LEMMA ShortTails ==
  \A a, b, c : /\ Tail(<<a>>) = <<>> /\ Tail(<<a, b>>) = <<b>> /\ Tail(<<a, b, c>>) = <<b, c>>
               /\ Head(<<a>>) = a /\ Head(<<a, b>>) = a /\ Head(<<a, b, c>>) = a
               /\ <<a>> # <<>> /\ <<a, b>> # <<>> /\ <<a, b, c>> # <<>>
OBVIOUS

(* The first call of a job, and the rest of it.                            *)
LEMMA JobShape ==
  ASSUME NEW t \in Threads, NEW j \in Jobs(t), j # <<>>
  PROVE  /\ Tail(j) \in Jobs(t)
         /\ Head(j).type \in {"DMA_READ", "DMA_WRITE", "INT", "NOTIFY", "MMIO_READ_COMP"}
         /\ Head(j).of \in Threads
         /\ Head(j).type \in Dma \cup {"NOTIFY"} => Head(j).of = t
         /\ Head(j).type = "MMIO_READ_COMP" => t = Main /\ Head(j).of = Main
         /\ Head(j).type = "INT" => t = Main
         /\ Head(j).type = "NOTIFY" => t # Main
         /\ Head(j).type = "DMA_READ" => Tail(j) # <<>> /\ Head(Tail(j)).type = "DMA_WRITE"
         /\ Head(j).type = "DMA_WRITE" =>
              /\ Tail(j) # <<>> /\ Head(Tail(j)).of = t
              /\ Head(Tail(j)).type = IF t = Main THEN "INT" ELSE "NOTIFY"
         /\ Head(j).type \notin Dma => Tail(j) = <<>>
<1>0. Main \in Threads
  BY DEF Threads
<1>1. ASSUME t # Main PROVE j \in {<<Call("DMA_READ", t), Call("DMA_WRITE", t), Call("NOTIFY", t)>>,
             <<Call("DMA_WRITE", t), Call("NOTIFY", t)>>,
             <<Call("NOTIFY", t)>>}
  BY <1>1, Zenon DEF Jobs
<1>2. \A type, of : Call(type, of).type = type /\ Call(type, of).of = of
  BY DEF Call
<1>3. CASE t # Main
  <2>1. CASE j = <<Call("DMA_READ", t), Call("DMA_WRITE", t), Call("NOTIFY", t)>>
    BY <2>1, <1>2, <1>3, ShortTails DEF Jobs, Dma
  <2>2. CASE j = <<Call("DMA_WRITE", t), Call("NOTIFY", t)>>
    BY <2>2, <1>2, <1>3, ShortTails DEF Jobs, Dma
  <2>3. CASE j = <<Call("NOTIFY", t)>>
    BY <2>3, <1>2, <1>3, ShortTails DEF Jobs, Dma
  <2> QED
    BY <1>1, <1>3, <2>1, <2>2, <2>3
<1>4. CASE t = Main
  <2>1. CASE j = <<Call("DMA_READ", Main), Call("DMA_WRITE", Main), Call("INT", Main)>>
    BY <2>1, <1>2, <1>4, <1>0, ShortTails DEF Jobs, Dma
  <2>2. CASE j = <<Call("DMA_WRITE", Main), Call("INT", Main)>>
    BY <2>2, <1>2, <1>4, <1>0, ShortTails DEF Jobs, Dma
  <2>3. CASE j = <<Call("MMIO_READ_COMP", Main)>>
    BY <2>3, <1>2, <1>4, <1>0, ShortTails DEF Jobs, Dma
  <2>4. CASE \E u \in Threads : j = <<Call("INT", u)>>
    BY <2>4, <1>2, <1>4, <1>0, ShortTails DEF Jobs, Dma
  <2> QED
    BY <1>4, <2>1, <2>2, <2>3, <2>4 DEF Jobs
<1> QED
  BY <1>3, <1>4

-----------------------------------------------------------------------------
(* Steps of a thread *)

\* Thread t has calls `todo' left and is at `pc' with slot `slot'.
Becomes(t, todo, pc, slot) ==
  /\ thr' = [u \in Threads |-> thr'[u]]
  /\ thr'[t] = [todo |-> todo, pc |-> pc, slot |-> slot]
  /\ \A u \in Threads : u # t => thr'[u] = thr[u]

(* What the updates of thr do.                                             *)
LEMMA Becoming ==
  ASSUME ThreadsOK, NEW t \in Threads
  PROVE  /\ \A s : thr' = [thr EXCEPT ![t].slot = s, ![t].pc = "fill"] =>
                    Becomes(t, thr[t].todo, "fill", s)
         /\ Return(t) => Becomes(t, Tail(thr[t].todo), "call", thr[t].slot)
         /\ thr' = [thr EXCEPT ![t].pc = "wait"] =>
                    Becomes(t, thr[t].todo, "wait", thr[t].slot)
         /\ \A j : thr' = [thr EXCEPT ![t].todo = j] =>
                    Becomes(t, j, thr[t].pc, thr[t].slot)
<1>1. thr = [u \in Threads |-> thr[u]] /\ thr[t] \in [todo : Jobs(t), pc : {"call", "fill", "wait"}, slot : QSlots]
  BY DEF ThreadsOK, ThreadOK
<1>2. ASSUME NEW s, thr' = [thr EXCEPT ![t].slot = s, ![t].pc = "fill"]
      PROVE  Becomes(t, thr[t].todo, "fill", s)
  BY <1>1, <1>2 DEF Becomes
<1>3. ASSUME Return(t) PROVE Becomes(t, Tail(thr[t].todo), "call", thr[t].slot)
  BY <1>1, <1>3 DEF Becomes, Return
<1>4. ASSUME thr' = [thr EXCEPT ![t].pc = "wait"]
      PROVE  Becomes(t, thr[t].todo, "wait", thr[t].slot)
  BY <1>1, <1>4 DEF Becomes
<1>5. ASSUME NEW j, thr' = [thr EXCEPT ![t].todo = j]
      PROVE  Becomes(t, j, thr[t].pc, thr[t].slot)
  BY <1>1, <1>5 DEF Becomes
<1> QED
  BY <1>2, <1>3, <1>4, <1>5

(* The threads stay well-formed.                                           *)
LEMMA StaysThread ==
  ASSUME ThreadsOK, NEW t \in Threads, NEW todo \in Jobs(t),
         NEW pc \in {"call", "fill", "wait"}, NEW slot \in QSlots,
         Becomes(t, todo, pc, slot),
         todo = <<>> => pc = "call",
         pc = "fill" => Head(todo).type # "NOTIFY",
         pc = "wait" => Head(todo).type \in Dma
  PROVE  ThreadsOK'
<1>1. ThreadOK(t)'
  BY DEF Becomes, ThreadOK, Now
<1>2. ASSUME NEW u \in Threads, u # t PROVE ThreadOK(u)'
  BY <1>2 DEF Becomes, ThreadsOK, ThreadOK, Now
<1> QED
  BY <1>1, <1>2 DEF ThreadsOK, Becomes

(* The next slot.                                                          *)
LEMMA IncIn ==
  ASSUME NEW n \in Nat \ {0}, NEW i \in 0 .. n - 1
  PROVE  Inc(i, n) \in 0 .. n - 1
BY DEF Inc

(* The constants, and the types of messages.                               *)
LEMMA Consts ==
  /\ SB2Q_SZ \in Nat \ {0} /\ Q2SB_SZ \in Nat \ {0} /\ Main \in Threads
  /\ Pollers \subseteq Threads /\ Main \notin Pollers
  /\ \A t \in Threads : t = Main \/ t \in Pollers
BY BridgeAssumption DEF Threads, Pollers, Main

(* Messages by their fields.                                               *)
LEMMA Msgs ==
  /\ \A type \in Types, t \in Threads, v \in Nat : Msg(type, t, v) \in Message
  /\ \A type, t, v : Msg(type, t, v).type = type /\ Msg(type, t, v).of = t
                     /\ Msg(type, t, v).val = v
  /\ \A m \in Message : m.type \in Types /\ m.of \in Threads /\ m.val \in Nat
BY DEF Msg, Message

(* What the host notes.                                                    *)
LEMMA HostSet ==
  ASSUME host \in Host
  PROVE  /\ LET h == [host EXCEPT !.reading = TRUE, !.seen = host.written]
            IN  /\ h \in Host /\ h.written = host.written /\ h.reading = TRUE
                /\ h.seen = host.written /\ h.arrived = host.arrived
         /\ LET h == [host EXCEPT !.written = @ + 1]
            IN  /\ h \in Host /\ h.written = host.written + 1 /\ h.reading = host.reading
                /\ h.seen = host.seen /\ h.arrived = host.arrived
         /\ \A t \in Threads : LET h == [host EXCEPT !.arrived[t] = @ + 1]
            IN  /\ h \in Host /\ h.written = host.written /\ h.reading = host.reading
                /\ h.seen = host.seen
                /\ h.arrived = [host.arrived EXCEPT ![t] = @ + 1]
         /\ \A t \in Threads, v \in Nat : LET h == [host EXCEPT !.told[t] = v]
            IN  /\ h \in Host /\ h.written = host.written /\ h.reading = host.reading
                /\ h.seen = host.seen /\ h.arrived = host.arrived
         /\ LET h == [host EXCEPT !.reading = FALSE]
            IN  /\ h \in Host /\ h.written = host.written /\ h.reading = FALSE
                /\ h.seen = host.seen /\ h.arrived = host.arrived
<1>1. /\ host.written \in Nat /\ host.reading \in BOOLEAN /\ host.seen \in Nat
      /\ host.arrived \in [Threads -> Nat] /\ host.told \in [Threads -> Nat]
      /\ host = [written |-> host.written, reading |-> host.reading, seen |-> host.seen,
                 arrived |-> host.arrived, told |-> host.told]
  BY DEF Host
<1>2. \A t \in Threads : [host.arrived EXCEPT ![t] = @ + 1] \in [Threads -> Nat]
  BY <1>1
<1>3. \A t \in Threads, v \in Nat : [host.told EXCEPT ![t] = v] \in [Threads -> Nat]
  BY <1>1
<1>4. ASSUME NEW t \in Threads
      PROVE  LET h == [host EXCEPT !.arrived[t] = @ + 1]
            IN  /\ h \in Host /\ h.written = host.written /\ h.reading = host.reading
                /\ h.seen = host.seen
                /\ h.arrived = [host.arrived EXCEPT ![t] = @ + 1]
  BY <1>1, <1>2 DEF Host
<1>5. ASSUME NEW t \in Threads, NEW v \in Nat
      PROVE  LET h == [host EXCEPT !.told[t] = v]
            IN  /\ h \in Host /\ h.written = host.written /\ h.reading = host.reading
                /\ h.seen = host.seen /\ h.arrived = host.arrived
  BY <1>1, <1>3 DEF Host
<1>6. LET h == [host EXCEPT !.reading = TRUE, !.seen = host.written]
            IN  /\ h \in Host /\ h.written = host.written /\ h.reading = TRUE
                /\ h.seen = host.written /\ h.arrived = host.arrived
  BY <1>1 DEF Host
<1>7. LET h == [host EXCEPT !.written = @ + 1]
            IN  /\ h \in Host /\ h.written = host.written + 1 /\ h.reading = host.reading
                /\ h.seen = host.seen /\ h.arrived = host.arrived
  BY <1>1 DEF Host
<1>8. LET h == [host EXCEPT !.reading = FALSE]
            IN  /\ h \in Host /\ h.written = host.written /\ h.reading = FALSE
                /\ h.seen = host.seen /\ h.arrived = host.arrived
  BY <1>1 DEF Host
<1> QED
  BY <1>4, <1>5, <1>6, <1>7, <1>8, Zenon

-----------------------------------------------------------------------------
(* Types *)

(* The host's steps.                                                       *)
LEMMA HostTypes ==
  ASSUME TypeOK, (\E type \in Access : HostMmio(type)) \/ HostTake
  PROVE  TypeOK'
<1> USE DEF TypeOK
<1>1. ASSUME NEW type \in Access, HostMmio(type) PROVE TypeOK'
  <2>1. host' \in Host
    BY <1>1, HostSet DEF HostMmio, RestOK
  <2>2. Msg(type, Main, host'.written) \in Message
    BY <2>1, Consts, Msgs DEF Host, Types
  <2>3. ChanOK' /\ (h2d # <<>> => Head(h2d') = Head(h2d)) /\ h2d' # <<>>
    BY <1>1, <2>2, AppendShape DEF HostMmio, ChanOK
  <2>4. Sb2qOK' /\ Q2sbOK' /\ ThreadsOK' /\ RestOK'
    BY <1>1, <2>1 DEF HostMmio, Sb2qOK, Q2sbOK, ThreadsOK, ThreadOK, Now, RestOK,
         sb2qVars, q2sbVars, mainVars
  <2> QED
    BY <1>1, <2>3, <2>4 DEF HostMmio, Working, Forwarded, sb2qVars, q2sbVars, mainVars
<1>2. ASSUME HostTake PROVE TypeOK'
  <2>1. Head(d2h) \in Message /\ Tail(d2h) \in Seq(Message)
    BY <1>2, TailShape DEF HostTake, ChanOK
  <2>2. Msg("READCOMP", Head(d2h).of, 0) \in Message
    BY <2>1, Msgs DEF Types
  <2>3. ChanOK' /\ (h2d # <<>> => Head(h2d') = Head(h2d) /\ h2d' # <<>>)
    BY <1>2, <2>1, <2>2, AppendShape DEF HostTake, ChanOK
  <2>4. host' \in Host
    BY <1>2, <2>1, Msgs, HostSet DEF HostTake, RestOK
  <2>5. Sb2qOK' /\ Q2sbOK' /\ ThreadsOK' /\ RestOK'
    BY <1>2, <2>4 DEF HostTake, Sb2qOK, Q2sbOK, ThreadsOK, ThreadOK, Now, RestOK,
         sb2qVars, q2sbVars, mainVars
  <2> QED
    BY <1>2, <2>3, <2>5 DEF HostTake, Working, Forwarded, sb2qVars, q2sbVars, mainVars
<1> QED
  BY <1>1, <1>2

(* The steps of the SimBricks thread.                                      *)
LEMMA SbTypes ==
  ASSUME TypeOK, SbStep
  PROVE  TypeOK'
<1> USE DEF TypeOK
<1>1. ASSUME SbPoll PROVE TypeOK'
  <2>1. Head(h2d) \in Message /\ Tail(h2d) \in Seq(Message)
    BY <1>1, TailShape DEF SbPoll, ChanOK
  <2>2. Msg("WRITECOMP", Main, 0) \in Message
    BY Consts, Msgs DEF Types
  <2>3. ChanOK'
    BY <1>1, <2>1, <2>2, AppendShape DEF SbPoll, ChanOK, chanVars
  <2>4. RestOK'
    BY <1>1, <2>1, Msgs DEF SbPoll, RestOK, mainVars, hostVars
  <2>5. Sb2qOK' /\ Q2sbOK' /\ ThreadsOK'
    BY <1>1 DEF SbPoll, Sb2qOK, Q2sbOK, ThreadsOK, ThreadOK, Now, sb2qVars, q2sbVars
  <2>6. Working'
    BY <1>1 DEF SbPoll, Working, Forwarded, sb2qVars, q2sbVars, mainVars, chanVars, Access
  <2> QED
    BY <2>3, <2>4, <2>5, <2>6
<1>2. ASSUME mmio_post PROVE TypeOK'
  <2>1. Head(h2d) \in Message /\ Tail(h2d) \in Seq(Message) /\ Head(h2d).type \in Access
    BY <1>2, TailShape DEF mmio_post, ChanOK, Working
  <2>2. /\ Array(sb2q', SbSlots)
        /\ \A i \in SbSlots : sb2q'[i] = IF i = sb2q_tail THEN Full(Head(h2d)) ELSE sb2q[i]
    <3> DEFINE new == Full(Head(h2d))
    <3>1. SlotVal(new)
      BY <2>1, Slot
    <3>2. sb2q' = [sb2q EXCEPT ![sb2q_tail] = new] /\ sb2q_tail \in SbSlots /\ Array(sb2q, SbSlots)
      BY <1>2 DEF mmio_post, Sb2qOK
    <3> HIDE DEF new
    <3>3. Array(sb2q', SbSlots)
      BY <3>1, <3>2, SlotSet
    <3>4. \A i \in SbSlots : sb2q'[i] = IF i = sb2q_tail THEN new ELSE sb2q[i]
      BY <3>2 DEF Array
    <3> QED
      BY <3>3, <3>4 DEF new
  <2>3. sb2q_tail' \in SbSlots
    BY <1>2, Consts, IncIn DEF mmio_post, Sb2qOK, SbSlots
  <2>4. Sb2qOK'
    BY <1>2, <2>1, <2>2, <2>3, Slot DEF mmio_post, Sb2qOK
  <2>5. ChanOK' /\ Q2sbOK' /\ ThreadsOK' /\ RestOK'
    BY <1>2, <2>1 DEF mmio_post, ChanOK, Q2sbOK, ThreadsOK, ThreadOK, Now, RestOK,
         q2sbVars, mainVars, hostVars
  <2>6. Working'
    BY <1>2, <2>2, Slot DEF mmio_post, Working, Sb2qOK, mainVars
  <2> QED
    BY <2>4, <2>5, <2>6
<1>3. ASSUME SbForward \/ SbNothing PROVE TypeOK'
  <2>1. Working'
    BY <1>3 DEF SbForward, SbNothing, DeviceTurn, Working, Forwarded, sb2qVars, q2sbVars,
         mainVars
  <2>2. ChanOK' /\ Sb2qOK' /\ Q2sbOK' /\ ThreadsOK' /\ RestOK'
    BY <1>3 DEF SbForward, SbNothing, ChanOK, Sb2qOK, Q2sbOK, ThreadsOK, ThreadOK, Now, RestOK,
         chanVars, sb2qVars, q2sbVars, mainVars, hostVars
  <2> QED
    BY <2>1, <2>2
<1>4. ASSUME SbCopied PROVE TypeOK'
  <2>1. Forwarded.of \in Threads
    BY <1>4, Msgs DEF SbCopied, Working, Q2sbOK, Array, Forwarded
  <2>2. Working'
    BY <1>4 DEF SbCopied, Working, sb2qVars, q2sbVars, mainVars
  <2>3. ChanOK' /\ Sb2qOK' /\ Q2sbOK' /\ ThreadsOK' /\ RestOK'
    BY <1>4, <2>1 DEF SbCopied, ChanOK, Sb2qOK, Q2sbOK, ThreadsOK, ThreadOK, Now, RestOK,
         chanVars, sb2qVars, q2sbVars, mainVars, hostVars
  <2> QED
    BY <2>2, <2>3
<1>5. ASSUME SbSend PROVE TypeOK'
  <2>1. Forwarded \in Message
    BY <1>5 DEF SbSend, Working, Q2sbOK, Array, Forwarded
  <2>2. Array(q2sb', QSlots)
    BY <1>5, Slot, SlotSet DEF SbSend, Q2sbOK
  <2>3. q2sb_head' \in QSlots
    BY <1>5, Consts, IncIn DEF SbSend, Q2sbOK, QSlots
  <2>4. ChanOK' /\ Q2sbOK'
    BY <1>5, <2>1, <2>2, <2>3, AppendShape DEF SbSend, ChanOK, Q2sbOK
  <2>5. Working'
    BY <1>5 DEF SbSend, Working, sb2qVars, mainVars
  <2>6. Sb2qOK' /\ ThreadsOK' /\ RestOK'
    BY <1>5 DEF SbSend, Sb2qOK, ThreadsOK, ThreadOK, Now, RestOK, sb2qVars, mainVars, hostVars
  <2> QED
    BY <2>4, <2>5, <2>6
<1> QED
  BY <1>1, <1>2, <1>3, <1>4, <1>5 DEF SbStep

(* The steps of a call.                                                    *)
LEMMA CallTypes ==
  ASSUME TypeOK, NEW t \in Threads, ThreadStep(t)
  PROVE  TypeOK'
<1> USE DEF TypeOK
<1>0. /\ thr[t].todo \in Jobs(t) /\ thr[t].slot \in QSlots
      /\ thr[t].pc = "fill" => Now(t).type # "NOTIFY"
      /\ thr[t].pc = "wait" => Now(t).type \in Dma
      /\ ThreadsOK
  BY DEF ThreadsOK, ThreadOK
<1>1. ASSUME sb_op_alloc(t) PROVE TypeOK'
  <2>1. Becomes(t, thr[t].todo, "fill", q2sb_tail) /\ q2sb_tail \in QSlots
    BY <1>0, <1>1, Becoming DEF sb_op_alloc, Q2sbOK
  <2>2. thr[t].todo # <<>> /\ Head(thr[t].todo).type # "NOTIFY"
    BY <1>1 DEF sb_op_alloc, At, Now
  <2>3. ThreadsOK'
    BY <1>0, <2>1, <2>2, StaysThread
  <2>4. q2sb_tail' \in QSlots
    BY <1>1, Consts, IncIn DEF sb_op_alloc, Q2sbOK, QSlots
  <2> QED
    BY <1>1, <2>3, <2>4 DEF sb_op_alloc, ChanOK, Sb2qOK, Q2sbOK, RestOK, Working, Forwarded,
         chanVars, sb2qVars, mainVars, hostVars
<1>2. ASSUME Fill(t) PROVE TypeOK'
  <2> DEFINE c == Now(t)
             own == c.type = "INT" /\ c.of = Main
             told == IF own THEN [notified EXCEPT ![Main] = @ + 1] ELSE notified
             val == CASE c.type = "MMIO_READ_COMP" -> reg
                      [] c.type = "INT"            -> told[c.of]
                      [] OTHER                     -> 0
  <2>1. told \in [Threads -> Nat]
    BY Consts DEF RestOK
  <2>2. /\ c.type \in {"DMA_READ", "DMA_WRITE", "INT", "NOTIFY", "MMIO_READ_COMP"}
        /\ c.of \in Threads /\ c.type # "NOTIFY" /\ thr[t].todo # <<>> /\ thr[t].pc = "fill"
        /\ Tail(thr[t].todo) \in Jobs(t)
    BY <1>0, <1>2, JobShape DEF Fill, At, Now
  <2>3. val \in Nat
    BY <2>1, <2>2 DEF RestOK
  <2>4. Msg(c.type, c.of, val) \in Message
    BY <2>2, <2>3, Msgs DEF Types, Dma
  <2>5. /\ notified' = told
        /\ q2sb' = [q2sb EXCEPT ![thr[t].slot] = Full(Msg(c.type, c.of, val))]
        /\ \/ /\ c.type \in Dma /\ thr' = [thr EXCEPT ![t].pc = "wait"]
              /\ op_ready' = [op_ready EXCEPT ![t] = FALSE]
           \/ Return(t) /\ op_ready' = op_ready
        /\ UNCHANGED <<chanVars, sb2qVars, q2sb_tail, q2sb_head, sb, mainVars,
                       event_set, hostVars, nrounds>>
        /\ ~q2sb[thr[t].slot].ready
    BY <1>2, Zenon DEF Fill
  <2> HIDE DEF c, told, val
  <2>6. Array(q2sb', QSlots)
    BY <1>0, <2>4, <2>5, Slot, SlotSet DEF Q2sbOK
  <2>7. ThreadsOK'
    <3>1. CASE c.type \in Dma /\ thr' = [thr EXCEPT ![t].pc = "wait"]
      BY <1>0, <2>2, <3>1, Becoming, StaysThread DEF Now, c
    <3>2. CASE Return(t)
      BY <1>0, <2>2, <3>2, Becoming, StaysThread
    <3> QED
      BY <2>5, <3>1, <3>2
  <2>8. Working'
    <3>1. \A i \in QSlots : i # thr[t].slot => q2sb'[i] = q2sb[i]
      BY <2>5 DEF Q2sbOK, Array
    <3> QED
      BY <2>5, <3>1 DEF Working, Forwarded, chanVars, sb2qVars, mainVars, Q2sbOK
  <2>9. RestOK'
    BY <2>1, <2>5 DEF RestOK, mainVars, hostVars
  <2> QED
    BY <2>5, <2>6, <2>7, <2>8, <2>9 DEF ChanOK, Sb2qOK, Q2sbOK, chanVars, sb2qVars
<1>3. ASSUME DmaReturn(t) PROVE TypeOK'
  <2>1. Becomes(t, Tail(thr[t].todo), "call", thr[t].slot)
    BY <1>0, <1>3, Becoming DEF DmaReturn
  <2>2. ThreadsOK'
    BY <1>0, <1>3, <2>1, JobShape, StaysThread DEF DmaReturn, At
  <2> QED
    BY <1>3, <2>2 DEF DmaReturn, ChanOK, Sb2qOK, Q2sbOK, RestOK, Working, Forwarded,
         chanVars, sb2qVars, q2sbVars, mainVars, hostVars
<1>4. ASSUME t \in Pollers, event_notifier_set(t) PROVE TypeOK'
  <2>1. Becomes(t, Tail(thr[t].todo), "call", thr[t].slot)
    BY <1>0, <1>4, Becoming DEF event_notifier_set
  <2>2. ThreadsOK'
    BY <1>0, <1>4, <2>1, JobShape, StaysThread DEF event_notifier_set, At
  <2>3. RestOK'
    BY <1>4 DEF event_notifier_set, RestOK, mainVars, hostVars
  <2> QED
    BY <1>4, <2>2, <2>3 DEF event_notifier_set, ChanOK, Sb2qOK, Q2sbOK, Working, Forwarded,
         chanVars, sb2qVars, q2sbVars, mainVars
<1> QED
  BY <1>1, <1>2, <1>3, <1>4 DEF ThreadStep

(* The main loop, and a poller that starts.                                *)
LEMMA LoopTypes ==
  ASSUME TypeOK, MainTake \/ MainDone \/ MainPoll \/ \E p \in Pollers : PollerStart(p)
  PROVE  TypeOK'
<1> USE DEF TypeOK
<1>0. \A t \in Threads : /\ thr[t].todo = <<>> => thr[t].pc = "call"
                         /\ thr[t].slot \in QSlots
  BY DEF ThreadsOK, ThreadOK
<1>1. ASSUME NEW t \in Threads, NEW j \in Jobs(t), thr[t].todo = <<>>,
             thr' = [thr EXCEPT ![t].todo = j]
      PROVE  ThreadsOK'
  <2>1. Becomes(t, j, "call", thr[t].slot)
    BY <1>0, <1>1, Becoming
  <2> QED
    BY <1>0, <1>1, <2>1, StaysThread
<1>2. ASSUME MainTake PROVE TypeOK'
  <2>1. sb2q[sb2q_head].msg \in Message /\ sb2q[sb2q_head].msg.type \in Access
    BY <1>2 DEF MainTake, Sb2qOK, Array
  <2>2. Handler(sb2q[sb2q_head].msg.type) \in Jobs(Main)
    BY <2>1, Consts DEF Handler, Jobs, Access
  <2>3. ThreadsOK'
    BY <1>1, <1>2, <2>2, Consts DEF MainTake, MainIdle
  <2>4. RestOK'
    BY <1>2, <2>1, Msgs DEF MainTake, RestOK, hostVars
  <2> QED
    BY <1>2, <2>3, <2>4 DEF MainTake, ChanOK, Sb2qOK, Q2sbOK, Working, Forwarded,
         chanVars, sb2qVars, q2sbVars
<1>3. ASSUME MainDone PROVE TypeOK'
  <2>1. Array(sb2q', SbSlots)
    BY <1>3, Slot, SlotSet DEF MainDone, Sb2qOK
  <2>2. \A i \in SbSlots : sb2q'[i] = IF i = sb2q_head THEN Free ELSE sb2q[i]
    BY <1>3 DEF MainDone, Sb2qOK, Array
  <2>3. sb2q_head' \in SbSlots
    BY <1>3, Consts, IncIn DEF MainDone, Sb2qOK, SbSlots
  <2>4. Sb2qOK'
    BY <1>3, <2>1, <2>2, <2>3, Slot DEF MainDone, Sb2qOK
  <2> QED
    BY <1>3, <2>4 DEF MainDone, ChanOK, Q2sbOK, ThreadsOK, ThreadOK, Now, RestOK, Working,
         Forwarded, chanVars, q2sbVars, hostVars
<1>4. ASSUME MainPoll PROVE TypeOK'
  <2>1. scan \in Pollers => <<Call("INT", scan)>> \in Jobs(Main)
    BY Consts DEF Jobs
  <2>2. thr[Main].todo = <<>>
    BY <1>4 DEF MainPoll, NotifierTurn, MainIdle
  <2>3. ThreadsOK'
    <3>1. CASE scan \in Pollers /\ thr' = [thr EXCEPT ![Main].todo = <<Call("INT", scan)>>]
      BY <1>1, <2>1, <2>2, <3>1, Consts
    <3>2. CASE thr' = thr
      BY <3>2 DEF ThreadsOK, ThreadOK, Now
    <3> QED
      BY <1>4, <3>1, <3>2 DEF MainPoll
  <2>4. RestOK'
    <3>1. event_set \in [Pollers -> BOOLEAN] /\ scan \in Nat
      BY DEF RestOK
    <3>2. event_set' \in [Pollers -> BOOLEAN]
      <4>1. CASE event_set' = [event_set EXCEPT ![scan] = FALSE]
        BY <3>1, <4>1
      <4>2. CASE event_set' = event_set
        BY <3>1, <4>2
      <4> QED
        BY <1>4, <4>1, <4>2 DEF MainPoll
    <3>3. scan' \in Nat /\ main' \in {"msg", "busy", "poll"}
      BY <1>4, <3>1 DEF MainPoll
    <3>4. UNCHANGED <<sb, reg, op_ready, notified, host>>
      BY <1>4 DEF MainPoll, hostVars
    <3> QED
      BY <3>2, <3>3, <3>4 DEF RestOK
  <2>5. Working'
    BY <1>4 DEF MainPoll, Working, Forwarded, chanVars, sb2qVars, q2sbVars
  <2> QED
    BY <1>4, <2>3, <2>4, <2>5 DEF MainPoll, ChanOK, Sb2qOK, Q2sbOK,
         chanVars, sb2qVars, q2sbVars
<1>5. ASSUME NEW p \in Pollers, PollerStart(p) PROVE TypeOK'
  <2>1. p \in Threads /\ p # Main
    BY Consts
  <2>2. PollerJob(p) \in Jobs(p)
    BY <2>1 DEF Jobs, PollerJob
  <2>3. ThreadsOK'
    BY <1>1, <1>5, <2>1, <2>2 DEF PollerStart
  <2> QED
    BY <1>5, <2>3 DEF PollerStart, ChanOK, Sb2qOK, Q2sbOK, RestOK, Working, Forwarded,
         chanVars, sb2qVars, q2sbVars, mainVars, hostVars
<1> QED
  BY <1>2, <1>3, <1>4, <1>5

(* The actions in four groups.                                             *)
LEMMA NextSplit ==
  ASSUME Next
  PROVE  \/ (\E type \in Access : HostMmio(type)) \/ HostTake
         \/ SbStep
         \/ \E t \in Threads : ThreadStep(t)
         \/ MainTake \/ MainDone \/ MainPoll \/ \E p \in Pollers : PollerStart(p)
BY Consts DEF Next, MainStep, Access

(* The types of the initial state.                                         *)
LEMMA InitTypes == Init => TypeOK
<1> SUFFICES ASSUME Init PROVE TypeOK
  OBVIOUS
<1>1. 0 \in SbSlots /\ 0 \in QSlots
  BY Consts DEF SbSlots, QSlots
<1>2. Array(sb2q, SbSlots) /\ Array(q2sb, QSlots) /\ \A i \in SbSlots : ~sb2q[i].ready
  BY Slot DEF Init, Array, SbSlots, QSlots
<1>3. ThreadsOK
  BY <1>1 DEF Init, ThreadsOK, ThreadOK, Jobs
<1>4. host \in Host
  BY DEF Init, Host
<1>5. RestOK
  BY <1>4 DEF Init, RestOK
<1>6. ChanOK /\ Sb2qOK /\ Q2sbOK /\ Working
  <2>1. /\ h2d = <<>> /\ d2h = <<>> /\ sb = "poll" /\ main = "msg"
        /\ sb2q_tail = 0 /\ sb2q_head = 0 /\ q2sb_tail = 0 /\ q2sb_head = 0
    BY DEF Init
  <2> QED
    BY <1>1, <1>2, <2>1 DEF ChanOK, Sb2qOK, Q2sbOK, Working
<1> QED
  BY <1>3, <1>5, <1>6 DEF TypeOK

(* Types are kept.                                                         *)
LEMMA TypesKept == TypeOK /\ [Next]_vars => TypeOK'
<1>1. ASSUME TypeOK, Next PROVE TypeOK'
  BY <1>1, NextSplit, HostTypes, SbTypes, CallTypes, LoopTypes
<1>2. ASSUME TypeOK, UNCHANGED vars PROVE TypeOK'
  BY <1>2 DEF vars, chanVars, sb2qVars, q2sbVars, mainVars, hostVars, TypeOK, ChanOK, Sb2qOK,
       Q2sbOK, ThreadsOK, ThreadOK, Now, RestOK, Working, Forwarded
<1> QED
  BY <1>1, <1>2

-----------------------------------------------------------------------------
(* The dma_op of a thread *)

\* Where the SimBricks thread will still use it: a DMA not forwarded yet, a
\* read the host has not answered, its answer.
InQ(t, i)      == i \in QSlots /\ q2sb[i].ready /\ q2sb[i].msg.type \in Dma /\ q2sb[i].msg.of = t
UsedQ(t, i)    == InQ(t, i) /\ ~(i = q2sb_head /\ sb = "send" /\ q2sb[i].msg.type = "DMA_WRITE")
Asked(t, k)    == k \in 1 .. Len(d2h) /\ d2h[k].type = "DMA_READ" /\ d2h[k].of = t
Answered(t, k) == k \in 1 .. Len(h2d) /\ h2d[k].type = "READCOMP" /\ h2d[k].of = t

Waiting(t, type) ==
  thr[t].todo # <<>> /\ thr[t].pc = "wait" /\ Now(t).type = type /\ ~op_ready[t]

\* It is used in one place, and its thread waits for that.
Alive(t) ==
  /\ \A i \in QSlots : UsedQ(t, i) => Waiting(t, q2sb[i].msg.type)
  /\ \A k \in Nat : Asked(t, k) => Waiting(t, "DMA_READ")
  /\ \A k \in Nat : Answered(t, k) => Waiting(t, "DMA_READ")
  /\ \A i, j \in QSlots : UsedQ(t, i) /\ UsedQ(t, j) => i = j
  /\ \A i, j \in Nat : Asked(t, i) /\ Asked(t, j) => i = j
  /\ \A i, j \in Nat : Answered(t, i) /\ Answered(t, j) => i = j
  /\ \A i \in QSlots, j \in Nat : UsedQ(t, i) => ~Asked(t, j) /\ ~Answered(t, j)
  /\ \A i, j \in Nat : ~(Asked(t, i) /\ Answered(t, j))

(* A step that adds no use and leaves t waiting.                           *)
LEMMA AliveLess ==
  ASSUME NEW t, Alive(t),
         \A i \in QSlots : UsedQ(t, i)' => UsedQ(t, i) /\ q2sb'[i].msg.type = q2sb[i].msg.type,
         \A k \in Nat : Asked(t, k)' => Asked(t, k),
         \A k \in Nat : Answered(t, k)' => Answered(t, k),
         \A type : Waiting(t, type) => Waiting(t, type)'
  PROVE  Alive(t)'
<1> QSlots' = QSlots
  OBVIOUS
<1> HIDE DEF QSlots
<1> QED
  BY DEF Alive

(* A thread that does not wait has no use of its dma_op anywhere.          *)
LEMMA AliveNone ==
  ASSUME NEW t, Alive(t), \A type : ~Waiting(t, type)
  PROVE  /\ \A i \in QSlots : ~UsedQ(t, i)
         /\ \A k \in Nat : ~Asked(t, k) /\ ~Answered(t, k)
BY DEF Alive

(* No use, nothing to show.                                                *)
LEMMA AliveEmpty ==
  ASSUME NEW t,
         \A i \in QSlots : ~UsedQ(t, i)',
         \A k \in Nat : ~Asked(t, k)' /\ ~Answered(t, k)'
  PROVE  Alive(t)'
BY DEF Alive

\* Everything but the thread's own place.
SameUses ==
  \A t : /\ \A i \in QSlots : UsedQ(t, i)' => UsedQ(t, i) /\ q2sb'[i].msg.type = q2sb[i].msg.type
         /\ \A k \in Nat : Asked(t, k)' => Asked(t, k)
         /\ \A k \in Nat : Answered(t, k)' => Answered(t, k)

(* A step that adds no use and changes at most the place of thread u, which *)
(* does not wait.                                                          *)
LEMMA AliveThread ==
  ASSUME \A t \in Threads : Alive(t), SameUses, NEW u \in Threads,
         \A type : ~Waiting(u, type),
         \A t \in Threads : t # u => \A type : Waiting(t, type) => Waiting(t, type)'
  PROVE  \A t \in Threads : Alive(t)'
<1> SUFFICES ASSUME NEW t \in Threads PROVE Alive(t)'
  OBVIOUS
<1>1. CASE t # u
  BY <1>1, AliveLess DEF SameUses
<1>2. CASE t = u
  BY <1>2, AliveNone, AliveEmpty DEF SameUses
<1> QED
  BY <1>1, <1>2

(* The first message of the host is gone.                                  *)
LEMMA AliveShift ==
  ASSUME NEW t, Alive(t),
         \A i \in QSlots : UsedQ(t, i)' => UsedQ(t, i) /\ q2sb'[i].msg.type = q2sb[i].msg.type,
         \A k \in Nat : Asked(t, k)' => Asked(t, k),
         \A k \in Nat : Answered(t, k)' => Answered(t, k + 1),
         \A type : Waiting(t, type) => Waiting(t, type)'
  PROVE  Alive(t)'
<1> QSlots' = QSlots
  OBVIOUS
<1> HIDE DEF QSlots
<1>1. \A i, j \in Nat : i + 1 = j + 1 => i = j
  OBVIOUS
<1>2. \A i \in Nat : i + 1 \in Nat
  OBVIOUS
<1> QED
  BY <1>1, <1>2 DEF Alive

(* The host's steps.                                                       *)
LEMMA HostAlive ==
  ASSUME TypeOK, \A t \in Threads : Alive(t),
         (\E type \in Access : HostMmio(type)) \/ HostTake
  PROVE  \A t \in Threads : Alive(t)'
<1>1. ASSUME NEW type \in Access, HostMmio(type) PROVE \A t \in Threads : Alive(t)'
  <2> DEFINE m == Msg(type, Main, host'.written)
  <2>1. host' \in Host
    BY <1>1, HostSet DEF HostMmio, TypeOK, RestOK
  <2>2. m \in Message /\ m.type # "READCOMP"
    BY <2>1, Consts, Msgs DEF Host, Types, Access
  <2>3. h2d' = Append(h2d, m) /\ h2d \in Seq(Message)
    BY <1>1 DEF HostMmio, TypeOK, ChanOK
  <2> HIDE DEF m
  <2>4. \A t, k : Answered(t, k)' => Answered(t, k)
    BY <2>2, <2>3, AppendShape DEF Answered
  <2>5. \A t, k, type1 : /\ Asked(t, k)' = Asked(t, k) /\ UsedQ(t, k)' = UsedQ(t, k)
                         /\ Waiting(t, type1)' = Waiting(t, type1)
    BY <1>1 DEF HostMmio, Asked, UsedQ, InQ, Waiting, Now, q2sbVars
  <2>6. q2sb' = q2sb
    BY <1>1 DEF HostMmio, q2sbVars
  <2> QED
    BY <2>4, <2>5, <2>6, AliveLess
<1>2. ASSUME HostTake PROVE \A t \in Threads : Alive(t)'
  <2> DEFINE m == Head(d2h)
             l == Len(h2d) + 1
  <2>1. m = d2h[1] /\ m \in Message /\ d2h # <<>> /\ l \in Nat /\ d2h \in Seq(Message)
        /\ h2d \in Seq(Message) /\ Len(d2h) \in Nat \ {0}
    BY <1>2, TailShape DEF HostTake, TypeOK, ChanOK
  <2>2. d2h' = Tail(d2h)
    BY <1>2 DEF HostTake
  <2>3. h2d' = IF m.type = "DMA_READ" THEN Append(h2d, Msg("READCOMP", m.of, 0)) ELSE h2d
    BY <1>2 DEF HostTake
  <2>4. Msg("READCOMP", m.of, 0) \in Message /\ Msg("READCOMP", m.of, 0).of = m.of
    <3> HIDE DEF m
    <3>1. m.of \in Threads /\ "READCOMP" \in Types /\ 0 \in Nat
      BY <2>1, Msgs DEF Types
    <3> QED
      BY <3>1, Msgs
  <2>5. \A t, k : Asked(t, k)' => Asked(t, k + 1) /\ k + 1 # 1 /\ k + 1 \in Nat
    BY <2>1, <2>2, TailShape DEF Asked
  <2>6. \A t, k : Answered(t, k)' => Answered(t, k) \/ Asked(t, 1)
    BY <2>1, <2>3, <2>4, AppendShape DEF Answered, Asked
  <2>7. \A t, k : Answered(t, k)' /\ ~Answered(t, k) => k = l
    BY <2>1, <2>3, <2>4, AppendShape DEF Answered
  <2>8. \A t, k, type : UsedQ(t, k)' = UsedQ(t, k) /\ Waiting(t, type)' = Waiting(t, type)
    BY <1>2 DEF HostTake, UsedQ, InQ, Waiting, Now, q2sbVars
  <2>9. q2sb' = q2sb
    BY <1>2 DEF HostTake, q2sbVars
  <2> HIDE DEF m, l
  <2>10. \A i, j \in Nat : i + 1 = j + 1 => i = j
    OBVIOUS
  <2> SUFFICES ASSUME NEW t \in Threads PROVE Alive(t)'
    OBVIOUS
  <2>11. Alive(t) /\ 1 \in Nat
    OBVIOUS
  <2>12. QSlots' = QSlots
    OBVIOUS
  <2> HIDE DEF QSlots
  <2>13. \A k \in Nat : Asked(t, k)' => Waiting(t, "DMA_READ")'
    BY <2>5, <2>8, <2>11 DEF Alive
  <2>14. \A k \in Nat : Answered(t, k)' => Waiting(t, "DMA_READ")'
    BY <2>6, <2>8, <2>11 DEF Alive
  <2>15. \A i \in QSlots : UsedQ(t, i)' => Waiting(t, q2sb[i].msg.type)'
    BY <2>8, <2>9, <2>11 DEF Alive
  <2>16. \A i, j \in Nat : Asked(t, i)' /\ Asked(t, j)' => i = j
    BY <2>5, <2>10, <2>11 DEF Alive
  <2>17. \A i, j \in Nat : Answered(t, i)' /\ Answered(t, j)' => i = j
    BY <2>6, <2>7, <2>11 DEF Alive
  <2>18. \A i \in QSlots, j \in Nat : UsedQ(t, i)' => ~Asked(t, j)' /\ ~Answered(t, j)'
    BY <2>5, <2>6, <2>8, <2>11 DEF Alive
  <2>19. \A i, j \in Nat : ~(Asked(t, i)' /\ Answered(t, j)')
    BY <2>5, <2>6, <2>11 DEF Alive
  <2>20. \A i, j \in QSlots : UsedQ(t, i)' /\ UsedQ(t, j)' => i = j
    BY <2>8, <2>11 DEF Alive
  <2> QED
    BY <2>9, <2>12, <2>13, <2>14, <2>15, <2>16, <2>17, <2>18, <2>19, <2>20 DEF Alive
<1> QED
  BY <1>1, <1>2

(* The SimBricks thread takes a message of the host.                       *)
LEMMA PollAlive ==
  ASSUME TypeOK, \A t \in Threads : Alive(t), SbPoll
  PROVE  \A t \in Threads : Alive(t)'
<1> DEFINE m == Head(h2d)
<1>1. m = h2d[1] /\ m \in Message /\ h2d \in Seq(Message) /\ Len(h2d) \in Nat \ {0} /\ h2d # <<>>
  BY TailShape DEF SbPoll, TypeOK, ChanOK
<1>2. \A t, i : UsedQ(t, i)' = UsedQ(t, i) /\ q2sb' = q2sb
  BY DEF SbPoll, UsedQ, InQ, q2sbVars
<1>3. CASE m.type = "READCOMP"
  <2>1. h2d' = Tail(h2d) /\ d2h' = d2h /\ thr' = thr /\ op_ready' = [op_ready EXCEPT ![m.of] = TRUE]
    BY <1>3 DEF SbPoll
  <2>2. m.of \in Threads /\ Answered(m.of, 1) /\ 1 \in Nat
    BY <1>1, <1>3, Msgs DEF Answered
  <2>3. \A t, k : Answered(t, k)' => Answered(t, k + 1) /\ k + 1 \in Nat /\ k + 1 # 1
    BY <1>1, <2>1, TailShape DEF Answered
  <2>4. \A t, k : Asked(t, k)' = Asked(t, k)
    BY <2>1 DEF Asked
  <2>5. \A t \in Threads : t # m.of => \A type : Waiting(t, type)' = Waiting(t, type)
    BY <2>1 DEF Waiting, Now, TypeOK, RestOK
  <2> HIDE DEF m
  <2> SUFFICES ASSUME NEW t \in Threads PROVE Alive(t)'
    OBVIOUS
  <2>6. CASE t = m.of
    <3>1. \A i \in QSlots : ~UsedQ(t, i)'
      BY <1>2, <2>2, <2>6 DEF Alive
    <3>2. \A k \in Nat : ~Asked(t, k)' /\ ~Answered(t, k)'
      BY <2>2, <2>3, <2>4, <2>6 DEF Alive
    <3> QED
      BY <3>1, <3>2, AliveEmpty
  <2>7. CASE t # m.of
    BY <1>2, <2>3, <2>4, <2>5, <2>7, AliveShift
  <2> QED
    BY <2>6, <2>7
<1>4. CASE m.type # "READCOMP"
  <2> DEFINE w == Msg("WRITECOMP", Main, 0)
  <2>1. h2d' = h2d /\ thr' = thr /\ op_ready' = op_ready
        /\ (d2h' = d2h \/ d2h' = Append(d2h, w)) /\ d2h \in Seq(Message)
    BY <1>4 DEF SbPoll, chanVars, TypeOK, ChanOK
  <2>2. w \in Message /\ w.type = "WRITECOMP"
    BY Consts, Msgs DEF Types
  <2> HIDE DEF w
  <2>3. \A t, k : Asked(t, k)' => Asked(t, k)
    BY <2>1, <2>2, AppendShape DEF Asked
  <2>4. \A t, k, type : Answered(t, k)' = Answered(t, k) /\ Waiting(t, type)' = Waiting(t, type)
    BY <2>1 DEF Answered, Waiting, Now
  <2> QED
    BY <1>2, <2>3, <2>4, AliveLess
<1> QED
  BY <1>3, <1>4

(* The SimBricks thread passes an access on, or has nothing to do.         *)
LEMMA PassAlive ==
  ASSUME TypeOK, \A t \in Threads : Alive(t), mmio_post \/ SbForward \/ SbNothing
  PROVE  \A t \in Threads : Alive(t)'
<1>1. ASSUME mmio_post PROVE \A t \in Threads : Alive(t)'
  <2>1. h2d' = Tail(h2d) /\ h2d # <<>> /\ h2d \in Seq(Message)
    BY <1>1 DEF mmio_post, TypeOK, ChanOK, Working
  <2>2. \A t, k : Answered(t, k)' => Answered(t, k + 1)
    BY <2>1, TailShape DEF Answered
  <2>3. \A t, k, type : /\ UsedQ(t, k)' = UsedQ(t, k) /\ Asked(t, k)' = Asked(t, k)
                        /\ Waiting(t, type)' = Waiting(t, type) /\ q2sb' = q2sb
    BY <1>1 DEF mmio_post, UsedQ, InQ, Asked, Waiting, Now, q2sbVars
  <2> QED
    BY <2>2, <2>3, AliveShift
<1>2. ASSUME SbForward \/ SbNothing PROVE \A t \in Threads : Alive(t)'
  <2>1. \A t, i : UsedQ(t, i)' => UsedQ(t, i)
    BY <1>2 DEF SbForward, SbNothing, DeviceTurn, UsedQ, InQ, q2sbVars
  <2>2. \A t, k, type : /\ Answered(t, k)' = Answered(t, k) /\ Asked(t, k)' = Asked(t, k)
                        /\ Waiting(t, type)' = Waiting(t, type) /\ q2sb' = q2sb
    BY <1>2 DEF SbForward, SbNothing, Answered, Asked, Waiting, Now, q2sbVars, chanVars
  <2> QED
    BY <2>1, <2>2, AliveLess
<1> QED
  BY <1>1, <1>2

(* The caller of a DMA write is released.                                  *)
LEMMA CopiedAlive ==
  ASSUME TypeOK, \A t \in Threads : Alive(t), SbCopied
  PROVE  \A t \in Threads : Alive(t)'
<1> DEFINE u == Forwarded.of
<1>1. /\ q2sb_head \in QSlots /\ q2sb[q2sb_head].ready /\ Forwarded \in Message
      /\ Forwarded.type = "DMA_WRITE"
  BY DEF SbCopied, TypeOK, Working, Q2sbOK, Array, Forwarded
<1>2. u \in Threads /\ UsedQ(u, q2sb_head)
  BY <1>1, Msgs DEF UsedQ, InQ, SbCopied, Forwarded, Dma
<1>3. \A t, i : UsedQ(t, i)' => UsedQ(t, i) /\ i # q2sb_head
  BY <1>1 DEF SbCopied, UsedQ, InQ, q2sbVars, Forwarded
<1>4. \A t, k : Asked(t, k)' = Asked(t, k) /\ Answered(t, k)' = Answered(t, k)
                 /\ q2sb' = q2sb
  BY DEF SbCopied, Asked, Answered, chanVars, q2sbVars
<1>5. \A t \in Threads : t # u => \A type : Waiting(t, type)' = Waiting(t, type)
  BY DEF SbCopied, Waiting, Now, TypeOK, RestOK
<1> HIDE DEF u
<1> SUFFICES ASSUME NEW t \in Threads PROVE Alive(t)'
  OBVIOUS
<1>6. CASE t = u
  <2>1. \A i \in QSlots : ~UsedQ(t, i)'
    BY <1>1, <1>2, <1>3, <1>6 DEF Alive
  <2>2. \A k \in Nat : ~Asked(t, k)' /\ ~Answered(t, k)'
    BY <1>1, <1>2, <1>4, <1>6 DEF Alive
  <2> QED
    BY <2>1, <2>2, AliveEmpty
<1>7. CASE t # u
  BY <1>3, <1>4, <1>5, <1>7, AliveLess
<1> QED
  BY <1>6, <1>7

(* A message leaves the array for the host.                                *)
LEMMA SendAlive ==
  ASSUME TypeOK, \A t \in Threads : Alive(t), SbSend
  PROVE  \A t \in Threads : Alive(t)'
<1> DEFINE m == Forwarded
           l == Len(d2h) + 1
<1>1. /\ q2sb_head \in QSlots /\ q2sb[q2sb_head].ready /\ m \in Message /\ sb = "send"
      /\ m = q2sb[q2sb_head].msg
  BY DEF SbSend, TypeOK, Working, Q2sbOK, Array, Forwarded
<1>2. d2h' = Append(d2h, m) /\ h2d' = h2d /\ thr' = thr /\ op_ready' = op_ready
      /\ sb' = "poll" /\ d2h \in Seq(Message) /\ l \in Nat
  BY DEF SbSend, TypeOK, ChanOK
<1>3. ~q2sb'[q2sb_head].ready /\ \A i \in QSlots : i # q2sb_head => q2sb'[i] = q2sb[i]
  BY <1>1, Slot DEF SbSend, TypeOK, Q2sbOK, Array
<1> HIDE DEF m, l
<1>4. \A t, i : UsedQ(t, i)' => i # q2sb_head /\ UsedQ(t, i) /\ q2sb'[i].msg.type = q2sb[i].msg.type
  BY <1>2, <1>3 DEF UsedQ, InQ
<1>5. \A t, k, type : Answered(t, k)' = Answered(t, k) /\ Waiting(t, type)' = Waiting(t, type)
  BY <1>2 DEF Answered, Waiting, Now
<1>6. \A t, k : Asked(t, k)' => Asked(t, k) \/ (k = l /\ m.type = "DMA_READ" /\ m.of = t)
  BY <1>1, <1>2, AppendShape DEF Asked, l
<1> SUFFICES ASSUME NEW t \in Threads PROVE Alive(t)'
  OBVIOUS
<1>7. CASE m.type = "DMA_READ" /\ m.of = t
  <2>1. UsedQ(t, q2sb_head) /\ Waiting(t, "DMA_READ")
    <3>1. UsedQ(t, q2sb_head)
      BY <1>1, <1>7 DEF UsedQ, InQ, Dma
    <3> QED
      BY <1>1, <1>7, <3>1 DEF Alive
  <2>2. \A i \in QSlots : ~UsedQ(t, i)'
    BY <1>1, <1>4, <2>1 DEF Alive
  <2>3. \A k \in Nat : ~Answered(t, k)' /\ (Asked(t, k)' => k = l)
    BY <1>1, <1>5, <1>6, <2>1 DEF Alive
  <2> QED
    BY <1>5, <2>1, <2>2, <2>3 DEF Alive
<1>8. CASE ~(m.type = "DMA_READ" /\ m.of = t)
  BY <1>4, <1>5, <1>6, <1>8, AliveLess
<1> QED
  BY <1>7, <1>8

(* The steps of a call.                                                    *)
LEMMA CallAlive ==
  ASSUME TypeOK, \A t \in Threads : Alive(t), NEW u \in Threads, ThreadStep(u)
  PROVE  \A t \in Threads : Alive(t)'
<1>0. /\ thr[u].todo \in Jobs(u) /\ thr[u].slot \in QSlots /\ ThreadsOK
  BY DEF TypeOK, ThreadsOK, ThreadOK
<1>1. ASSUME sb_op_alloc(u) \/ DmaReturn(u) \/ (u \in Pollers /\ event_notifier_set(u))
      PROVE  \A t \in Threads : Alive(t)'
  <2>1. SameUses
    BY <1>1 DEF sb_op_alloc, DmaReturn, event_notifier_set, SameUses, UsedQ, InQ, Asked, Answered,
         chanVars, q2sbVars
  <2>2. \A type : ~Waiting(u, type)
    BY <1>1 DEF sb_op_alloc, DmaReturn, event_notifier_set, Waiting, At
  <2>3. \E todo, pc, slot : Becomes(u, todo, pc, slot)
    BY <1>0, <1>1, Becoming DEF sb_op_alloc, DmaReturn, event_notifier_set
  <2>4. op_ready' = op_ready
    BY <1>1 DEF sb_op_alloc, DmaReturn, event_notifier_set
  <2>5. \A t \in Threads : t # u => \A type : Waiting(t, type) => Waiting(t, type)'
    BY <2>3, <2>4 DEF Becomes, Waiting, Now
  <2> QED
    BY <2>1, <2>2, <2>5, AliveThread
<1>2. ASSUME Fill(u) PROVE \A t \in Threads : Alive(t)'
  <2> DEFINE c == Now(u)
             s == thr[u].slot
  <2>1. /\ c.type \in {"DMA_READ", "DMA_WRITE", "INT", "NOTIFY", "MMIO_READ_COMP"}
        /\ c.type \in Dma => c.of = u
        /\ thr[u].todo # <<>> /\ thr[u].pc = "fill" /\ ~q2sb[s].ready
    BY <1>0, <1>2, JobShape DEF Fill, At, Now
  <2>2. /\ UNCHANGED <<h2d, d2h, q2sb_head, sb>>
        /\ \E v : q2sb' = [q2sb EXCEPT ![s] = Full(Msg(c.type, c.of, v))]
        /\ \/ /\ c.type \in Dma /\ thr' = [thr EXCEPT ![u].pc = "wait"]
              /\ op_ready' = [op_ready EXCEPT ![u] = FALSE]
           \/ c.type \notin Dma /\ Return(u) /\ op_ready' = op_ready
    BY <1>2, Zenon DEF Fill, chanVars
  <2>3. /\ \A i \in QSlots : i # s => q2sb'[i] = q2sb[i]
        /\ q2sb'[s].ready /\ q2sb'[s].msg.type = c.type /\ q2sb'[s].msg.of = c.of
    BY <1>0, <2>2, Msgs, Slot DEF TypeOK, Q2sbOK, Array
  <2>4. ~(s = q2sb_head /\ sb = "send")
    BY <2>1 DEF TypeOK, Working
  <2>5. \A type : ~Waiting(u, type)
    BY <2>1 DEF Waiting
  <2>6. \A t, k : Asked(t, k)' = Asked(t, k) /\ Answered(t, k)' = Answered(t, k)
    BY <2>2 DEF Asked, Answered
  <2>7. \A t, i : UsedQ(t, i)' =>
           \/ i # s /\ UsedQ(t, i) /\ q2sb'[i].msg.type = q2sb[i].msg.type
           \/ i = s /\ t = u /\ c.type \in Dma
    <3>1. \A t, i : i # s /\ UsedQ(t, i)' => UsedQ(t, i) /\ q2sb'[i].msg.type = q2sb[i].msg.type
      BY <2>2, <2>3 DEF UsedQ, InQ
    <3>2. \A t, i : i = s /\ UsedQ(t, i)' => t = u /\ c.type \in Dma
      BY <2>1, <2>3 DEF UsedQ, InQ
    <3> QED
      BY <3>1, <3>2
  <2>8. \E todo, pc, slot : Becomes(u, todo, pc, slot)
    BY <1>0, <2>2, Becoming
  <2>9. \A t \in Threads : t # u => \A type : Waiting(t, type) => Waiting(t, type)'
    BY <2>2, <2>8 DEF Becomes, Waiting, Now, TypeOK, RestOK
  <2>10. CASE c.type \notin Dma
    <3>1. SameUses
      BY <2>6, <2>7, <2>10 DEF SameUses
    <3> QED
      BY <2>5, <2>9, <3>1, AliveThread
  <2>11. CASE c.type \in Dma
    <3>1. Becomes(u, thr[u].todo, "wait", s) /\ op_ready' = [op_ready EXCEPT ![u] = FALSE]
      BY <1>0, <2>2, <2>11, Becoming
    <3> PICK type, slot : type = c.type /\ slot = s
      OBVIOUS
    <3>2. Waiting(u, type)'
      BY <2>1, <3>1 DEF Becomes, Waiting, Now, TypeOK, RestOK
    <3> SUFFICES ASSUME NEW t \in Threads PROVE Alive(t)'
      OBVIOUS
    <3>3. CASE t # u
      BY <2>6, <2>7, <2>9, <3>3, AliveLess
    <3>4. CASE t = u
      <4>1. /\ \A i \in QSlots : ~UsedQ(t, i)
            /\ \A k \in Nat : ~Asked(t, k) /\ ~Answered(t, k)
        BY <2>5, <3>4, AliveNone
      <4>2. \A i \in QSlots : UsedQ(t, i)' => i = slot /\ q2sb'[i].msg.type = type
        BY <2>3, <2>7, <4>1
      <4>3. \A k \in Nat : ~Asked(t, k)' /\ ~Answered(t, k)'
        BY <2>6, <4>1
      <4> QED
        BY <3>2, <3>4, <4>2, <4>3 DEF Alive
    <3> QED
      BY <3>3, <3>4
  <2> QED
    BY <2>10, <2>11
<1> QED
  BY <1>1, <1>2 DEF ThreadStep

(* The main loop, and a poller that starts.                                *)
LEMMA LoopAlive ==
  ASSUME TypeOK, \A t \in Threads : Alive(t),
         MainTake \/ MainDone \/ MainPoll \/ \E p \in Pollers : PollerStart(p)
  PROVE  \A t \in Threads : Alive(t)'
<1>1. SameUses
  BY DEF MainTake, MainDone, MainPoll, PollerStart, SameUses, UsedQ, InQ, Asked, Answered,
       chanVars, q2sbVars
<1>2. op_ready' = op_ready
  BY DEF MainTake, MainDone, MainPoll, PollerStart
<1>3. \/ thr' = thr
      \/ \E u \in Threads : thr[u].todo = <<>> /\ \E j : thr' = [thr EXCEPT ![u].todo = j]
  BY Consts DEF MainTake, MainDone, MainPoll, PollerStart, NotifierTurn, MainIdle
<1>4. CASE thr' = thr
  <2>1. \A t, type : Waiting(t, type) => Waiting(t, type)'
    BY <1>2, <1>4 DEF Waiting, Now
  <2> QED
    BY <1>1, <2>1, AliveLess DEF SameUses
<1>5. ASSUME NEW u \in Threads, thr[u].todo = <<>>, NEW j, thr' = [thr EXCEPT ![u].todo = j]
      PROVE  \A t \in Threads : Alive(t)'
  <2>1. \A type : ~Waiting(u, type)
    BY <1>5 DEF Waiting
  <2>2. \A t \in Threads : t # u => \A type : Waiting(t, type) => Waiting(t, type)'
    BY <1>2, <1>5 DEF Waiting, Now, TypeOK, ThreadsOK
  <2> QED
    BY <1>1, <2>1, <2>2, AliveThread
<1> QED
  BY <1>3, <1>4, <1>5

-----------------------------------------------------------------------------
(* The theorem *)

AliveInv == TypeOK /\ \A t \in Threads : Alive(t)

(* The invariant of DMA calls.                                             *)
THEOREM AliveInvariance == Spec => []AliveInv
<1>1. Init => AliveInv
  <2> SUFFICES ASSUME Init PROVE AliveInv
    OBVIOUS
  <2>1. TypeOK
    BY InitTypes
  <2>2. \A t, i : ~UsedQ(t, i) /\ ~Asked(t, i) /\ ~Answered(t, i)
    BY Slot DEF Init, UsedQ, InQ, Asked, Answered, QSlots
  <2> QED
    BY <2>1, <2>2 DEF AliveInv, Alive
<1>2. AliveInv /\ [Next]_vars => AliveInv'
  <2>1. ASSUME AliveInv, Next PROVE \A t \in Threads : Alive(t)'
    <3>1. SbStep => mmio_post \/ SbForward \/ SbNothing \/ SbPoll \/ SbCopied \/ SbSend
      BY DEF SbStep
    <3> QED
      BY <2>1, <3>1, NextSplit, HostAlive, PollAlive, PassAlive, CopiedAlive, SendAlive,
         CallAlive, LoopAlive DEF AliveInv
  <2>2. ASSUME AliveInv, UNCHANGED vars PROVE \A t \in Threads : Alive(t)'
    <3>1. SameUses
      BY <2>2 DEF vars, chanVars, q2sbVars, SameUses, UsedQ, InQ, Asked, Answered
    <3>2. \A t, type : Waiting(t, type) => Waiting(t, type)'
      BY <2>2 DEF vars, Waiting, Now
    <3> QED
      BY <2>2, <3>1, <3>2, AliveLess DEF AliveInv, SameUses
  <2> QED
    BY <2>1, <2>2, TypesKept DEF AliveInv
<1> QED
  BY <1>1, <1>2, PTL DEF Spec

(* pci_dma_read and pci_dma_write keep their dma_op on the stack; the      *)
(* SimBricks thread touches it in one place, while the caller waits for    *)
(* that.                                                                   *)
THEOREM OpAlwaysAlive == Spec => []OpAliveWhenUsed
<1>1. ASSUME AliveInv, NEW t \in Threads, NEW u \in Uses(t)
      PROVE  At(t, "wait") /\ ~op_ready[t] /\ Uses(t) = {u}
  <2>1. DOMAIN q2sb = QSlots /\ DOMAIN d2h = 1 .. Len(d2h) /\ DOMAIN h2d = 1 .. Len(h2d)
        /\ Len(d2h) \in Nat /\ Len(h2d) \in Nat
    BY <1>1 DEF AliveInv, TypeOK, ChanOK, Q2sbOK, Array
  <2>2. \A v : v \in Uses(t) <=>
          \/ \E i : v = <<"q2sb", i>> /\ i \in QSlots /\ UsedQ(t, i)
          \/ \E k : v = <<"d2h", k>> /\ k \in Nat /\ Asked(t, k)
          \/ \E k : v = <<"h2d", k>> /\ k \in Nat /\ Answered(t, k)
    BY <2>1 DEF Uses, UsedQ, InQ, Asked, Answered
  <2>3. Alive(t)
    BY <1>1 DEF AliveInv
  <2>4. \E type : Waiting(t, type)
    BY <1>1, <2>2, <2>3 DEF Alive
  <2>5. \A v \in Uses(t) : v = u
    BY <1>1, <2>2, <2>3 DEF Alive
  <2> QED
    BY <1>1, <2>4, <2>5 DEF Waiting, At
<1>2. AliveInv => OpAliveWhenUsed
  BY <1>1 DEF OpAliveWhenUsed
<1> QED
  BY <1>2, AliveInvariance, PTL

-----------------------------------------------------------------------------
(* Completion entries and interrupts *)

\* The data of a DMA write of thread t: in the channel, or about to be.
Written(t, k) == k \in 1 .. Len(d2h) /\ d2h[k].type = "DMA_WRITE" /\ d2h[k].of = t
Sending(t)    == sb = "send" /\ Forwarded.type = "DMA_WRITE" /\ Forwarded.of = t
OnItsWay(t)   == Sending(t) \/ \E k \in Nat : Written(t, k)

Doing(t, type) == thr[t].todo # <<>> /\ Now(t).type = type
Done(t)        == thr[t].pc = "wait" /\ op_ready[t]

\* Thread t has written an entry that it has not announced.
Wrote(t) ==
  \/ Doing(t, "DMA_WRITE") /\ Done(t)
  \/ Doing(t, "NOTIFY")
  \/ Doing(t, "INT") /\ Now(t).of = t

\* The submission entry that thread t has read, or will read, came back
\* behind the completion entry it wrote before.
NothingLeft(t) ==
  \/ Doing(t, "DMA_WRITE") /\ ~Done(t)
  \/ Doing(t, "DMA_READ") /\ Done(t)
  \/ \E k \in Nat : Answered(t, k)

Unsaid(t)  == IF Wrote(t) THEN 1 ELSE 0
Reached(t) == host.arrived[t] + IF OnItsWay(t) THEN 1 ELSE 0

\* Interrupts that announce v entries of thread t.
Raised(t, i, v) == /\ i \in QSlots /\ q2sb[i].ready /\ q2sb[i].msg.type = "INT"
                   /\ q2sb[i].msg.of = t /\ q2sb[i].msg.val = v
Coming(t, k, v) == /\ k \in 1 .. Len(d2h) /\ d2h[k].type = "INT"
                   /\ d2h[k].of = t /\ d2h[k].val = v

Announced(t) ==
  /\ notified[t] + Unsaid(t) = Reached(t)
  /\ NothingLeft(t) => ~OnItsWay(t)
  /\ \A j, k \in Nat : Written(t, j) /\ Asked(t, k) => j < k
  /\ \A k \in Nat : Sending(t) => ~Asked(t, k) /\ ~Written(t, k)
  /\ \A j, k \in Nat : Written(t, j) /\ Written(t, k) => j = k
  /\ \A i \in QSlots, v \in Nat : Raised(t, i, v) => v <= Reached(t)
  /\ \A k, v \in Nat : Coming(t, k, v) =>
       \/ v <= host.arrived[t]
       \/ v = host.arrived[t] + 1 /\ \E j \in Nat : j < k /\ Written(t, j)

(* A step that leaves the entries of t where they are, and announces at     *)
(* most what has been announced before.                                    *)
LEMMA AnnouncedKept ==
  ASSUME NEW t \in Threads, Announced(t),
         host'.arrived = host.arrived,
         notified'[t] + Unsaid(t)' = notified[t] + Unsaid(t),
         Sending(t)' = Sending(t), \A k \in Nat : Written(t, k)' = Written(t, k),
         NothingLeft(t)' => NothingLeft(t),
         \A k \in Nat : Asked(t, k)' => Asked(t, k),
         \A i \in QSlots, v \in Nat : Raised(t, i, v)' => Raised(t, i, v) \/ v <= Reached(t),
         \A k, v \in Nat : Coming(t, k, v)' => Coming(t, k, v)
  PROVE  Announced(t)'
<1> QSlots' = QSlots
  OBVIOUS
<1> HIDE DEF QSlots
<1>1. OnItsWay(t)' = OnItsWay(t)
  BY DEF OnItsWay
<1>2. Reached(t)' = Reached(t)
  BY <1>1 DEF Reached
<1>3. notified'[t] + Unsaid(t)' = Reached(t)'
  BY <1>2 DEF Announced
<1>4. NothingLeft(t)' => ~OnItsWay(t)'
  BY <1>1 DEF Announced
<1>5. \A i \in QSlots, v \in Nat : Raised(t, i, v)' => v <= Reached(t)'
  BY <1>2 DEF Announced
<1>6. \A k, v \in Nat : Coming(t, k, v)' =>
       \/ v <= host'.arrived[t]
       \/ v = host'.arrived[t] + 1 /\ \E j \in Nat : j < k /\ Written(t, j)'
  BY DEF Announced
<1>7. /\ \A j, k \in Nat : Written(t, j)' /\ Asked(t, k)' => j < k
      /\ \A k \in Nat : Sending(t)' => ~Asked(t, k)' /\ ~Written(t, k)'
      /\ \A j, k \in Nat : Written(t, j)' /\ Written(t, k)' => j = k
  BY DEF Announced
<1> QED
  BY <1>3, <1>4, <1>5, <1>6, <1>7 DEF Announced

(* The host's steps.                                                       *)
LEMMA HostAnnounced ==
  ASSUME TypeOK, NEW t \in Threads, Announced(t),
         (\E type \in Access : HostMmio(type)) \/ HostTake
  PROVE  Announced(t)'
<1>1. ASSUME NEW type \in Access, HostMmio(type) PROVE Announced(t)'
  <2> DEFINE m == Msg(type, Main, host'.written)
  <2>1. host' \in Host /\ host'.arrived = host.arrived
    BY <1>1, HostSet DEF HostMmio, TypeOK, RestOK
  <2>2. m \in Message /\ m.type # "READCOMP"
    BY <2>1, Consts, Msgs DEF Host, Types, Access
  <2>3. h2d' = Append(h2d, m) /\ h2d \in Seq(Message)
    BY <1>1 DEF HostMmio, TypeOK, ChanOK
  <2> HIDE DEF m
  <2>4. \A k : Answered(t, k)' => Answered(t, k)
    BY <2>2, <2>3, AppendShape DEF Answered
  <2>5. UNCHANGED <<d2h, q2sbVars, sb, thr, op_ready, notified>>
    BY <1>1 DEF HostMmio
  <2>6. NothingLeft(t)' => NothingLeft(t)
    BY <2>4, <2>5 DEF NothingLeft, Doing, Done, Now
  <2>7. Unsaid(t)' = Unsaid(t) /\ Sending(t)' = Sending(t)
    BY <2>5 DEF Unsaid, Wrote, Doing, Done, Now, Sending, Forwarded, q2sbVars
  <2>8. \A k, v : /\ Written(t, k)' = Written(t, k) /\ Asked(t, k)' = Asked(t, k)
                  /\ Raised(t, k, v)' = Raised(t, k, v) /\ Coming(t, k, v)' = Coming(t, k, v)
    BY <2>5 DEF Written, Asked, Raised, Coming, q2sbVars
  <2> QED
    BY <2>1, <2>5, <2>6, <2>7, <2>8, AnnouncedKept
<1>2. ASSUME HostTake PROVE Announced(t)'
  <2> DEFINE m == Head(d2h)
  <2>1. m = d2h[1] /\ m \in Message /\ d2h # <<>> /\ d2h \in Seq(Message)
        /\ h2d \in Seq(Message) /\ Len(d2h) \in Nat \ {0} /\ d2h' = Tail(d2h)
    BY <1>2, TailShape DEF HostTake, TypeOK, ChanOK
  <2>2. h2d' = IF m.type = "DMA_READ" THEN Append(h2d, Msg("READCOMP", m.of, 0)) ELSE h2d
    BY <1>2 DEF HostTake
  <2>3. m.of \in Threads /\ Msg("READCOMP", m.of, 0) \in Message
        /\ Msg("READCOMP", m.of, 0).of = m.of /\ m.val \in Nat
    <3> HIDE DEF m
    <3>1. m.of \in Threads /\ m.val \in Nat /\ "READCOMP" \in Types /\ 0 \in Nat
      BY <2>1, Msgs DEF Types
    <3> QED
      BY <3>1, Msgs
  <2>4. \A k : Answered(t, k)' => Answered(t, k) \/ Asked(t, 1)
    BY <2>1, <2>2, <2>3, AppendShape DEF Answered, Asked
  <2>5. UNCHANGED <<q2sbVars, sb, thr, op_ready, notified>>
    BY <1>2 DEF HostTake
  <2>6. host.arrived \in [Threads -> Nat]
        /\ host'.arrived[t] = host.arrived[t] + IF Written(t, 1) THEN 1 ELSE 0
    <3>1. host.arrived \in [Threads -> Nat]
      BY DEF TypeOK, RestOK, Host
    <3>2. CASE m.type = "DMA_WRITE"
      <4>1. host' = [host EXCEPT !.arrived[m.of] = @ + 1]
        BY <1>2, <3>2 DEF HostTake
      <4>2. host'.arrived = [host.arrived EXCEPT ![m.of] = @ + 1]
        BY <2>3, <4>1, HostSet DEF TypeOK, RestOK
      <4>3. Written(t, 1) <=> m.of = t
        BY <2>1, <3>2 DEF Written
      <4> QED
        BY <3>1, <4>2, <4>3
    <3>3. CASE m.type # "DMA_WRITE"
      <4>1. host'.arrived = host.arrived
        BY <1>2, <2>3, <3>3, HostSet DEF HostTake, TypeOK, RestOK
      <4>2. ~Written(t, 1)
        BY <2>1, <3>3 DEF Written
      <4> QED
        BY <3>1, <4>1, <4>2
    <3> QED
      BY <3>1, <3>2, <3>3
  <2>7. \A k \in Nat : k >= 1 =>
          /\ Written(t, k)' = Written(t, k + 1) /\ Asked(t, k)' = Asked(t, k + 1)
    BY <2>1, TailShape DEF Written, Asked
  <2>8. \A k, v : Coming(t, k, v)' => Coming(t, k + 1, v) /\ k \in Nat /\ k >= 1
    BY <2>1, TailShape DEF Coming
  <2>9. \A k : Written(t, k)' \/ Asked(t, k)' \/ Written(t, k) => k \in Nat /\ k >= 1
    BY <2>1, TailShape DEF Written, Asked
  <2>10. Unsaid(t)' = Unsaid(t) /\ Sending(t)' = Sending(t)
    BY <2>5 DEF Unsaid, Wrote, Doing, Done, Now, Sending, Forwarded, q2sbVars
  <2>11. \A k, v : Raised(t, k, v)' = Raised(t, k, v)
    BY <2>5 DEF Raised, q2sbVars
  <2>12. NothingLeft(t)' => NothingLeft(t) \/ Asked(t, 1)
    BY <2>4, <2>5 DEF NothingLeft, Doing, Done, Now
  <2> HIDE DEF m
  <2>13. CASE Written(t, 1)
    <3>1. ~Sending(t) /\ \A k \in Nat : Written(t, k) => k = 1
      BY <2>13 DEF Announced
    <3>2. OnItsWay(t) /\ ~OnItsWay(t)' /\ \A k : ~Written(t, k)'
      BY <2>7, <2>9, <2>10, <2>13, <3>1 DEF OnItsWay
    <3>3. Reached(t)' = Reached(t) /\ host'.arrived[t] = host.arrived[t] + 1
          /\ host.arrived[t] \in Nat
      BY <2>6, <2>13, <3>2 DEF Reached
    <3>4. \A k, v \in Nat : Coming(t, k, v)' => v <= host'.arrived[t]
      BY <2>8, <3>3 DEF Announced
    <3> QED
      BY <2>5, <2>10, <2>11, <3>1, <3>2, <3>3, <3>4 DEF Announced
  <2>14. CASE ~Written(t, 1)
    <3>1. (\E k \in Nat : Written(t, k)') <=> \E k \in Nat : Written(t, k)
      <4>1. ASSUME NEW k \in Nat, Written(t, k) PROVE \E j \in Nat : Written(t, j)'
        <5>1. k >= 1 /\ k # 1
          BY <2>9, <2>14, <4>1
        <5>2. k - 1 \in Nat /\ k - 1 >= 1 /\ (k - 1) + 1 = k
          BY <5>1
        <5> QED
          BY <2>7, <4>1, <5>2
      <4>2. ASSUME NEW k \in Nat, Written(t, k)' PROVE Written(t, k + 1) /\ k + 1 \in Nat
        BY <2>7, <2>9, <4>2
      <4> QED
        BY <4>1, <4>2
    <3>2. OnItsWay(t)' = OnItsWay(t)
      BY <2>10, <3>1 DEF OnItsWay
    <3>3. Reached(t)' = Reached(t) /\ host'.arrived[t] = host.arrived[t]
          /\ host.arrived[t] \in Nat
      BY <2>6, <2>14, <3>2 DEF Reached
    <3>4. ASSUME NEW k \in Nat, NEW v \in Nat, Coming(t, k, v)'
          PROVE  \/ v <= host'.arrived[t]
                 \/ v = host'.arrived[t] + 1 /\ \E j \in Nat : j < k /\ Written(t, j)'
      <4>1. k + 1 \in Nat /\ Coming(t, k + 1, v)
        BY <2>8, <3>4
      <4>2. ASSUME NEW j \in Nat, j < k + 1, Written(t, j) PROVE \E i \in Nat : i < k /\ Written(t, i)'
        <5>1. j >= 1 /\ j # 1
          BY <2>9, <2>14, <4>2
        <5>2. j - 1 \in Nat /\ j - 1 >= 1 /\ (j - 1) + 1 = j /\ j - 1 < k
          BY <4>2, <5>1
        <5> QED
          BY <2>7, <4>2, <5>2
      <4> QED
        BY <3>3, <4>1, <4>2 DEF Announced
    <3>5. \A j \in Nat : j + 1 \in Nat
      OBVIOUS
    <3>6. \A j, k \in Nat : (j + 1 < k + 1 => j < k) /\ (j + 1 = k + 1 => j = k)
      OBVIOUS
    <3>7. \A j, k \in Nat : Written(t, j)' /\ Asked(t, k)' => j < k
      BY <2>7, <2>9, <3>5, <3>6 DEF Announced
    <3>8. \A j, k \in Nat : Written(t, j)' /\ Written(t, k)' => j = k
      BY <2>7, <2>9, <3>5, <3>6 DEF Announced
    <3>9. \A k \in Nat : Sending(t)' => ~Asked(t, k)' /\ ~Written(t, k)'
      BY <2>7, <2>9, <2>10, <3>5 DEF Announced
    <3>10. NothingLeft(t)' => ~OnItsWay(t)'
      <4>1. ASSUME Asked(t, 1) PROVE ~OnItsWay(t)
        <5>1. \A j \in Nat : ~Written(t, j)
          <6>1. ASSUME NEW j \in Nat, Written(t, j) PROVE FALSE
            <7>1. j < 1 /\ j >= 1
              BY <2>9, <4>1, <6>1 DEF Announced
            <7> QED
              BY <7>1
          <6> QED
            BY <6>1
        <5> QED
          BY <4>1, <5>1 DEF Announced, OnItsWay
      <4> QED
        BY <2>12, <3>2, <4>1 DEF Announced
    <3>11. notified'[t] + Unsaid(t)' = Reached(t)'
      BY <2>5, <2>10, <3>3 DEF Announced
    <3>12. \A i \in QSlots, v \in Nat : Raised(t, i, v)' => v <= Reached(t)'
      BY <2>11, <3>3 DEF Announced
    <3> QED
      BY <3>4, <3>7, <3>8, <3>9, <3>10, <3>11, <3>12 DEF Announced
  <2> QED
    BY <2>13, <2>14
<1> QED
  BY <1>1, <1>2

(* The SimBricks thread takes a message of the host, passes it on, takes a *)
(* message of the device, or has nothing to do.                            *)
LEMMA PassAnnounced ==
  ASSUME TypeOK, NEW t \in Threads, Alive(t), Announced(t),
         SbPoll \/ mmio_post \/ SbForward \/ SbNothing
  PROVE  Announced(t)'
<1>1. /\ UNCHANGED <<q2sbVars, thr, notified, host>>
      /\ ~(sb' = "send" /\ Forwarded.type = "DMA_WRITE") /\ sb # "send"
  BY DEF SbPoll, mmio_post, SbForward, SbNothing, DeviceTurn, hostVars
<1>2. Sending(t)' = Sending(t)
  BY <1>1 DEF Sending, Forwarded, q2sbVars
<1>3. \A k, v : Raised(t, k, v)' = Raised(t, k, v)
  BY <1>1 DEF Raised, q2sbVars
<1>4. \/ d2h' = d2h
      \/ d2h' = Append(d2h, Msg("WRITECOMP", Main, 0))
  BY DEF SbPoll, mmio_post, SbForward, SbNothing, chanVars
<1>5. \A k, v : /\ Written(t, k)' = Written(t, k) /\ Asked(t, k)' = Asked(t, k)
                /\ Coming(t, k, v)' = Coming(t, k, v)
  <2> DEFINE w == Msg("WRITECOMP", Main, 0)
  <2>1. w \in Message /\ w.type = "WRITECOMP" /\ d2h \in Seq(Message)
    BY Consts, Msgs DEF Types, TypeOK, ChanOK
  <2>2. d2h' = d2h \/ d2h' = Append(d2h, w)
    BY <1>4
  <2> HIDE DEF w
  <2> QED
    BY <2>1, <2>2, AppendShape DEF Written, Asked, Coming
<1>6. (NothingLeft(t)' => NothingLeft(t)) /\ Wrote(t)' = Wrote(t)
  <2>1. CASE op_ready' = op_ready
    <3>1. \A k \in Nat : Answered(t, k)' => \E j \in Nat : Answered(t, j)
      <4>1. h2d' = h2d \/ (h2d' = Tail(h2d) /\ h2d # <<>> /\ h2d \in Seq(Message))
        BY DEF SbPoll, mmio_post, SbForward, SbNothing, chanVars, TypeOK, ChanOK, Working
      <4>2. CASE h2d' = h2d
        BY <4>2 DEF Answered
      <4>3. CASE h2d' = Tail(h2d) /\ h2d # <<>> /\ h2d \in Seq(Message)
        <5>1. \A k \in Nat : Answered(t, k)' => Answered(t, k + 1) /\ k + 1 \in Nat
          BY <4>3, TailShape DEF Answered
        <5> QED
          BY <5>1
      <4> QED
        BY <4>1, <4>2, <4>3
    <3> QED
      BY <1>1, <2>1, <3>1 DEF NothingLeft, Wrote, Doing, Done, Now
  <2>2. CASE op_ready' # op_ready
    <3> DEFINE m == Head(h2d)
    <3>1. /\ m.type = "READCOMP" /\ op_ready' = [op_ready EXCEPT ![m.of] = TRUE]
          /\ h2d' = Tail(h2d) /\ h2d # <<>> /\ h2d \in Seq(Message)
      BY <2>2 DEF SbPoll, mmio_post, SbForward, SbNothing, TypeOK, ChanOK
    <3>2. m = h2d[1] /\ Len(h2d) \in Nat \ {0}
      BY <3>1, TailShape
    <3>3. Answered(m.of, 1) /\ 1 \in Nat
      BY <3>1, <3>2 DEF Answered
    <3>4. \A k \in Nat : Answered(t, k)' => Answered(t, k + 1) /\ k + 1 \in Nat
      BY <3>1, TailShape DEF Answered
    <3> HIDE DEF m
    <3>5. CASE m.of = t
      <4>1. Waiting(t, "DMA_READ")
        BY <3>3, <3>5 DEF Alive
      <4>2. NothingLeft(t)
        BY <3>3, <3>5 DEF NothingLeft
      <4>3. Wrote(t)' = Wrote(t)
        BY <1>1, <4>1 DEF Wrote, Doing, Done, Now, Waiting
      <4> QED
        BY <4>2, <4>3
    <3>6. CASE m.of # t
      <4>1. op_ready'[t] = op_ready[t]
        BY <3>1, <3>6 DEF TypeOK, RestOK
      <4> QED
        BY <1>1, <3>4, <4>1 DEF NothingLeft, Wrote, Doing, Done, Now
    <3> QED
      BY <3>5, <3>6
  <2> QED
    BY <2>1, <2>2
<1>7. notified'[t] + Unsaid(t)' = notified[t] + Unsaid(t) /\ host'.arrived = host.arrived
  BY <1>1, <1>6 DEF Unsaid
<1> QED
  BY <1>2, <1>3, <1>5, <1>6, <1>7, AnnouncedKept

(* The data of a DMA write is on its way once the caller is released.      *)
LEMMA CopiedAnnounced ==
  ASSUME TypeOK, NEW t \in Threads, Alive(t), Announced(t), SbCopied
  PROVE  Announced(t)'
<1>1. /\ q2sb_head \in QSlots /\ q2sb[q2sb_head].ready /\ Forwarded \in Message
      /\ Forwarded.type = "DMA_WRITE" /\ sb' = "send" /\ sb = "copy"
      /\ op_ready' = [op_ready EXCEPT ![Forwarded.of] = TRUE]
  BY DEF SbCopied, TypeOK, Working, Q2sbOK, Array, Forwarded
<1>2. UNCHANGED <<h2d, d2h, q2sb, q2sb_head, thr, notified, host>>
  BY DEF SbCopied, chanVars, q2sbVars, hostVars
<1>3. \A k, v : /\ Written(t, k)' = Written(t, k) /\ Asked(t, k)' = Asked(t, k)
                /\ Answered(t, k)' = Answered(t, k)
                /\ Coming(t, k, v)' = Coming(t, k, v) /\ Raised(t, k, v)' = Raised(t, k, v)
  BY <1>2 DEF Written, Asked, Answered, Coming, Raised
<1>4. ~Sending(t) /\ (Sending(t)' <=> Forwarded.of = t)
  BY <1>1, <1>2 DEF Sending, Forwarded
<1>5. CASE Forwarded.of # t
  <2>1. op_ready'[t] = op_ready[t]
    BY <1>1, <1>5 DEF TypeOK, RestOK
  <2>2. (NothingLeft(t)' => NothingLeft(t)) /\ Unsaid(t)' = Unsaid(t)
    BY <1>2, <1>3, <2>1 DEF NothingLeft, Unsaid, Wrote, Doing, Done, Now
  <2>3. Sending(t)' = Sending(t)
    BY <1>4, <1>5 DEF Sending
  <2> QED
    BY <1>2, <1>3, <2>2, <2>3, AnnouncedKept
<1>6. CASE Forwarded.of = t
  <2>1. UsedQ(t, q2sb_head)
    BY <1>1, <1>6 DEF UsedQ, InQ, Forwarded, Dma
  <2>2. Waiting(t, "DMA_WRITE") /\ \A k \in Nat : ~Asked(t, k) /\ ~Answered(t, k)
    BY <1>1, <2>1 DEF Alive, Forwarded
  <2>3. ~Wrote(t) /\ NothingLeft(t)
    BY <2>2 DEF Wrote, NothingLeft, Doing, Done, Waiting
  <2>4. op_ready'[t] = TRUE
    BY <1>1, <1>6 DEF TypeOK, RestOK
  <2>5. Wrote(t)' /\ ~NothingLeft(t)'
    BY <1>2, <1>3, <2>2, <2>4 DEF Wrote, NothingLeft, Doing, Done, Waiting, Now
  <2>6. ~OnItsWay(t) /\ OnItsWay(t)' /\ Sending(t)'
    BY <1>4, <1>6, <2>3 DEF Announced, OnItsWay
  <2>7. \A k \in Nat : ~Written(t, k)
    BY <2>6 DEF OnItsWay
  <2>8. host.arrived[t] \in Nat /\ notified[t] \in Nat
    BY DEF TypeOK, RestOK, Host
  <2>9. Reached(t) = host.arrived[t] /\ Reached(t)' = host.arrived[t] + 1
        /\ Unsaid(t) = 0 /\ Unsaid(t)' = 1
    BY <1>2, <2>3, <2>5, <2>6, <2>8 DEF Reached, Unsaid
  <2>10. \A i \in QSlots, v \in Nat : Raised(t, i, v)' => v <= Reached(t)'
    BY <1>3, <2>8, <2>9 DEF Announced
  <2>11. notified'[t] + Unsaid(t)' = Reached(t)'
    BY <1>2, <2>8, <2>9 DEF Announced
  <2>12. \A k, v \in Nat : Coming(t, k, v)' => v <= host'.arrived[t]
    BY <1>2, <1>3, <2>7 DEF Announced
  <2> QED
    BY <1>3, <2>2, <2>5, <2>6, <2>7, <2>10, <2>11, <2>12 DEF Announced
<1> QED
  BY <1>5, <1>6

(* A message goes behind the entries sent before.                          *)
LEMMA SendAnnounced ==
  ASSUME TypeOK, NEW t \in Threads, Alive(t), Announced(t), SbSend
  PROVE  Announced(t)'
<1> DEFINE m == Forwarded
           l == Len(d2h) + 1
<1>1. /\ q2sb_head \in QSlots /\ q2sb[q2sb_head].ready /\ m \in Message /\ sb = "send"
      /\ m = q2sb[q2sb_head].msg /\ m.val \in Nat
  BY Msgs DEF SbSend, TypeOK, Working, Q2sbOK, Array, Forwarded
<1>2. d2h' = Append(d2h, m) /\ UNCHANGED <<h2d, thr, op_ready, notified, host>>
      /\ sb' = "poll" /\ d2h \in Seq(Message) /\ l \in Nat
  BY DEF SbSend, TypeOK, ChanOK, hostVars
<1>3. ~q2sb'[q2sb_head].ready /\ \A i \in QSlots : i # q2sb_head => q2sb'[i] = q2sb[i]
  BY <1>1, Slot DEF SbSend, TypeOK, Q2sbOK, Array
<1>4. Sending(t) <=> m.type = "DMA_WRITE" /\ m.of = t
  BY <1>1 DEF Sending
<1> HIDE DEF m
<1>5. \A k : Written(t, k)' <=> Written(t, k) \/ (k = l /\ Sending(t))
  BY <1>1, <1>2, <1>4, AppendShape DEF Written
<1>6. \A k : Asked(t, k)' <=> Asked(t, k) \/ (k = l /\ m.type = "DMA_READ" /\ m.of = t)
  BY <1>1, <1>2, AppendShape DEF Asked
<1>7. \A k, v : Coming(t, k, v)' => Coming(t, k, v) \/ (k = l /\ Raised(t, q2sb_head, v) /\ m.type = "INT")
  BY <1>1, <1>2, AppendShape DEF Coming, Raised
<1>8. \A k : Written(t, k) \/ Asked(t, k) => k \in Nat /\ k < l
  BY <1>2 DEF Written, Asked
<1>9. \A i, v : Raised(t, i, v)' => Raised(t, i, v)
  BY <1>3 DEF Raised
<1>10. ~Sending(t)'
  BY <1>2 DEF Sending
<1>11. Unsaid(t)' = Unsaid(t) /\ NothingLeft(t)' = NothingLeft(t)
  BY <1>2 DEF Unsaid, NothingLeft, Wrote, Doing, Done, Now, Answered
<1> HIDE DEF l
<1>12. OnItsWay(t)' = OnItsWay(t)
  BY <1>2, <1>5, <1>10 DEF OnItsWay
<1>13. Reached(t)' = Reached(t) /\ host' = host
  BY <1>2, <1>12 DEF Reached
<1>14. notified'[t] + Unsaid(t)' = Reached(t)' /\ (NothingLeft(t)' => ~OnItsWay(t)')
  BY <1>2, <1>11, <1>12, <1>13 DEF Announced
<1>15. \A j, k \in Nat : Written(t, j)' /\ Asked(t, k)' => j < k
  BY <1>4, <1>5, <1>6, <1>8 DEF Announced
<1>16. \A j, k \in Nat : Written(t, j)' /\ Written(t, k)' => j = k
  BY <1>5 DEF Announced
<1>17. \A i \in QSlots, v \in Nat : Raised(t, i, v)' => v <= Reached(t)'
  BY <1>9, <1>13 DEF Announced
<1>18. ASSUME NEW k \in Nat, NEW v \in Nat, Coming(t, k, v)'
       PROVE  \/ v <= host'.arrived[t]
              \/ v = host'.arrived[t] + 1 /\ \E j \in Nat : j < k /\ Written(t, j)'
  <2>1. CASE Coming(t, k, v)
    BY <1>5, <1>13, <2>1 DEF Announced
  <2>2. CASE k = l /\ Raised(t, q2sb_head, v) /\ m.type = "INT"
    <3>1. v <= Reached(t) /\ ~Sending(t)
      BY <1>1, <1>4, <2>2 DEF Announced
    <3>2. host.arrived[t] \in Nat
      BY DEF TypeOK, RestOK, Host
    <3>3. CASE OnItsWay(t)
      <4>1. v <= host.arrived[t] \/ v = host.arrived[t] + 1
        BY <3>1, <3>2, <3>3 DEF Reached
      <4>2. PICK j \in Nat : Written(t, j)
        BY <3>1, <3>3 DEF OnItsWay
      <4>3. j < k /\ Written(t, j)'
        BY <1>5, <1>8, <2>2, <4>2
      <4> QED
        BY <1>13, <4>1, <4>3
    <3>4. CASE ~OnItsWay(t)
      BY <1>13, <3>1, <3>2, <3>4 DEF Reached
    <3> QED
      BY <3>3, <3>4
  <2> QED
    BY <1>7, <1>18, <2>1, <2>2
<1> QED
  BY <1>10, <1>14, <1>15, <1>16, <1>17, <1>18 DEF Announced

(* A step of the threads that leaves the channel and the array alone.      *)
LEMMA QuietAnnounced ==
  ASSUME NEW t \in Threads, Announced(t),
         UNCHANGED <<h2d, d2h, q2sb, q2sb_head, sb, host>>,
         notified'[t] + Unsaid(t)' = notified[t] + Unsaid(t),
         NothingLeft(t)' => NothingLeft(t)
  PROVE  Announced(t)'
<1>1. host'.arrived = host.arrived
  OBVIOUS
<1>2. \A k, v : /\ Written(t, k)' = Written(t, k) /\ Asked(t, k)' = Asked(t, k)
                /\ Coming(t, k, v)' = Coming(t, k, v) /\ Raised(t, k, v)' = Raised(t, k, v)
  BY DEF Written, Asked, Coming, Raised
<1>3. Sending(t)' = Sending(t)
  BY DEF Sending, Forwarded
<1> QED
  BY <1>1, <1>2, <1>3, AnnouncedKept

(* A call of another thread, or of none, changes nothing of t's.           *)
LEMMA OtherThread ==
  ASSUME NEW t, thr'[t] = thr[t], op_ready'[t] = op_ready[t], h2d' = h2d
  PROVE  Unsaid(t)' = Unsaid(t) /\ (NothingLeft(t)' => NothingLeft(t))
BY DEF Unsaid, NothingLeft, Wrote, Doing, Done, Now, Answered

(* The steps of a call but for the filling of a slot.                      *)
LEMMA CallAnnounced ==
  ASSUME TypeOK, NEW t \in Threads, Alive(t), Announced(t), NEW u \in Threads,
         sb_op_alloc(u) \/ DmaReturn(u) \/ (u \in Pollers /\ event_notifier_set(u))
  PROVE  Announced(t)'
<1>0. /\ thr[u].todo \in Jobs(u) /\ thr[u].todo # <<>> /\ ThreadsOK
      /\ notified \in [Threads -> Nat]
      /\ thr[u].pc = "wait" => Now(u).type \in Dma
  BY DEF sb_op_alloc, DmaReturn, event_notifier_set, At, TypeOK, ThreadsOK, ThreadOK, RestOK
<1>1. UNCHANGED <<h2d, d2h, q2sb, q2sb_head, sb, host, op_ready>>
  BY DEF sb_op_alloc, DmaReturn, event_notifier_set, chanVars, q2sbVars, hostVars
<1>2. CASE t # u
  <2>1. thr'[t] = thr[t]
    BY <1>0, <1>2, Becoming DEF sb_op_alloc, DmaReturn, event_notifier_set, Becomes
  <2>2. notified'[t] = notified[t]
    BY <1>0, <1>2 DEF sb_op_alloc, DmaReturn, event_notifier_set
  <2> QED
    BY <1>1, <2>1, <2>2, OtherThread, QuietAnnounced
<1>3. CASE t = u /\ sb_op_alloc(u)
  <2>1. thr'[t].todo = thr[t].todo /\ thr[t].pc = "call" /\ thr'[t].pc = "fill" /\ notified' = notified
    <3>1. Becomes(u, thr[u].todo, "fill", q2sb_tail)
      BY <1>0, <1>3, Becoming DEF sb_op_alloc
    <3> QED
      BY <1>3, <3>1 DEF sb_op_alloc, At, Becomes
  <2>2. Unsaid(t)' = Unsaid(t) /\ (NothingLeft(t)' => NothingLeft(t))
    BY <1>1, <2>1 DEF Unsaid, NothingLeft, Wrote, Doing, Done, Now, Answered
  <2> QED
    BY <1>1, <2>1, <2>2, QuietAnnounced
<1>4. CASE t = u /\ DmaReturn(u)
  <2>1. thr'[t].todo = Tail(thr[t].todo) /\ thr'[t].pc = "call" /\ thr[t].pc = "wait" /\ op_ready[t]
        /\ notified' = notified
    <3>1. Becomes(u, Tail(thr[u].todo), "call", thr[u].slot)
      BY <1>0, <1>4, Becoming DEF DmaReturn
    <3> QED
      BY <1>4, <3>1 DEF DmaReturn, At, Becomes
  <2>2. \A type : ~Waiting(t, type)
    BY <2>1 DEF Waiting
  <2>3. \A k \in Nat : ~Answered(t, k)
    BY <2>2, AliveNone
  <2>4. \A k \in Nat : ~Answered(t, k)'
    BY <1>1, <2>3 DEF Answered
  <2>5. Now(t).type \in Dma /\ thr[t].todo # <<>> /\ thr[t].todo \in Jobs(t)
    BY <1>0, <1>4, <2>1
  <2>6. CASE Now(t).type = "DMA_READ"
    <3>1. Tail(thr[t].todo) # <<>> /\ Head(Tail(thr[t].todo)).type = "DMA_WRITE"
      BY <2>5, <2>6, JobShape DEF Now
    <3>2. NothingLeft(t) /\ ~Wrote(t)
      BY <2>1, <2>5, <2>6 DEF NothingLeft, Wrote, Doing, Done
    <3>3. ~Wrote(t)'
      BY <2>1, <3>1 DEF Wrote, Doing, Done, Now
    <3>4. Unsaid(t)' = Unsaid(t)
      BY <3>2, <3>3 DEF Unsaid
    <3> QED
      BY <1>1, <2>1, <3>2, <3>4, QuietAnnounced
  <2>7. CASE Now(t).type = "DMA_WRITE"
    <3>1. /\ Tail(thr[t].todo) # <<>> /\ Head(Tail(thr[t].todo)).of = t
          /\ Head(Tail(thr[t].todo)).type \in {"INT", "NOTIFY"}
      BY <2>5, <2>7, JobShape DEF Now
    <3>2. Wrote(t) /\ Wrote(t)'
      BY <2>1, <2>5, <2>7, <3>1 DEF Wrote, Doing, Done, Now
    <3>3. ~NothingLeft(t)'
      BY <2>1, <2>4, <3>1 DEF NothingLeft, Doing, Now
    <3>4. Unsaid(t)' = Unsaid(t)
      BY <3>2 DEF Unsaid
    <3> QED
      BY <1>1, <2>1, <3>3, <3>4, QuietAnnounced
  <2> QED
    BY <2>5, <2>6, <2>7 DEF Dma
<1>5. CASE t = u /\ u \in Pollers /\ event_notifier_set(u)
  <2>1. thr'[t].todo = Tail(thr[t].todo) /\ thr[t].pc = "call" /\ Now(t).type = "NOTIFY"
        /\ notified'[t] = notified[t] + 1
    <3>1. Becomes(u, Tail(thr[u].todo), "call", thr[u].slot)
      BY <1>0, <1>5, Becoming DEF event_notifier_set
    <3> QED
      BY <1>0, <1>5, <3>1 DEF event_notifier_set, At, Becomes
  <2>2. Tail(thr[t].todo) = <<>>
    BY <1>0, <1>5, <2>1, JobShape DEF Now, Dma
  <2>3. Wrote(t) /\ ~Wrote(t)'
    BY <1>0, <1>5, <2>1, <2>2 DEF Wrote, Doing
  <2>4. \A k \in Nat : ~Answered(t, k)'
    <3>1. \A type : ~Waiting(t, type)
      BY <2>1 DEF Waiting
    <3> QED
      BY <1>1, <3>1, AliveNone DEF Answered
  <2>5. ~NothingLeft(t)'
    BY <2>1, <2>2, <2>4 DEF NothingLeft, Doing
  <2>6. notified'[t] + Unsaid(t)' = notified[t] + Unsaid(t)
    BY <1>0, <2>1, <2>3 DEF Unsaid
  <2> QED
    BY <1>1, <2>5, <2>6, QuietAnnounced
<1> QED
  BY <1>2, <1>3, <1>4, <1>5

(* The main loop, and a poller that starts.                                *)
LEMMA LoopAnnounced ==
  ASSUME TypeOK, NEW t \in Threads, Alive(t), Announced(t),
         MainTake \/ MainDone \/ MainPoll \/ \E p \in Pollers : PollerStart(p)
  PROVE  Announced(t)'
<1>1. UNCHANGED <<h2d, d2h, q2sb, q2sb_head, sb, host, op_ready, notified>>
  BY DEF MainTake, MainDone, MainPoll, PollerStart, chanVars, q2sbVars, hostVars
<1>2. CASE thr'[t] = thr[t]
  BY <1>1, <1>2, OtherThread, QuietAnnounced
<1>3. ASSUME thr[t].todo = <<>>, thr'[t].pc = "call",
             thr'[t].todo # <<>> =>
               /\ Now(t)'.type \in {"DMA_READ", "MMIO_READ_COMP", "INT"}
               /\ Now(t)'.type = "INT" => Now(t)'.of # t
      PROVE  Announced(t)'
  <2>1. ~Wrote(t) /\ ~Wrote(t)'
    BY <1>3 DEF Wrote, Doing
  <2>2. \A k \in Nat : ~Answered(t, k)'
    <3>1. \A type : ~Waiting(t, type)
      BY <1>3 DEF Waiting
    <3> QED
      BY <1>1, <3>1, AliveNone DEF Answered
  <2>3. ~NothingLeft(t)'
    BY <1>3, <2>2 DEF NothingLeft, Doing, Done
  <2>4. Unsaid(t)' = Unsaid(t)
    BY <2>1 DEF Unsaid
  <2> QED
    BY <1>1, <2>3, <2>4, QuietAnnounced
<1>4. ASSUME NEW u \in Threads, NEW j, thr[u].todo = <<>>, thr' = [thr EXCEPT ![u].todo = j],
             j # <<>> => /\ Head(j).type \in {"DMA_READ", "MMIO_READ_COMP", "INT"}
                         /\ Head(j).type = "INT" => Head(j).of # u
      PROVE  Announced(t)'
  <2>1. Becomes(u, j, "call", thr[u].slot)
    BY <1>4, Becoming DEF TypeOK, ThreadsOK, ThreadOK
  <2>2. CASE t = u
    BY <1>3, <1>4, <2>1, <2>2 DEF Becomes, Now
  <2>3. CASE t # u
    BY <1>2, <2>1, <2>3 DEF Becomes
  <2> QED
    BY <2>2, <2>3
<1>5. CASE MainTake
  <2> DEFINE type == sb2q[sb2q_head].msg.type
  <2>1. type \in Access /\ thr[Main].todo = <<>> /\ thr' = [thr EXCEPT ![Main].todo = Handler(type)]
    BY <1>5 DEF MainTake, MainIdle, TypeOK, Sb2qOK
  <2> HIDE DEF type
  <2>2. Handler(type) # <<>> => Head(Handler(type)).type \in {"DMA_READ", "MMIO_READ_COMP"}
    BY <2>1, ShortTails DEF Handler, Access, Call
  <2> QED
    BY <1>4, <2>1, <2>2, Consts
<1>6. CASE MainDone
  BY <1>2, <1>6 DEF MainDone
<1>7. CASE MainPoll
  <2>1. CASE thr' = thr
    BY <1>2, <2>1
  <2>2. CASE scan \in Pollers /\ thr' = [thr EXCEPT ![Main].todo = <<Call("INT", scan)>>]
    <3>1. Head(<<Call("INT", scan)>>).type = "INT" /\ Head(<<Call("INT", scan)>>).of # Main
      BY <2>2, Consts, ShortTails DEF Call
    <3>2. thr[Main].todo = <<>>
      BY <1>7 DEF MainPoll, NotifierTurn, MainIdle
    <3> QED
      BY <1>4, <2>2, <3>1, <3>2, Consts
  <2> QED
    BY <1>7, <2>1, <2>2 DEF MainPoll
<1>8. ASSUME NEW p \in Pollers, PollerStart(p) PROVE Announced(t)'
  <2>1. Head(PollerJob(p)).type = "DMA_READ"
    BY ShortTails DEF PollerJob, Call
  <2> QED
    BY <1>4, <1>8, <2>1, Consts DEF PollerStart
<1> QED
  BY <1>5, <1>6, <1>7, <1>8

(* A message is put into the array; an interrupt announces what has been   *)
(* written.                                                                *)
LEMMA FillAnnounced ==
  ASSUME TypeOK, NEW t \in Threads, Alive(t), \A w \in Threads : Announced(w),
         NEW u \in Threads, Fill(u)
  PROVE  Announced(t)'
<1> DEFINE c == Now(u)
           s == thr[u].slot
           own == c.type = "INT" /\ c.of = Main
           told == IF own THEN [notified EXCEPT ![Main] = @ + 1] ELSE notified
           val == CASE c.type = "MMIO_READ_COMP" -> reg
                    [] c.type = "INT"            -> told[c.of]
                    [] OTHER                     -> 0
<1>0. /\ thr[u].todo \in Jobs(u) /\ thr[u].todo # <<>> /\ ThreadsOK /\ thr[u].pc = "fill"
      /\ notified \in [Threads -> Nat] /\ s \in QSlots /\ ~q2sb[s].ready
  BY DEF Fill, At, TypeOK, ThreadsOK, ThreadOK, RestOK
<1>1. /\ UNCHANGED <<h2d, d2h, q2sb_head, sb, host>>
      /\ q2sb' = [q2sb EXCEPT ![s] = Full(Msg(c.type, c.of, val))]
      /\ notified' = told
      /\ \/ /\ c.type \in Dma /\ thr' = [thr EXCEPT ![u].pc = "wait"]
            /\ op_ready' = [op_ready EXCEPT ![u] = FALSE]
         \/ c.type \notin Dma /\ Return(u) /\ op_ready' = op_ready
  BY Zenon DEF Fill, chanVars, hostVars
<1>2. /\ c.type \in {"DMA_READ", "DMA_WRITE", "INT", "NOTIFY", "MMIO_READ_COMP"}
      /\ c.type = "INT" => u = Main /\ c.of \in Threads
      /\ c.type \notin Dma => Tail(thr[u].todo) = <<>>
      /\ Main \in Threads
  BY <1>0, Consts, JobShape DEF Now
<1>3. ~(s = q2sb_head /\ sb \in {"copy", "send"})
  BY <1>0 DEF TypeOK, Working
<1>4. /\ \A i \in QSlots : i # s => q2sb'[i] = q2sb[i]
      /\ q2sb'[s].ready /\ q2sb'[s].msg = Msg(c.type, c.of, val)
  BY <1>0, <1>1, Slot DEF TypeOK, Q2sbOK, Array
<1>5. Sending(t)' = Sending(t)
  <2>1. CASE sb = "send"
    <3>1. q2sb'[q2sb_head] = q2sb[q2sb_head]
      BY <1>3, <1>4, <2>1 DEF TypeOK, Q2sbOK
    <3> QED
      BY <1>1, <3>1 DEF Sending, Forwarded
  <2>2. CASE sb # "send"
    BY <1>1, <2>2 DEF Sending
  <2> QED
    BY <2>1, <2>2
<1>6. \A k, v : /\ Written(t, k)' = Written(t, k) /\ Asked(t, k)' = Asked(t, k)
                /\ Coming(t, k, v)' = Coming(t, k, v)
  BY <1>1 DEF Written, Asked, Coming
<1>7. \A i, v : Raised(t, i, v)' => Raised(t, i, v) \/ (c.type = "INT" /\ c.of = t /\ v = val)
  BY <1>4, Msgs DEF Raised
<1>8. (NothingLeft(t)' => NothingLeft(t)) /\ notified'[t] + Unsaid(t)' = notified[t] + Unsaid(t)
  <2>1. CASE t # u
    <3>1. thr'[t] = thr[t]
      BY <1>0, <1>1, <2>1, Becoming DEF Becomes
    <3>2. op_ready'[t] = op_ready[t]
      BY <1>1, <2>1 DEF TypeOK, RestOK
    <3>3. notified'[t] = notified[t]
      BY <1>0, <1>1, <1>2, <2>1
    <3> QED
      BY <1>1, <3>1, <3>2, <3>3, OtherThread
  <2>2. CASE t = u /\ c.type \in Dma
    <3>1. thr'[t].todo = thr[t].todo /\ ~Done(t)' /\ notified' = notified
      <4>1. Becomes(u, thr[u].todo, "wait", thr[u].slot)
        BY <1>0, <1>1, <2>2, Becoming
      <4>2. thr'[t].todo = thr[t].todo
        BY <2>2, <4>1 DEF Becomes
      <4>3. op_ready'[t] = FALSE
        BY <1>1, <2>2 DEF TypeOK, RestOK
      <4>4. notified' = notified
        BY <1>1, <2>2 DEF Dma
      <4> QED
        BY <4>2, <4>3, <4>4 DEF Done
    <3>2. ~Done(t)
      BY <1>0, <2>2 DEF Done
    <3>3. NothingLeft(t)' => NothingLeft(t)
      BY <1>1, <3>1, <3>2 DEF NothingLeft, Doing, Now, Answered
    <3>4. Wrote(t)' = Wrote(t)
      BY <3>1, <3>2 DEF Wrote, Doing, Now
    <3> QED
      BY <3>1, <3>3, <3>4 DEF Unsaid
  <2>3. CASE t = u /\ c.type \notin Dma
    <3>1. thr'[t].todo = <<>> /\ op_ready' = op_ready
      <4>1. Becomes(u, Tail(thr[u].todo), "call", thr[u].slot) /\ op_ready' = op_ready
        BY <1>0, <1>1, <2>3, Becoming
      <4> QED
        BY <1>2, <2>3, <4>1 DEF Becomes
    <3>2. \A k \in Nat : ~Answered(t, k)'
      <4>1. \A type : ~Waiting(t, type)
        BY <1>0, <2>3 DEF Waiting
      <4> QED
        BY <1>1, <4>1, AliveNone DEF Answered
    <3>3. ~NothingLeft(t)' /\ ~Wrote(t)'
      BY <3>1, <3>2 DEF NothingLeft, Wrote, Doing
    <3>4. Wrote(t) <=> c.type = "NOTIFY" \/ (c.type = "INT" /\ c.of = t)
      BY <1>0, <2>3 DEF Wrote, Doing, Done, Dma
    <3>5. c.type # "NOTIFY"
      BY <1>0 DEF TypeOK, ThreadsOK, ThreadOK
    <3>6. notified'[t] = IF own THEN notified[t] + 1 ELSE notified[t]
      BY <1>0, <1>1, <1>2, <2>3
    <3>7. own <=> Wrote(t)
      BY <1>2, <2>3, <3>4, <3>5
    <3> QED
      BY <1>0, <3>3, <3>6, <3>7 DEF Unsaid
  <2> QED
    BY <2>1, <2>2, <2>3
<1>9. c.type = "INT" /\ c.of = t => val <= Reached(t)
  <2>1. ASSUME c.type = "INT", c.of = t PROVE val <= Reached(t)
    <3>1. val = told[t] /\ u = Main
      BY <1>2, <2>1
    <3>2. notified[t] + Unsaid(t) = Reached(t) /\ notified[t] \in Nat
      BY <1>0 DEF Announced
    <3>3. CASE t = Main
      <4>1. Wrote(t)
        BY <1>0, <2>1, <3>1, <3>3 DEF Wrote, Doing
      <4>2. val = notified[t] + 1
        BY <1>0, <2>1, <3>1, <3>3
      <4> QED
        BY <3>2, <4>1, <4>2 DEF Unsaid
    <3>4. CASE t # Main
      <4>1. val = notified[t]
        BY <2>1, <3>1, <3>4
      <4>2. Unsaid(t) \in {0, 1}
        BY DEF Unsaid
      <4> QED
        BY <3>2, <4>1, <4>2
    <3> QED
      BY <3>3, <3>4
  <2> QED
    BY <2>1
<1>10. \A i \in QSlots, v \in Nat : Raised(t, i, v)' => Raised(t, i, v) \/ v <= Reached(t)
  BY <1>7, <1>9
<1>11. host'.arrived = host.arrived /\ Announced(t)
  BY <1>1
<1> HIDE DEF c, val, told, own, s
<1> QED
  BY <1>5, <1>6, <1>8, <1>10, <1>11, AnnouncedKept

AnnouncedInv == AliveInv /\ \A t \in Threads : Announced(t)

(* The invariant of completion entries and interrupts.                     *)
THEOREM AnnouncedInvariance == Spec => []AnnouncedInv
<1>1. Init => \A t \in Threads : Announced(t)
  <2> SUFFICES ASSUME Init, NEW t \in Threads PROVE Announced(t)
    OBVIOUS
  <2>1. \A i, v : /\ ~Written(t, i) /\ ~Asked(t, i) /\ ~Answered(t, i)
                  /\ ~Coming(t, i, v) /\ ~Raised(t, i, v)
    BY Slot DEF Init, Written, Asked, Answered, Coming, Raised, QSlots
  <2>2. ~Sending(t) /\ ~Wrote(t)
    BY DEF Init, Sending, Wrote, Doing
  <2>3. ~OnItsWay(t)
    BY <2>1, <2>2 DEF OnItsWay
  <2>4. notified[t] = 0 /\ host.arrived[t] = 0
    BY DEF Init
  <2>5. notified[t] + Unsaid(t) = Reached(t)
    BY <2>2, <2>3, <2>4 DEF Unsaid, Reached
  <2> QED
    BY <2>1, <2>2, <2>3, <2>5 DEF Announced
<1>2. AnnouncedInv /\ [Next]_vars => \A t \in Threads : Announced(t)'
  <2> SUFFICES ASSUME AnnouncedInv, [Next]_vars, NEW t \in Threads PROVE Announced(t)'
    OBVIOUS
  <2>1. TypeOK /\ Alive(t) /\ Announced(t) /\ \A w \in Threads : Announced(w)
    BY DEF AnnouncedInv, AliveInv
  <2>2. CASE (\E type \in Access : HostMmio(type)) \/ HostTake
    BY <2>1, <2>2, HostAnnounced
  <2>3. CASE SbStep
    BY <2>1, <2>3, PassAnnounced, CopiedAnnounced, SendAnnounced DEF SbStep
  <2>4. CASE \E u \in Threads : ThreadStep(u)
    BY <2>1, <2>4, CallAnnounced, FillAnnounced DEF ThreadStep
  <2>5. CASE MainTake \/ MainDone \/ MainPoll \/ \E p \in Pollers : PollerStart(p)
    BY <2>1, <2>5, LoopAnnounced
  <2>6. CASE UNCHANGED vars
    <3>1. UNCHANGED <<h2d, d2h, q2sb, q2sb_head, sb, host, thr, op_ready, notified>>
      BY <2>6 DEF vars, chanVars, q2sbVars, hostVars
    <3> QED
      BY <2>1, <3>1, OtherThread, QuietAnnounced
  <2> QED
    BY <2>2, <2>3, <2>4, <2>5, <2>6, NextSplit
<1>3. Init /\ AliveInv => AnnouncedInv
  BY <1>1 DEF AnnouncedInv
<1>4. AnnouncedInv /\ AliveInv' /\ [Next]_vars => AnnouncedInv'
  BY <1>2 DEF AnnouncedInv
<1> QED
  BY <1>3, <1>4, AliveInvariance, PTL DEF Spec

(* Whatever an interrupt announces has reached the host before it, through *)
(* three threads and two arrays.                                           *)
THEOREM InterruptAlwaysAfterData == Spec => []InterruptAfterData
<1>1. ASSUME AnnouncedInv, d2h # <<>>, Head(d2h).type = "INT"
      PROVE  host.arrived[Head(d2h).of] >= Head(d2h).val
  <2> DEFINE t == Head(d2h).of
             v == Head(d2h).val
  <2>1. Head(d2h) = d2h[1] /\ Head(d2h) \in Message /\ Len(d2h) \in Nat \ {0}
    BY <1>1, TailShape DEF AnnouncedInv, AliveInv, TypeOK, ChanOK
  <2>2. t \in Threads /\ v \in Nat /\ Coming(t, 1, v)
    BY <1>1, <2>1, Msgs DEF Coming
  <2>3. \A j \in Nat : ~(j < 1 /\ Written(t, j))
    BY DEF Written
  <2>4. host.arrived[t] \in Nat
    BY <1>1, <2>2 DEF AnnouncedInv, AliveInv, TypeOK, RestOK, Host
  <2>5. Announced(t)
    BY <1>1, <2>2 DEF AnnouncedInv
  <2> HIDE DEF t, v
  <2>6. v <= host.arrived[t]
    BY <2>2, <2>3, <2>5 DEF Announced
  <2> QED
    BY <2>2, <2>4, <2>6 DEF t, v
<1>2. AnnouncedInv => InterruptAfterData
  BY <1>1 DEF InterruptAfterData
<1> QED
  BY <1>2, AnnouncedInvariance, PTL

-----------------------------------------------------------------------------
(* Register accesses *)

\* How far slot i is behind the head h, and the slot n behind it.
Behind(h, i) == IF i >= h THEN i - h ELSE i - h + SB2Q_SZ
Slotted(h, n) == IF h + n < SB2Q_SZ THEN h + n ELSE h + n - SB2Q_SZ

\* The full slots are those from the head to the tail.
RingOK ==
  \E n \in 0 .. SB2Q_SZ :
    /\ sb2q_tail = Slotted(sb2q_head, n)
    /\ \A i \in SbSlots : sb2q[i].ready <=> Behind(sb2q_head, i) < n

\* Access m has not been handled and is p-th in the array or the channel.
Posted(i) == sb2q[i].ready /\ ~(i = sb2q_head /\ main = "busy")

InSlot(p, m) == \E i \in SbSlots : p = Behind(sb2q_head, i) /\ Posted(i) /\ m = sb2q[i].msg
InChan(p, m) ==
  \E k \in 1 .. Len(h2d) : p = SB2Q_SZ + k /\ h2d[k].type \in Access /\ m = h2d[k]

Pending(p, m) == InSlot(p, m) \/ InChan(p, m)

\* An access and a later one; val is the number of writes up to it.
Before(a, b) ==
  /\ a.val <= b.val /\ (b.type = "WRITE" => a.val < b.val)
  /\ ~(a.type = "READ" /\ b.type = "READ")

\* Writes are handled in order, and those that are not handled are pending.
Orderly ==
  /\ reg <= host.written
  /\ \A p, q \in Nat, a, b \in Message : Pending(p, a) /\ Pending(q, b) /\ p < q => Before(a, b)
  /\ \A p \in Nat, a \in Message : Pending(p, a) =>
       /\ reg <= a.val /\ a.val <= host.written
       /\ a.type = "WRITE" => reg < a.val
       /\ a.type = "READ" => a.val = host.seen
  /\ \A v \in Nat : reg < v /\ v <= host.written =>
       \E p \in Nat, a \in Message : Pending(p, a) /\ a.type = "WRITE" /\ a.val = v

\* The places of a register read after that.
Reading     == \E p \in Nat, a \in Message : Pending(p, a) /\ a.type = "READ"
Replying    == Doing(Main, "MMIO_READ_COMP")
Replied(i)  == i \in QSlots /\ q2sb[i].ready /\ q2sb[i].msg.type = "MMIO_READ_COMP"
Returned(k) == k \in 1 .. Len(d2h) /\ d2h[k].type = "MMIO_READ_COMP"

\* It is in one of them, with the value the host saw.
OneRead ==
  /\ Reading => host.reading /\ ~Replying
  /\ Replying => host.reading /\ reg = host.seen
  /\ \A i \in QSlots : Replied(i) =>
       ~Reading /\ ~Replying /\ host.reading /\ q2sb[i].msg.val = host.seen
  /\ \A k \in Nat : Returned(k) =>
       ~Reading /\ ~Replying /\ host.reading /\ d2h[k].val = host.seen
  /\ \A i, j \in QSlots : Replied(i) /\ Replied(j) => i = j
  /\ \A j, k \in Nat : Returned(j) /\ Returned(k) => j = k
  /\ \A i \in QSlots, k \in Nat : ~(Replied(i) /\ Returned(k))

ReadInv == TypeOK /\ RingOK /\ Orderly /\ OneRead

(* Distances round the ring.                                               *)
LEMMA Round ==
  ASSUME NEW h \in SbSlots
  PROVE  /\ \A i \in SbSlots : Behind(h, i) \in 0 .. SB2Q_SZ - 1
         /\ \A i, j \in SbSlots : Behind(h, i) = Behind(h, j) => i = j
         /\ \A n \in 0 .. SB2Q_SZ - 1 : Slotted(h, n) \in SbSlots /\ Behind(h, Slotted(h, n)) = n
         /\ \A i \in SbSlots : Behind(h, i) = 0 <=> i = h
         /\ Slotted(h, SB2Q_SZ) = h
         /\ \A n \in 0 .. SB2Q_SZ - 1 : Inc(Slotted(h, n), SB2Q_SZ) = Slotted(h, n + 1)
         /\ Inc(h, SB2Q_SZ) \in SbSlots
         /\ \A n \in 1 .. SB2Q_SZ : Slotted(Inc(h, SB2Q_SZ), n - 1) = Slotted(h, n)
         /\ \A i \in SbSlots : Behind(Inc(h, SB2Q_SZ), i) =
                                 IF i = h THEN SB2Q_SZ - 1 ELSE Behind(h, i) - 1
<1>1. SB2Q_SZ \in Nat \ {0} /\ h \in 0 .. SB2Q_SZ - 1
  BY Consts DEF SbSlots
<1>2. \A i \in 0 .. SB2Q_SZ - 1 : Inc(i, SB2Q_SZ) = IF i + 1 = SB2Q_SZ THEN 0 ELSE i + 1
  <2>1. \A i \in 0 .. SB2Q_SZ - 1 : (i + 1) % SB2Q_SZ = IF i + 1 = SB2Q_SZ THEN 0 ELSE i + 1
    BY <1>1
  <2> QED
    BY <2>1 DEF Inc
<1>3. \A i \in SbSlots : Behind(h, i) \in 0 .. SB2Q_SZ - 1
  BY <1>1 DEF Behind, SbSlots
<1>4. \A i, j \in SbSlots : Behind(h, i) = Behind(h, j) => i = j
  BY <1>1 DEF Behind, SbSlots
<1>5. \A n \in 0 .. SB2Q_SZ - 1 : Slotted(h, n) \in SbSlots /\ Behind(h, Slotted(h, n)) = n
  BY <1>1 DEF Behind, Slotted, SbSlots
<1>6. \A i \in SbSlots : Behind(h, i) = 0 <=> i = h
  BY <1>1 DEF Behind, SbSlots
<1>7. Slotted(h, SB2Q_SZ) = h
  BY <1>1 DEF Slotted
<1>8. \A n \in 0 .. SB2Q_SZ - 1 : Inc(Slotted(h, n), SB2Q_SZ) = Slotted(h, n + 1)
  <2> SUFFICES ASSUME NEW n \in 0 .. SB2Q_SZ - 1
               PROVE  Inc(Slotted(h, n), SB2Q_SZ) = Slotted(h, n + 1)
    OBVIOUS
  <2>1. Slotted(h, n) \in 0 .. SB2Q_SZ - 1
    BY <1>5 DEF SbSlots
  <2>2. Inc(Slotted(h, n), SB2Q_SZ) = IF Slotted(h, n) + 1 = SB2Q_SZ THEN 0 ELSE Slotted(h, n) + 1
    BY <1>2, <2>1
  <2> QED
    BY <1>1, <2>2 DEF Slotted
<1>9. Inc(h, SB2Q_SZ) = (IF h + 1 = SB2Q_SZ THEN 0 ELSE h + 1)
  BY <1>1, <1>2
<1> DEFINE g == Inc(h, SB2Q_SZ)
<1>10. g \in SbSlots
  BY <1>1, <1>9 DEF SbSlots
<1>11. \A n \in 1 .. SB2Q_SZ : Slotted(g, n - 1) = Slotted(h, n)
  BY <1>1, <1>9 DEF Slotted
<1>12. \A i \in SbSlots : Behind(g, i) = IF i = h THEN SB2Q_SZ - 1 ELSE Behind(h, i) - 1
  BY <1>1, <1>9 DEF Behind, SbSlots
<1> QED
  BY <1>3, <1>4, <1>5, <1>6, <1>7, <1>8, <1>10, <1>11, <1>12

\* What is pending is what was, in the same order.
SamePending ==
  /\ \A p, q \in Nat, a, b \in Message : Pending(p, a)' /\ Pending(q, b)' /\ p < q =>
       \E p1, q1 \in Nat : Pending(p1, a) /\ Pending(q1, b) /\ p1 < q1
  /\ \A p \in Nat, a \in Message : Pending(p, a)' => \E p1 \in Nat : Pending(p1, a)
  /\ \A p \in Nat, a \in Message : Pending(p, a) => \E p1 \in Nat : Pending(p1, a)'

(* It is so when every access has a place it moved from, in order.         *)
LEMMA Moved ==
  ASSUME NEW F \in [Nat -> Nat],
         \A p \in Nat, a \in Message : Pending(p, a)' => Pending(F[p], a),
         \A p, q \in Nat, a, b \in Message :
           Pending(p, a)' /\ Pending(q, b)' /\ p < q => F[p] < F[q],
         \A p \in Nat, a \in Message : Pending(p, a) => \E q \in Nat : Pending(q, a)'
  PROVE  SamePending
<1>1. \A p \in Nat : F[p] \in Nat
  OBVIOUS
<1> QED
  BY <1>1, Zenon DEF SamePending

(* The order then stays, and the places of a read.                         *)
LEMMA OrderlyKept ==
  ASSUME Orderly, SamePending, reg' = reg,
         host'.written = host.written, host'.seen = host.seen
  PROVE  Orderly' /\ (Reading' <=> Reading)
<1>1. Reading' <=> Reading
  BY Zenon DEF Reading, SamePending
<1>2. \A p, q \in Nat, a, b \in Message : Pending(p, a)' /\ Pending(q, b)' /\ p < q => Before(a, b)'
  <2>1. \A a, b : Before(a, b)' = Before(a, b)
    BY DEF Before
  <2> QED
    BY <2>1, Zenon DEF Orderly, SamePending
<1>3. \A p \in Nat, a \in Message : Pending(p, a)' =>
       /\ reg' <= a.val /\ a.val <= host'.written
       /\ a.type = "WRITE" => reg' < a.val
       /\ a.type = "READ" => a.val = host'.seen
  <2> SUFFICES ASSUME NEW p \in Nat, NEW a \in Message, Pending(p, a)'
               PROVE  /\ reg' <= a.val /\ a.val <= host'.written
                      /\ a.type = "WRITE" => reg' < a.val
                      /\ a.type = "READ" => a.val = host'.seen
    OBVIOUS
  <2>1. PICK q \in Nat : Pending(q, a)
    BY DEF SamePending
  <2> QED
    BY <2>1 DEF Orderly
<1>4. \A v \in Nat : reg' < v /\ v <= host'.written =>
       \E p \in Nat, a \in Message : Pending(p, a)' /\ a.type = "WRITE" /\ a.val = v
  <2> SUFFICES ASSUME NEW v \in Nat, reg' < v, v <= host'.written
               PROVE  \E p \in Nat, a \in Message : Pending(p, a)' /\ a.type = "WRITE" /\ a.val = v
    OBVIOUS
  <2>1. PICK q \in Nat, a \in Message : Pending(q, a) /\ a.type = "WRITE" /\ a.val = v
    BY DEF Orderly
  <2> QED
    BY <2>1 DEF SamePending
<1> QED
  BY <1>1, <1>2, <1>3, <1>4 DEF Orderly

(* The places of the array are before those of the channel.                *)
LEMMA Places ==
  ASSUME TypeOK
  PROVE  /\ \A p, a : InSlot(p, a) => p \in 0 .. SB2Q_SZ - 1 /\ a \in Message
         /\ \A p, a : InChan(p, a) => p \in SB2Q_SZ + 1 .. SB2Q_SZ + Len(h2d) /\ a \in Message
         /\ \A p, a, b : Pending(p, a) /\ Pending(p, b) => a = b
         /\ SB2Q_SZ \in Nat /\ Len(h2d) \in Nat
<1>1. /\ sb2q_head \in SbSlots /\ SB2Q_SZ \in Nat \ {0} /\ h2d \in Seq(Message)
      /\ \A i \in SbSlots : sb2q[i].ready => sb2q[i].msg \in Message
  BY Consts DEF TypeOK, Sb2qOK, ChanOK, Array
<1>2. Len(h2d) \in Nat /\ \A k \in 1 .. Len(h2d) : h2d[k] \in Message
  BY <1>1
<1>3. ASSUME NEW p, NEW a, InSlot(p, a) PROVE p \in 0 .. SB2Q_SZ - 1 /\ a \in Message
  <2>1. PICK i \in SbSlots : p = Behind(sb2q_head, i) /\ sb2q[i].ready /\ a = sb2q[i].msg
    BY <1>3 DEF InSlot, Posted
  <2>2. Behind(sb2q_head, i) \in 0 .. SB2Q_SZ - 1
    BY <1>1, Round
  <2> QED
    BY <1>1, <2>1, <2>2
<1>4. ASSUME NEW p, NEW a, InChan(p, a)
      PROVE  p \in SB2Q_SZ + 1 .. SB2Q_SZ + Len(h2d) /\ a \in Message
  BY <1>1, <1>2, <1>4 DEF InChan
<1>5. ASSUME NEW p, NEW a, NEW b, InSlot(p, a), InSlot(p, b) PROVE a = b
  <2>1. PICK i \in SbSlots : p = Behind(sb2q_head, i) /\ a = sb2q[i].msg
    BY <1>5 DEF InSlot
  <2>2. PICK j \in SbSlots : p = Behind(sb2q_head, j) /\ b = sb2q[j].msg
    BY <1>5 DEF InSlot
  <2>3. \A u, w \in SbSlots : Behind(sb2q_head, u) = Behind(sb2q_head, w) => u = w
    BY <1>1, Round
  <2> QED
    BY <2>1, <2>2, <2>3
<1>6. ASSUME NEW p, NEW a, NEW b, InChan(p, a), InChan(p, b) PROVE a = b
  BY <1>1, <1>2, <1>6 DEF InChan
<1>7. ASSUME NEW p, NEW a, NEW b, InSlot(p, a), InChan(p, b) PROVE FALSE
  BY <1>1, <1>2, <1>3, <1>4, <1>7
<1> QED
  BY <1>1, <1>2, <1>3, <1>4, <1>5, <1>6, <1>7 DEF Pending

(* A message at the end of the channel.                                    *)
LEMMA ChanAppended ==
  ASSUME TypeOK, NEW m \in Message, h2d' = Append(h2d, m)
  PROVE  \A p, a : InChan(p, a)' <=>
           InChan(p, a) \/ (p = SB2Q_SZ + Len(h2d) + 1 /\ a = m /\ m.type \in Access)
<1>1. h2d \in Seq(Message) /\ SB2Q_SZ \in Nat
  BY Consts DEF TypeOK, ChanOK
<1> DEFINE h == Append(h2d, m)
<1>2. /\ Len(h) = Len(h2d) + 1 /\ Len(h2d) \in Nat /\ h[Len(h2d) + 1] = m
      /\ \A k \in 1 .. Len(h2d) : h[k] = h2d[k]
  BY <1>1, AppendShape
<1>3. h2d' = h
  OBVIOUS
<1> HIDE DEF h
<1>4. ASSUME NEW p, NEW a, InChan(p, a)'
      PROVE  InChan(p, a) \/ (p = SB2Q_SZ + Len(h2d) + 1 /\ a = m /\ m.type \in Access)
  <2>1. PICK k \in 1 .. Len(h) : p = SB2Q_SZ + k /\ h[k].type \in Access /\ a = h[k]
    BY <1>3, <1>4 DEF InChan
  <2> QED
    BY <1>1, <1>2, <2>1 DEF InChan
<1>5. ASSUME NEW p, NEW a, InChan(p, a) PROVE InChan(p, a)'
  <2>1. PICK k \in 1 .. Len(h2d) : p = SB2Q_SZ + k /\ h2d[k].type \in Access /\ a = h2d[k]
    BY <1>5 DEF InChan
  <2>2. k \in 1 .. Len(h) /\ h[k] = h2d[k]
    BY <1>2, <2>1
  <2> QED
    BY <1>3, <2>1, <2>2 DEF InChan
<1>6. ASSUME NEW p, p = SB2Q_SZ + Len(h2d) + 1, m.type \in Access PROVE InChan(p, m)'
  <2>1. Len(h2d) + 1 \in 1 .. Len(h)
    BY <1>2
  <2> QED
    BY <1>1, <1>2, <1>3, <1>6, <2>1 DEF InChan
<1> QED
  BY <1>4, <1>5, <1>6

(* The first message of the channel, and the channel without it.           *)
LEMMA ChanShifted ==
  ASSUME TypeOK, h2d # <<>>
  PROVE  /\ Head(h2d).type \in Access => InChan(SB2Q_SZ + 1, Head(h2d))
         /\ \A a : InChan(SB2Q_SZ + 1, a) => a = Head(h2d) /\ Head(h2d).type \in Access
         /\ h2d' = Tail(h2d) =>
              \A p \in Nat : \A a : InChan(p, a)' <=> p > SB2Q_SZ /\ InChan(p + 1, a)
<1>1. h2d \in Seq(Message) /\ SB2Q_SZ \in Nat
  BY Consts DEF TypeOK, ChanOK
<1> DEFINE h == Tail(h2d)
<1>2. /\ Len(h) = Len(h2d) - 1 /\ Len(h2d) \in Nat \ {0} /\ Head(h2d) = h2d[1]
      /\ \A k \in 1 .. Len(h2d) - 1 : h[k] = h2d[k + 1]
  BY <1>1, TailShape
<1> HIDE DEF h
<1>3. Head(h2d).type \in Access => InChan(SB2Q_SZ + 1, Head(h2d))
  BY <1>1, <1>2 DEF InChan
<1>4. \A a : InChan(SB2Q_SZ + 1, a) => a = Head(h2d) /\ Head(h2d).type \in Access
  BY <1>1, <1>2 DEF InChan
<1>5. ASSUME h2d' = h, NEW p \in Nat, NEW a PROVE InChan(p, a)' <=> p > SB2Q_SZ /\ InChan(p + 1, a)
  <2>1. ASSUME InChan(p, a)' PROVE p > SB2Q_SZ /\ InChan(p + 1, a)
    <3>1. PICK k \in 1 .. Len(h) : p = SB2Q_SZ + k /\ h[k].type \in Access /\ a = h[k]
      BY <1>5, <2>1 DEF InChan
    <3>2. k + 1 \in 1 .. Len(h2d) /\ p + 1 = SB2Q_SZ + (k + 1) /\ p > SB2Q_SZ /\ h[k] = h2d[k + 1]
      BY <1>1, <1>2, <3>1
    <3> QED
      BY <3>1, <3>2 DEF InChan
  <2>2. ASSUME p > SB2Q_SZ, InChan(p + 1, a) PROVE InChan(p, a)'
    <3>1. PICK k \in 1 .. Len(h2d) : p + 1 = SB2Q_SZ + k /\ h2d[k].type \in Access /\ a = h2d[k]
      BY <2>2 DEF InChan
    <3>2. k - 1 \in 1 .. Len(h) /\ p = SB2Q_SZ + (k - 1) /\ h[k - 1] = h2d[k]
      BY <1>1, <1>2, <2>2, <3>1
    <3> QED
      BY <1>5, <3>1, <3>2 DEF InChan
  <2> QED
    BY <2>1, <2>2
<1> QED
  BY <1>3, <1>4, <1>5 DEF h

(* An access that is put into a slot is behind all others there.           *)
LEMMA SlotFilled ==
  ASSUME TypeOK, RingOK, mmio_post
  PROVE  /\ RingOK'
         /\ \E n \in 0 .. SB2Q_SZ - 1 :
              /\ \A p, a : InSlot(p, a) => p < n
              /\ \A p, a : InSlot(p, a)' <=> InSlot(p, a) \/ (p = n /\ a = Head(h2d))
<1>1. /\ sb2q_head \in SbSlots /\ sb2q_tail \in SbSlots /\ SB2Q_SZ \in Nat \ {0}
      /\ Array(sb2q, SbSlots)
  BY Consts DEF TypeOK, Sb2qOK
<1>2. PICK h \in SbSlots : h = sb2q_head
  BY <1>1
<1>3. PICK m : m = Head(h2d)
  OBVIOUS
<1>4. PICK n \in 0 .. SB2Q_SZ :
        /\ sb2q_tail = Slotted(h, n)
        /\ \A i \in SbSlots : sb2q[i].ready <=> Behind(h, i) < n
  BY <1>2 DEF RingOK
<1>5. n \in 0 .. SB2Q_SZ - 1
  <2>1. ASSUME n = SB2Q_SZ PROVE FALSE
    <3>1. sb2q_tail = h /\ Behind(h, h) = 0
      BY <1>2, <1>4, <2>1, Round
    <3>2. sb2q[h].ready
      BY <1>1, <1>2, <1>4, <2>1, <3>1
    <3> QED
      BY <3>1, <3>2 DEF mmio_post
  <2> QED
    BY <1>1, <1>4, <2>1
<1>6. PICK t \in SbSlots : t = sb2q_tail
  BY <1>1
<1>7. Behind(h, t) = n /\ Inc(t, SB2Q_SZ) = Slotted(h, n + 1)
  BY <1>4, <1>5, <1>6, Round
<1>8. /\ \A i \in SbSlots : i # t => sb2q'[i] = sb2q[i]
      /\ sb2q'[t].ready = TRUE /\ sb2q'[t].msg = m /\ ~sb2q[t].ready
      /\ sb2q_head' = h /\ sb2q_tail' = Slotted(h, n + 1) /\ main' = main
  BY <1>1, <1>2, <1>3, <1>6, <1>7, Slot DEF mmio_post, mainVars, Array
<1>9. \A i, j \in SbSlots : Behind(h, i) = Behind(h, j) => i = j
  BY <1>2, Round
<1>10. \A i \in SbSlots : Behind(h, i) \in 0 .. SB2Q_SZ - 1
  BY <1>2, Round
<1>11. \A i \in SbSlots : sb2q'[i].ready <=> Behind(h, i) < n + 1
  <2> SUFFICES ASSUME NEW i \in SbSlots PROVE sb2q'[i].ready <=> Behind(h, i) < n + 1
    OBVIOUS
  <2>1. CASE i = t
    BY <1>5, <1>7, <1>8, <2>1
  <2>2. CASE i # t
    <3>1. Behind(h, i) # n /\ Behind(h, i) \in 0 .. SB2Q_SZ - 1
      BY <1>7, <1>9, <1>10, <2>2
    <3> QED
      BY <1>4, <1>5, <1>8, <2>2, <3>1
  <2> QED
    BY <2>1, <2>2
<1>12. RingOK'
  <2>1. n + 1 \in 0 .. SB2Q_SZ
    BY <1>1, <1>5
  <2> QED
    BY <1>8, <1>11, <2>1 DEF RingOK
<1>13. ~(t = h /\ main = "busy")
  BY <1>2, <1>8 DEF TypeOK, Working
<1>14. ASSUME NEW p, NEW a, InSlot(p, a) PROVE p < n
  BY <1>2, <1>4, <1>14 DEF InSlot, Posted
<1>15. ASSUME NEW p, NEW a, InSlot(p, a)' PROVE InSlot(p, a) \/ (p = n /\ a = m)
  <2>1. PICK i \in SbSlots : /\ p = Behind(h, i) /\ sb2q'[i].ready /\ ~(i = h /\ main = "busy")
                             /\ a = sb2q'[i].msg
    BY <1>8, <1>15 DEF InSlot, Posted
  <2>2. CASE i = t
    BY <1>7, <1>8, <2>1, <2>2
  <2>3. CASE i # t
    BY <1>2, <1>8, <2>1, <2>3 DEF InSlot, Posted
  <2> QED
    BY <2>2, <2>3
<1>16. ASSUME NEW p, NEW a, InSlot(p, a) PROVE InSlot(p, a)'
  <2>1. PICK i \in SbSlots : /\ p = Behind(h, i) /\ sb2q[i].ready /\ ~(i = h /\ main = "busy")
                             /\ a = sb2q[i].msg
    BY <1>2, <1>16 DEF InSlot, Posted
  <2>2. sb2q'[i] = sb2q[i]
    BY <1>8, <2>1
  <2> QED
    BY <1>8, <2>1, <2>2 DEF InSlot, Posted
<1>17. InSlot(n, m)'
  BY <1>7, <1>8, <1>13 DEF InSlot, Posted
<1>18. \A p, a : InSlot(p, a)' <=> InSlot(p, a) \/ (p = n /\ a = Head(h2d))
  BY <1>3, <1>15, <1>16, <1>17
<1> QED
  BY <1>5, <1>12, <1>14, <1>18

(* The access that has been handled leaves, and the others move on.        *)
LEMMA SlotFreed ==
  ASSUME TypeOK, RingOK, MainDone
  PROVE  /\ RingOK'
         /\ \A a : ~InSlot(0, a)
         /\ \A p \in Nat : \A a : InSlot(p, a)' <=> InSlot(p + 1, a)
<1>1. /\ sb2q_head \in SbSlots /\ SB2Q_SZ \in Nat \ {0} /\ Array(sb2q, SbSlots)
      /\ sb2q[sb2q_head].ready /\ main = "busy" /\ main' = "poll"
  BY Consts DEF TypeOK, Sb2qOK, Working, MainDone, MainIdle
<1>2. PICK h \in SbSlots : h = sb2q_head
  BY <1>1
<1>3. PICK g \in SbSlots : g = Inc(h, SB2Q_SZ)
  BY Round
<1>4. PICK n \in 0 .. SB2Q_SZ :
        /\ sb2q_tail = Slotted(h, n)
        /\ \A i \in SbSlots : sb2q[i].ready <=> Behind(h, i) < n
  BY <1>2 DEF RingOK
<1>5. /\ \A i \in SbSlots : Behind(h, i) \in 0 .. SB2Q_SZ - 1 /\ (Behind(h, i) = 0 <=> i = h)
      /\ \A i \in SbSlots : Behind(g, i) = IF i = h THEN SB2Q_SZ - 1 ELSE Behind(h, i) - 1
  BY <1>3, Round
<1>6. n \in 1 .. SB2Q_SZ
  BY <1>1, <1>2, <1>4, <1>5
<1>7. Slotted(g, n - 1) = Slotted(h, n)
  BY <1>3, <1>6, Round
<1>8. /\ \A i \in SbSlots : i # h => sb2q'[i] = sb2q[i]
      /\ sb2q'[h].ready = FALSE /\ sb2q_head' = g /\ sb2q_tail' = sb2q_tail
  BY <1>1, <1>2, <1>3, Slot DEF MainDone, Array
<1>9. \A i \in SbSlots : sb2q'[i].ready <=> Behind(g, i) < n - 1
  BY <1>1, <1>4, <1>5, <1>6, <1>8
<1>10. RingOK'
  <2>1. n - 1 \in 0 .. SB2Q_SZ
    BY <1>1, <1>6
  <2> QED
    BY <1>4, <1>7, <1>8, <1>9, <2>1 DEF RingOK
<1>11. ASSUME NEW a, InSlot(0, a) PROVE FALSE
  BY <1>1, <1>2, <1>5, <1>11 DEF InSlot, Posted
<1>12. ASSUME NEW p \in Nat, NEW a, InSlot(p, a)' PROVE InSlot(p + 1, a)
  <2>1. PICK i \in SbSlots : p = Behind(g, i) /\ sb2q'[i].ready /\ a = sb2q'[i].msg
    BY <1>8, <1>12 DEF InSlot, Posted
  <2>2. i # h /\ sb2q'[i] = sb2q[i]
    BY <1>8, <2>1
  <2>3. p + 1 = Behind(h, i)
    BY <1>5, <2>1, <2>2
  <2> QED
    BY <1>2, <2>1, <2>2, <2>3 DEF InSlot, Posted
<1>13. ASSUME NEW p \in Nat, NEW a, InSlot(p + 1, a) PROVE InSlot(p, a)'
  <2>1. PICK i \in SbSlots : /\ p + 1 = Behind(h, i) /\ sb2q[i].ready /\ a = sb2q[i].msg
                             /\ i # h
    BY <1>1, <1>2, <1>13 DEF InSlot, Posted
  <2>2. sb2q'[i] = sb2q[i] /\ p = Behind(g, i)
    BY <1>5, <1>8, <2>1
  <2> QED
    BY <1>1, <1>8, <2>1, <2>2 DEF InSlot, Posted
<1> QED
  BY <1>10, <1>11, <1>12, <1>13

(* The access the main thread turns to is the first.                       *)
LEMMA SlotTaken ==
  ASSUME TypeOK, MainTake
  PROVE  /\ InSlot(0, sb2q[sb2q_head].msg)
         /\ \A p \in Nat : \A a : InSlot(p, a)' <=> InSlot(p, a) /\ p # 0
<1>1. /\ sb2q_head \in SbSlots /\ sb2q[sb2q_head].ready /\ main = "msg" /\ main' = "busy"
      /\ sb2q' = sb2q /\ sb2q_head' = sb2q_head
  BY DEF TypeOK, Sb2qOK, MainTake, MainIdle, sb2qVars
<1>2. \A i \in SbSlots : Behind(sb2q_head, i) = 0 <=> i = sb2q_head
  BY <1>1, Round
<1> QED
  BY <1>1, <1>2 DEF InSlot, Posted

(* Steps that leave the accesses alone.                                    *)
LEMMA SlotsLeft ==
  ASSUME sb2q' = sb2q, sb2q_head' = sb2q_head, main' = "busy" <=> main = "busy"
  PROVE  /\ \A p, a : InSlot(p, a)' <=> InSlot(p, a)
         /\ sb2q_tail' = sb2q_tail => (RingOK' <=> RingOK)
<1>1. \A p, a : InSlot(p, a)' <=> InSlot(p, a)
  BY DEF InSlot, Posted
<1> QED
  BY <1>1 DEF RingOK

(* A read that stays where it is, or gets nearer to the host.              *)
LEMMA OneReadKept ==
  ASSUME OneRead, NEW e \in Nat,
         Reading' => Reading,
         Replying' => Replying /\ reg' = reg,
         \A i \in QSlots : Replied(i)' => Replied(i) /\ q2sb'[i].msg.val = q2sb[i].msg.val,
         \A k \in Nat : Returned(k)' => Returned(k + e) /\ d2h'[k].val = d2h[k + e].val,
         host'.reading = host.reading, host'.seen = host.seen
  PROVE  OneRead'
<1>1. \A k \in Nat : k + e \in Nat
  OBVIOUS
<1>2. \A j, k \in Nat : j + e = k + e => j = k
  OBVIOUS
<1>3. Reading' => host'.reading /\ ~Replying'
  BY Zenon DEF OneRead
<1>4. Replying' => host'.reading /\ reg' = host'.seen
  BY DEF OneRead
<1>5. \A i \in QSlots : Replied(i)' =>
        ~Reading' /\ ~Replying' /\ host'.reading /\ q2sb'[i].msg.val = host'.seen
  BY Zenon DEF OneRead
<1>6. \A k \in Nat : Returned(k)' =>
        ~Reading' /\ ~Replying' /\ host'.reading /\ d2h'[k].val = host'.seen
  BY <1>1, Zenon DEF OneRead
<1>7. \A i, j \in QSlots : Replied(i)' /\ Replied(j)' => i = j
  BY Zenon DEF OneRead
<1>8. \A j, k \in Nat : Returned(j)' /\ Returned(k)' => j = k
  BY <1>1, <1>2, Zenon DEF OneRead
<1>9. \A i \in QSlots, k \in Nat : ~(Replied(i)' /\ Returned(k)')
  BY <1>1, Zenon DEF OneRead
<1> QED
  BY <1>3, <1>4, <1>5, <1>6, <1>7, <1>8, <1>9 DEF OneRead

(* The host posts an access.                                               *)
LEMMA MmioOrderly ==
  ASSUME TypeOK, Orderly, OneRead, NEW type \in Access, HostMmio(type)
  PROVE  Orderly' /\ OneRead'
<1>1. PICK w \in Nat : w = host'.written
  BY HostTypes DEF TypeOK, RestOK, Host
<1>2. PICK m : m = Msg(type, Main, w)
  OBVIOUS
<1>3. m \in Message /\ m.type = type /\ m.val = w
  BY <1>1, <1>2, Consts, Msgs DEF Types
<1>4. /\ h2d' = Append(h2d, m)
      /\ UNCHANGED <<d2h, sb2q, sb2q_head, sb2q_tail, q2sb, main, reg, thr>>
  BY <1>1, <1>2 DEF HostMmio, sb2qVars, q2sbVars, mainVars
<1>5. /\ reg \in Nat /\ host.written \in Nat /\ host.seen \in Nat
      /\ type = "READ" => host'.reading = TRUE /\ host'.seen = host.written /\ w = host.written
                          /\ ~host.reading
      /\ type = "WRITE" => host'.reading = host.reading /\ host'.seen = host.seen
                           /\ w = host.written + 1
      /\ type = "DOORBELL" => host'.reading = host.reading /\ host'.seen = host.seen
                              /\ w = host.written
  <2>1. host \in Host
    BY DEF TypeOK, RestOK
  <2>2. reg \in Nat /\ host.written \in Nat /\ host.seen \in Nat
    BY <2>1 DEF TypeOK, RestOK, Host
  <2>3. CASE type = "READ"
    BY <1>1, <2>1, <2>2, <2>3, HostSet DEF HostMmio
  <2>4. CASE type = "WRITE"
    BY <1>1, <2>1, <2>2, <2>4, HostSet DEF HostMmio
  <2>5. CASE type = "DOORBELL"
    BY <1>1, <2>1, <2>2, <2>5 DEF HostMmio
  <2> QED
    BY <2>2, <2>3, <2>4, <2>5 DEF Access
<1>6. PICK l \in Nat : l = SB2Q_SZ + Len(h2d) + 1
  BY Places
<1>7. \A p, a : Pending(p, a)' <=> Pending(p, a) \/ (p = l /\ a = m)
  BY <1>3, <1>4, <1>6, ChanAppended, SlotsLeft DEF Pending
<1>8. \A p, a : Pending(p, a) => p < l /\ a \in Message
  <2> SUFFICES ASSUME NEW p, NEW a, Pending(p, a) PROVE p < l /\ a \in Message
    OBVIOUS
  <2>1. (p \in 0 .. SB2Q_SZ - 1 \/ p \in SB2Q_SZ + 1 .. SB2Q_SZ + Len(h2d)) /\ a \in Message
    BY Places DEF Pending
  <2> QED
    BY <1>6, <2>1, Places
<1>9. type = "READ" => \A p \in Nat, a \in Message : Pending(p, a) => a.type # "READ"
  BY <1>5, Zenon DEF OneRead, Reading
<1>10. \A a \in Message : a.val \in Nat
  BY Msgs
<1>11. \A p, q \in Nat, a, b \in Message : Pending(p, a)' /\ Pending(q, b)' /\ p < q => Before(a, b)
  <2> SUFFICES ASSUME NEW p \in Nat, NEW q \in Nat, NEW a \in Message, NEW b \in Message,
                      Pending(p, a)', Pending(q, b)', p < q
               PROVE  Before(a, b)
    OBVIOUS
  <2>1. Pending(p, a)
    <3>1. p # l
      BY <1>7, <1>8
    <3> QED
      BY <1>7, <3>1
  <2>2. CASE Pending(q, b)
    BY <2>1, <2>2 DEF Orderly
  <2>3. CASE q = l /\ b = m
    <3>1. a.val <= host.written
      BY <2>1 DEF Orderly
    <3>2. a.val <= w /\ (type = "WRITE" => a.val < w)
      BY <1>1, <1>5, <1>10, <3>1 DEF Access
    <3>3. ~(a.type = "READ" /\ type = "READ")
      BY <1>9, <2>1
    <3> QED
      BY <1>3, <2>3, <3>2, <3>3 DEF Before
  <2> QED
    BY <1>7, <2>2, <2>3
<1>12. \A p \in Nat, a \in Message : Pending(p, a)' =>
       /\ reg <= a.val /\ a.val <= w
       /\ a.type = "WRITE" => reg < a.val
       /\ a.type = "READ" => a.val = host'.seen
  <2> SUFFICES ASSUME NEW p \in Nat, NEW a \in Message, Pending(p, a)'
               PROVE  /\ reg <= a.val /\ a.val <= w
                      /\ a.type = "WRITE" => reg < a.val
                      /\ a.type = "READ" => a.val = host'.seen
    OBVIOUS
  <2>1. CASE Pending(p, a)
    <3>1. /\ reg <= a.val /\ a.val <= host.written
          /\ a.type = "WRITE" => reg < a.val
          /\ a.type = "READ" => a.val = host.seen
      BY <2>1 DEF Orderly
    <3>2. a.type = "READ" => type # "READ"
      BY <1>9, <2>1
    <3> QED
      BY <1>1, <1>5, <1>10, <3>1, <3>2 DEF Access
  <2>2. CASE a = m
    <3>1. reg <= host.written
      BY DEF Orderly
    <3> QED
      BY <1>1, <1>3, <1>5, <2>2, <3>1 DEF Access
  <2> QED
    BY <1>7, <2>1, <2>2
<1>13. ASSUME NEW v \in Nat, reg < v, v <= w
       PROVE  \E p \in Nat, a \in Message : Pending(p, a)' /\ a.type = "WRITE" /\ a.val = v
  <2>1. CASE v <= host.written
    <3>1. PICK p \in Nat, a \in Message : Pending(p, a) /\ a.type = "WRITE" /\ a.val = v
      BY <1>13, <2>1 DEF Orderly
    <3> QED
      BY <1>7, <3>1
  <2>2. CASE ~(v <= host.written)
    <3>1. type = "WRITE" /\ v = w
      BY <1>1, <1>5, <1>13, <2>2 DEF Access
    <3> QED
      BY <1>3, <1>7, <3>1
  <2> QED
    BY <2>1, <2>2
<1>14. Orderly'
  <2>1. \A a, b : Before(a, b)' = Before(a, b)
    BY DEF Before
  <2>2. reg <= w
    BY <1>5 DEF Orderly, Access
  <2> QED
    BY <1>1, <1>4, <1>11, <1>12, <1>13, <2>1, <2>2 DEF Orderly
<1>15. /\ Replying' = Replying /\ \A i \in QSlots : Replied(i)' = Replied(i)
       /\ \A k \in Nat : Returned(k)' = Returned(k)
  BY <1>4 DEF Replying, Doing, Now, Replied, Returned
<1>16. CASE type = "READ"
  <2>1. ~Replying /\ (\A i \in QSlots : ~Replied(i)) /\ \A k \in Nat : ~Returned(k)
    BY <1>5, <1>16, Zenon DEF OneRead
  <2>2. host'.reading
    BY <1>5, <1>16
  <2> QED
    BY <1>14, <1>15, <2>1, <2>2, Zenon DEF OneRead
<1>17. CASE type # "READ"
  <2>1. Reading' => Reading
    BY <1>3, <1>7, <1>17, Zenon DEF Reading
  <2>2. \A k \in Nat : k + 0 = k
    OBVIOUS
  <2>3. host'.reading = host.reading /\ host'.seen = host.seen
    BY <1>5, <1>17 DEF Access
  <2>4. 0 \in Nat
    OBVIOUS
  <2> QED
    BY <1>4, <1>14, <1>15, <2>1, <2>2, <2>3, <2>4, OneReadKept
<1> QED
  BY <1>16, <1>17

(* The main thread turns to an access: the first one, so that a register   *)
(* read finds the effect of the writes before it, and of no others.        *)
LEMMA TakeOrderly ==
  ASSUME TypeOK, Orderly, OneRead, MainTake
  PROVE  Orderly' /\ OneRead'
<1>1. PICK m : m = sb2q[sb2q_head].msg
  OBVIOUS
<1>2. /\ m \in Message /\ m.type \in Access /\ m.val \in Nat
      /\ reg \in Nat /\ host.written \in Nat /\ host.seen \in Nat
      /\ UNCHANGED <<h2d, d2h, q2sb, host>>
      /\ reg' = (IF m.type = "WRITE" THEN m.val ELSE reg)
      /\ thr[Main].todo = <<>>
  <2>1. m \in Message /\ m.type \in Access
    BY <1>1 DEF MainTake, TypeOK, Sb2qOK, Array
  <2>2. reg \in Nat /\ host \in Host
    BY DEF TypeOK, RestOK
  <2> QED
    BY <1>1, <2>1, <2>2, Msgs DEF MainTake, MainIdle, Host, chanVars, q2sbVars, hostVars
<1>3. Becomes(Main, Handler(m.type), thr[Main].pc, thr[Main].slot)
  BY <1>1, Consts, Becoming DEF MainTake, TypeOK
<1>4. thr'[Main].todo = Handler(m.type)
  BY <1>3 DEF Becomes
<1>5. /\ Pending(0, m)
      /\ \A p \in Nat, a \in Message : Pending(p, a)' <=> Pending(p, a) /\ p # 0
      /\ \A a : Pending(0, a) => a = m
  <2>1. Pending(0, m)
    BY <1>1, SlotTaken DEF Pending
  <2>2. \A a : ~InChan(0, a)
    BY Places
  <2>3. \A p, a : InChan(p, a)' <=> InChan(p, a)
    BY <1>2 DEF InChan
  <2> QED
    BY <2>1, <2>2, <2>3, SlotTaken, Places DEF Pending
<1>6. /\ reg <= m.val /\ m.val <= host.written
      /\ m.type = "WRITE" => reg < m.val
      /\ m.type = "READ" => m.val = host.seen
  BY <1>2, <1>5 DEF Orderly
<1>7. \A p \in Nat, a \in Message : Pending(p, a)' => Before(m, a)
  <2> SUFFICES ASSUME NEW p \in Nat, NEW a \in Message, Pending(p, a)'
               PROVE  Before(m, a)
    OBVIOUS
  <2>1. Pending(p, a) /\ 0 < p /\ 0 \in Nat
    BY <1>5
  <2> QED
    BY <1>2, <1>5, <2>1 DEF Orderly
<1>8. \A a \in Message : a.val \in Nat
  BY Msgs
<1>9. \A a, b : Before(a, b)' = Before(a, b)
  BY DEF Before
<1>10. \A p, q \in Nat, a, b \in Message : Pending(p, a)' /\ Pending(q, b)' /\ p < q => Before(a, b)
  BY <1>5, Zenon DEF Orderly
<1>11. \A p \in Nat, a \in Message : Pending(p, a)' =>
         /\ reg' <= a.val /\ a.val <= host.written
         /\ a.type = "WRITE" => reg' < a.val
         /\ a.type = "READ" => a.val = host.seen
  <2> SUFFICES ASSUME NEW p \in Nat, NEW a \in Message, Pending(p, a)'
               PROVE  /\ reg' <= a.val /\ a.val <= host.written
                      /\ a.type = "WRITE" => reg' < a.val
                      /\ a.type = "READ" => a.val = host.seen
    OBVIOUS
  <2>1. /\ reg <= a.val /\ a.val <= host.written
        /\ a.type = "WRITE" => reg < a.val
        /\ a.type = "READ" => a.val = host.seen
    BY <1>5 DEF Orderly
  <2>2. m.val <= a.val /\ (a.type = "WRITE" => m.val < a.val)
    BY <1>7 DEF Before
  <2> QED
    BY <1>2, <2>1, <2>2
<1>12. ASSUME NEW v \in Nat, reg' < v, v <= host.written
       PROVE  \E p \in Nat, a \in Message : Pending(p, a)' /\ a.type = "WRITE" /\ a.val = v
  <2>1. reg < v /\ (m.type = "WRITE" => m.val # v)
    BY <1>2, <1>6, <1>12
  <2>2. PICK p \in Nat, a \in Message : Pending(p, a) /\ a.type = "WRITE" /\ a.val = v
    BY <1>12, <2>1 DEF Orderly
  <2>3. p # 0
    BY <1>5, <2>1, <2>2
  <2> QED
    BY <1>5, <2>2, <2>3
<1>13. Orderly'
  <2>1. reg' <= host.written
    BY <1>2, <1>6 DEF Orderly
  <2> QED
    BY <1>2, <1>9, <1>10, <1>11, <1>12, <2>1 DEF Orderly
<1>14. Reading' => Reading
  BY <1>5, Zenon DEF Reading
<1>15. /\ \A i \in QSlots : Replied(i)' = Replied(i)
       /\ \A k \in Nat : Returned(k)' = Returned(k)
  BY <1>2 DEF Replied, Returned
<1>16. CASE m.type = "READ"
  <2>1. Reading
    BY <1>2, <1>5, <1>16 DEF Reading
  <2>2. ~Reading'
    <3> SUFFICES ASSUME NEW p \in Nat, NEW a \in Message, Pending(p, a)', a.type = "READ"
                 PROVE  FALSE
      BY DEF Reading
    <3> QED
      BY <1>7, <1>16 DEF Before
  <2>3. host.reading /\ (\A i \in QSlots : ~Replied(i)) /\ \A k \in Nat : ~Returned(k)
    BY <2>1, Zenon DEF OneRead
  <2>4. reg = host.seen
    <3>1. ASSUME reg < m.val PROVE FALSE
      <4>1. PICK p \in Nat, a \in Message : Pending(p, a) /\ a.type = "WRITE" /\ a.val = m.val
        BY <1>2, <1>6, <3>1 DEF Orderly
      <4>2. p # 0
        BY <1>5, <1>16, <4>1
      <4>3. Before(m, a)
        BY <1>5, <1>7, <4>1, <4>2
      <4> QED
        BY <1>2, <4>1, <4>3 DEF Before
    <3> QED
      BY <1>2, <1>6, <1>16, <3>1
  <2>5. reg' = reg /\ host' = host
    BY <1>2, <1>16
  <2> QED
    BY <1>13, <1>15, <2>2, <2>3, <2>4, <2>5, Zenon DEF OneRead
<1>17. CASE m.type # "READ"
  <2>1. ~Replying'
    <3>1. CASE m.type = "WRITE"
      BY <1>4, <3>1 DEF Replying, Doing, Handler
    <3>2. CASE m.type = "DOORBELL"
      <4>1. thr'[Main].todo = <<Call("DMA_READ", Main), Call("DMA_WRITE", Main), Call("INT", Main)>>
        BY <1>4, <3>2 DEF Handler
      <4>2. Head(thr'[Main].todo).type = "DMA_READ"
        BY <4>1, ShortTails DEF Call
      <4> QED
        BY <4>2 DEF Replying, Doing, Now
    <3> QED
      BY <1>2, <1>17, <3>1, <3>2 DEF Access
  <2>2. \A k \in Nat : k + 0 = k
    OBVIOUS
  <2>3. 0 \in Nat
    OBVIOUS
  <2> QED
    BY <1>2, <1>13, <1>14, <1>15, <2>1, <2>2, <2>3, OneReadKept
<1> QED
  BY <1>16, <1>17

(* The handler has returned.                                               *)
LEMMA DoneOrderly ==
  ASSUME TypeOK, RingOK, Orderly, MainDone
  PROVE  Orderly' /\ (Reading' <=> Reading)
<1>1. h2d' = h2d /\ reg' = reg /\ host' = host /\ SB2Q_SZ \in Nat
  BY Consts DEF MainDone, chanVars, hostVars
<1>2. \A p, a : InChan(p, a)' <=> InChan(p, a)
  BY <1>1 DEF InChan
<1>3. /\ \A p \in Nat : \A a : InSlot(p, a)' <=> InSlot(p + 1, a)
      /\ \A a : ~InSlot(0, a)
  BY SlotFreed
<1> DEFINE F == [p \in Nat |-> IF p < SB2Q_SZ THEN p + 1 ELSE p]
<1>4. /\ F \in [Nat -> Nat]
      /\ \A p \in Nat : p < SB2Q_SZ => F[p] = p + 1
      /\ \A p \in Nat : p > SB2Q_SZ => F[p] = p
  BY <1>1
<1> HIDE DEF F
<1>5. \A p \in Nat, a \in Message : Pending(p, a)' =>
        Pending(F[p], a) /\ (p + 1 < SB2Q_SZ \/ p > SB2Q_SZ)
  <2> SUFFICES ASSUME NEW p \in Nat, NEW a \in Message, Pending(p, a)'
               PROVE  Pending(F[p], a) /\ (p + 1 < SB2Q_SZ \/ p > SB2Q_SZ)
    OBVIOUS
  <2>1. CASE InSlot(p, a)'
    <3>1. InSlot(p + 1, a)
      BY <1>3, <2>1
    <3>2. p + 1 \in 0 .. SB2Q_SZ - 1
      BY <3>1, Places
    <3>3. p + 1 < SB2Q_SZ /\ F[p] = p + 1
      BY <1>1, <1>4, <3>2
    <3> QED
      BY <3>1, <3>3 DEF Pending
  <2>2. CASE InChan(p, a)'
    <3>1. InChan(p, a)
      BY <1>2, <2>2
    <3>2. p \in SB2Q_SZ + 1 .. SB2Q_SZ + Len(h2d)
      BY <3>1, Places
    <3>3. p > SB2Q_SZ /\ F[p] = p
      BY <1>1, <1>4, <3>2
    <3> QED
      BY <3>1, <3>3 DEF Pending
  <2> QED
    BY <2>1, <2>2 DEF Pending
<1>6. \A p, q \in Nat, a, b \in Message : Pending(p, a)' /\ Pending(q, b)' /\ p < q => F[p] < F[q]
  <2> SUFFICES ASSUME NEW p \in Nat, NEW q \in Nat, NEW a \in Message, NEW b \in Message,
                      Pending(p, a)', Pending(q, b)', p < q
               PROVE  F[p] < F[q]
    OBVIOUS
  <2>1. (p + 1 < SB2Q_SZ \/ p > SB2Q_SZ) /\ (q + 1 < SB2Q_SZ \/ q > SB2Q_SZ)
    BY <1>5
  <2> QED
    BY <1>1, <1>4, <2>1
<1>7. \A p \in Nat, a \in Message : Pending(p, a) => \E q \in Nat : Pending(q, a)'
  <2> SUFFICES ASSUME NEW p \in Nat, NEW a \in Message, Pending(p, a)
               PROVE  \E q \in Nat : Pending(q, a)'
    OBVIOUS
  <2>1. CASE InSlot(p, a)
    <3>1. p # 0
      BY <1>3, <2>1
    <3>2. p - 1 \in Nat /\ (p - 1) + 1 = p
      BY <3>1
    <3>3. InSlot(p - 1, a)'
      BY <1>3, <2>1, <3>2
    <3> QED
      BY <3>2, <3>3 DEF Pending
  <2>2. CASE InChan(p, a)
    BY <1>2, <2>2 DEF Pending
  <2> QED
    BY <2>1, <2>2 DEF Pending
<1>8. SamePending
  BY <1>4, <1>5, <1>6, <1>7, Moved
<1> QED
  BY <1>1, <1>8, OrderlyKept

(* An access goes from the channel into a slot.                            *)
LEMMA PostOrderly ==
  ASSUME TypeOK, RingOK, Orderly, mmio_post
  PROVE  Orderly' /\ (Reading' <=> Reading)
<1>1. /\ h2d # <<>> /\ h2d' = Tail(h2d) /\ Head(h2d).type \in Access
      /\ reg' = reg /\ host' = host /\ SB2Q_SZ \in Nat
  BY Consts DEF mmio_post, TypeOK, Working, mainVars, hostVars
<1>2. PICK m : m = Head(h2d)
  OBVIOUS
<1>3. PICK n \in 0 .. SB2Q_SZ - 1 :
        /\ \A p, a : InSlot(p, a) => p < n
        /\ \A p, a : InSlot(p, a)' <=> InSlot(p, a) \/ (p = n /\ a = m)
  BY <1>2, SlotFilled
<1>4. /\ InChan(SB2Q_SZ + 1, m)
      /\ \A a : InChan(SB2Q_SZ + 1, a) => a = m
      /\ \A p \in Nat : \A a : InChan(p, a)' <=> p > SB2Q_SZ /\ InChan(p + 1, a)
  BY <1>1, <1>2, ChanShifted
<1> DEFINE F == [p \in Nat |-> IF p < n THEN p ELSE IF p = n THEN SB2Q_SZ + 1 ELSE p + 1]
<1>5. /\ F \in [Nat -> Nat] /\ n \in Nat
      /\ \A p \in Nat : p < n => F[p] = p
      /\ F[n] = SB2Q_SZ + 1
      /\ \A p \in Nat : p > n => F[p] = p + 1
  BY <1>1
<1> HIDE DEF F
<1>6. \A p \in Nat, a \in Message : Pending(p, a)' =>
        Pending(F[p], a) /\ (p < n \/ p = n \/ p > SB2Q_SZ)
  <2> SUFFICES ASSUME NEW p \in Nat, NEW a \in Message, Pending(p, a)'
               PROVE  Pending(F[p], a) /\ (p < n \/ p = n \/ p > SB2Q_SZ)
    OBVIOUS
  <2>1. CASE InSlot(p, a)
    BY <1>3, <1>5, <2>1 DEF Pending
  <2>2. CASE p = n /\ a = m
    BY <1>4, <1>5, <2>2 DEF Pending
  <2>3. CASE InChan(p, a)'
    <3>1. p > SB2Q_SZ /\ InChan(p + 1, a)
      BY <1>4, <2>3
    <3>2. p > n /\ F[p] = p + 1
      BY <1>1, <1>5, <3>1
    <3> QED
      BY <3>1, <3>2 DEF Pending
  <2> QED
    BY <1>3, <2>1, <2>2, <2>3 DEF Pending
<1>7. \A p, q \in Nat, a, b \in Message : Pending(p, a)' /\ Pending(q, b)' /\ p < q => F[p] < F[q]
  <2> SUFFICES ASSUME NEW p \in Nat, NEW q \in Nat, NEW a \in Message, NEW b \in Message,
                      Pending(p, a)', Pending(q, b)', p < q
               PROVE  F[p] < F[q]
    OBVIOUS
  <2>1. (p < n \/ p = n \/ p > SB2Q_SZ) /\ (q < n \/ q = n \/ q > SB2Q_SZ)
    BY <1>6
  <2>2. SB2Q_SZ \in Nat /\ n \in Nat /\ n < SB2Q_SZ
    BY <1>1
  <2>3. CASE p < n
    <3>1. F[p] = p
      BY <1>5, <2>3
    <3>2. F[q] = q \/ F[q] = SB2Q_SZ + 1 \/ F[q] = q + 1
      BY <1>5, <2>1, <2>2
    <3> QED
      BY <2>2, <2>3, <3>1, <3>2
  <2>4. CASE p = n \/ p > SB2Q_SZ
    <3>1. q > SB2Q_SZ /\ q > n
      BY <2>1, <2>2, <2>4
    <3>2. F[q] = q + 1
      BY <1>5, <3>1
    <3>3. F[p] = SB2Q_SZ + 1 \/ F[p] = p + 1
      BY <1>5, <2>2, <2>4
    <3> QED
      BY <2>2, <3>1, <3>2, <3>3
  <2> QED
    BY <2>1, <2>3, <2>4
<1>8. \A p \in Nat, a \in Message : Pending(p, a) => \E q \in Nat : Pending(q, a)'
  <2> SUFFICES ASSUME NEW p \in Nat, NEW a \in Message, Pending(p, a)
               PROVE  \E q \in Nat : Pending(q, a)'
    OBVIOUS
  <2>1. CASE InSlot(p, a)
    BY <1>3, <2>1 DEF Pending
  <2>2. CASE InChan(p, a) /\ p = SB2Q_SZ + 1
    BY <1>3, <1>4, <1>5, <2>2 DEF Pending
  <2>3. CASE InChan(p, a) /\ p # SB2Q_SZ + 1
    <3>1. p \in SB2Q_SZ + 1 .. SB2Q_SZ + Len(h2d) /\ Len(h2d) \in Nat
      BY <2>3, Places
    <3>2. p - 1 \in Nat /\ p - 1 > SB2Q_SZ /\ (p - 1) + 1 = p
      BY <1>1, <2>3, <3>1
    <3>3. InChan(p - 1, a)'
      BY <1>4, <2>3, <3>2
    <3> QED
      BY <3>2, <3>3 DEF Pending
  <2> QED
    BY <2>1, <2>2, <2>3 DEF Pending
<1>9. SamePending
  BY <1>5, <1>6, <1>7, <1>8, Moved
<1> QED
  BY <1>1, <1>9, OrderlyKept

(* The answer to a DMA read leaves the channel.                            *)
LEMMA AnswerOrderly ==
  ASSUME TypeOK, Orderly, h2d # <<>>, Head(h2d).type \notin Access, h2d' = Tail(h2d),
         UNCHANGED <<sb2q, sb2q_head, main, reg, host>>
  PROVE  Orderly' /\ (Reading' <=> Reading)
<1>1. /\ \A p, a : InSlot(p, a)' <=> InSlot(p, a)
      /\ \A p \in Nat : \A a : InChan(p, a)' <=> p > SB2Q_SZ /\ InChan(p + 1, a)
      /\ \A a : ~InChan(SB2Q_SZ + 1, a)
      /\ SB2Q_SZ \in Nat
  BY Consts, SlotsLeft, ChanShifted
<1> DEFINE F == [p \in Nat |-> IF p < SB2Q_SZ THEN p ELSE p + 1]
<1>2. /\ F \in [Nat -> Nat]
      /\ \A p \in Nat : p < SB2Q_SZ => F[p] = p
      /\ \A p \in Nat : p > SB2Q_SZ => F[p] = p + 1
      /\ \A p, q \in Nat : p < q => F[p] < F[q]
  BY <1>1
<1> HIDE DEF F
<1>3. \A p \in Nat, a \in Message : Pending(p, a)' => Pending(F[p], a)
  <2> SUFFICES ASSUME NEW p \in Nat, NEW a \in Message, Pending(p, a)'
               PROVE  Pending(F[p], a)
    OBVIOUS
  <2>1. CASE InSlot(p, a)'
    <3>1. InSlot(p, a) /\ p \in 0 .. SB2Q_SZ - 1
      BY <1>1, <2>1, Places
    <3>2. F[p] = p
      BY <1>1, <1>2, <3>1
    <3> QED
      BY <3>1, <3>2 DEF Pending
  <2>2. CASE InChan(p, a)'
    BY <1>1, <1>2, <2>2 DEF Pending
  <2> QED
    BY <2>1, <2>2 DEF Pending
<1>4. \A p \in Nat, a \in Message : Pending(p, a) => \E q \in Nat : Pending(q, a)'
  <2> SUFFICES ASSUME NEW p \in Nat, NEW a \in Message, Pending(p, a)
               PROVE  \E q \in Nat : Pending(q, a)'
    OBVIOUS
  <2>1. CASE InSlot(p, a)
    BY <1>1, <2>1 DEF Pending
  <2>2. CASE InChan(p, a)
    <3>1. p \in SB2Q_SZ + 1 .. SB2Q_SZ + Len(h2d) /\ Len(h2d) \in Nat /\ p # SB2Q_SZ + 1
      BY <1>1, <2>2, Places
    <3>2. p - 1 \in Nat /\ p - 1 > SB2Q_SZ /\ (p - 1) + 1 = p
      BY <1>1, <3>1
    <3>3. InChan(p - 1, a)'
      BY <1>1, <2>2, <3>2
    <3> QED
      BY <3>2, <3>3 DEF Pending
  <2> QED
    BY <2>1, <2>2 DEF Pending
<1>5. SamePending
  BY <1>2, <1>3, <1>4, Moved
<1> QED
  BY <1>5, OrderlyKept

(* Steps that leave the accesses alone: at most an answer is appended.     *)
LEMMA SameOrderly ==
  ASSUME TypeOK, Orderly,
         h2d' = h2d \/ \E m \in Message : m.type \notin Access /\ h2d' = Append(h2d, m),
         UNCHANGED <<sb2q, sb2q_head, reg>>, main' = "busy" <=> main = "busy",
         host'.written = host.written, host'.seen = host.seen
  PROVE  Orderly' /\ (Reading' <=> Reading)
<1>1. \A p, a : InChan(p, a)' <=> InChan(p, a)
  <2>1. CASE h2d' = h2d
    BY <2>1 DEF InChan
  <2>2. CASE \E m \in Message : m.type \notin Access /\ h2d' = Append(h2d, m)
    BY <2>2, ChanAppended
  <2> QED
    BY <2>1, <2>2
<1>2. \A p, a : Pending(p, a)' <=> Pending(p, a)
  BY <1>1, SlotsLeft DEF Pending
<1>3. SamePending
  BY <1>2, Zenon DEF SamePending
<1> QED
  BY <1>3, OrderlyKept

(* The host takes a message, its read completion among them.               *)
LEMMA TakenRead ==
  ASSUME TypeOK, Orderly, OneRead, HostTake
  PROVE  Orderly' /\ OneRead'
<1>1. PICK m \in Message : m = Head(d2h)
  BY TailShape DEF HostTake, TypeOK, ChanOK
<1>2. UNCHANGED <<sb2q, sb2q_head, q2sb, main, reg, thr>>
  BY DEF HostTake, sb2qVars, q2sbVars, mainVars
<1>3. h2d' = h2d \/ \E r \in Message : r.type \notin Access /\ h2d' = Append(h2d, r)
  <2>1. /\ Msg("READCOMP", m.of, 0) \in Message
        /\ Msg("READCOMP", m.of, 0).type \notin Access
    BY Msgs DEF Types, Access
  <2> QED
    BY <1>1, <2>1 DEF HostTake
<1>4. /\ host'.written = host.written /\ host'.seen = host.seen
      /\ m.type # "MMIO_READ_COMP" => host'.reading = host.reading
  <2>1. host \in Host
    BY DEF TypeOK, RestOK
  <2>2. m.of \in Threads /\ m.val \in Nat
    BY Msgs
  <2>3. CASE m.type = "DMA_WRITE"
    BY <1>1, <2>1, <2>2, <2>3, HostSet DEF HostTake
  <2>4. CASE m.type = "INT"
    BY <1>1, <2>1, <2>2, <2>4, HostSet DEF HostTake
  <2>5. CASE m.type = "MMIO_READ_COMP"
    BY <1>1, <2>1, <2>5, HostSet DEF HostTake
  <2>6. CASE m.type \notin {"DMA_WRITE", "INT", "MMIO_READ_COMP"}
    BY <1>1, <2>6 DEF HostTake
  <2> QED
    BY <2>3, <2>4, <2>5, <2>6
<1>5. Orderly' /\ (Reading' <=> Reading)
  BY <1>2, <1>3, <1>4, SameOrderly
<1>6. \A k \in Nat : Returned(k)' => Returned(k + 1) /\ d2h'[k].val = d2h[k + 1].val
  <2> DEFINE h == Tail(d2h)
  <2>1. /\ Len(h) = Len(d2h) - 1 /\ Len(d2h) \in Nat \ {0} /\ d2h' = h
        /\ \A k \in 1 .. Len(d2h) - 1 : h[k] = d2h[k + 1]
    BY TailShape DEF HostTake, TypeOK, ChanOK
  <2> HIDE DEF h
  <2> SUFFICES ASSUME NEW k \in Nat, Returned(k)'
               PROVE  Returned(k + 1) /\ d2h'[k].val = d2h[k + 1].val
    OBVIOUS
  <2>2. k \in 1 .. Len(h) /\ h[k].type = "MMIO_READ_COMP"
    BY <2>1 DEF Returned
  <2>3. k + 1 \in 1 .. Len(d2h) /\ h[k] = d2h[k + 1]
    BY <2>1, <2>2
  <2> QED
    BY <2>1, <2>2, <2>3 DEF Returned
<1>7. /\ Replying' = Replying /\ \A i \in QSlots : Replied(i)' = Replied(i)
  BY <1>2 DEF Replying, Doing, Now, Replied
<1>8. CASE m.type # "MMIO_READ_COMP"
  <2>1. 1 \in Nat
    OBVIOUS
  <2> QED
    BY <1>2, <1>4, <1>5, <1>6, <1>7, <1>8, <2>1, OneReadKept
<1>9. CASE m.type = "MMIO_READ_COMP"
  <2>1. Returned(1)
    <3>1. Head(d2h) = d2h[1] /\ Len(d2h) \in Nat \ {0}
      BY TailShape DEF HostTake, TypeOK, ChanOK
    <3> QED
      BY <1>1, <1>9, <3>1 DEF Returned
  <2>2. 1 \in Nat /\ \A k \in Nat : k + 1 \in Nat /\ (k + 1 = 1 => k = 0)
    OBVIOUS
  <2>3. ~Reading /\ ~Replying /\ (\A i \in QSlots : ~Replied(i)) /\ \A k \in Nat : Returned(k) => k = 1
    BY <2>1, <2>2, Zenon DEF OneRead
  <2>4. \A k \in Nat : ~Returned(k)'
    <3> SUFFICES ASSUME NEW k \in Nat, Returned(k)' PROVE FALSE
      OBVIOUS
    <3>1. k = 0
      BY <1>6, <2>2, <2>3
    <3> QED
      BY <3>1 DEF Returned
  <2> QED
    BY <1>5, <1>7, <2>3, <2>4, Zenon DEF OneRead
<1> QED
  BY <1>8, <1>9

(* The SimBricks thread takes a message of the host.                       *)
LEMMA PollRead ==
  ASSUME TypeOK, RingOK, Orderly, OneRead, SbPoll \/ mmio_post
  PROVE  RingOK' /\ Orderly' /\ OneRead'
<1>1. /\ UNCHANGED <<q2sb, reg, thr, host, main>> /\ h2d # <<>>
      /\ SbPoll => UNCHANGED <<sb2q, sb2q_head, sb2q_tail>>
  BY DEF SbPoll, mmio_post, TypeOK, Working, sb2qVars, q2sbVars, mainVars, hostVars
<1>2. RingOK' /\ Orderly' /\ (Reading' <=> Reading)
  <2>1. CASE mmio_post
    BY <2>1, SlotFilled, PostOrderly
  <2>2. CASE SbPoll
    <3>1. RingOK'
      BY <1>1, <2>2, SlotsLeft
    <3>2. h2d' = h2d \/ (h2d' = Tail(h2d) /\ Head(h2d).type \notin Access)
      BY <2>2 DEF SbPoll, chanVars, Access
    <3> QED
      BY <1>1, <2>2, <3>1, <3>2, SameOrderly, AnswerOrderly
  <2> QED
    BY <2>1, <2>2
<1>3. \A k \in Nat : Returned(k)' => Returned(k) /\ d2h'[k].val = d2h[k].val
  <2>1. CASE d2h' = d2h
    BY <2>1 DEF Returned
  <2>2. CASE d2h' = Append(d2h, Msg("WRITECOMP", Main, 0))
    <3>1. PICK m \in Message : m = Msg("WRITECOMP", Main, 0) /\ m.type = "WRITECOMP"
      BY Consts, Msgs DEF Types
    <3> DEFINE h == Append(d2h, m)
    <3>2. /\ Len(h) = Len(d2h) + 1 /\ Len(d2h) \in Nat /\ h[Len(d2h) + 1] = m
          /\ \A k \in 1 .. Len(d2h) : h[k] = d2h[k]
      BY AppendShape DEF TypeOK, ChanOK
    <3>3. d2h' = h
      BY <2>2, <3>1
    <3> HIDE DEF h
    <3> QED
      BY <3>1, <3>2, <3>3 DEF Returned
  <2> QED
    BY <2>1, <2>2 DEF SbPoll, mmio_post, chanVars
<1>4. /\ Replying' = Replying /\ \A i \in QSlots : Replied(i)' = Replied(i)
  BY <1>1 DEF Replying, Doing, Now, Replied
<1>5. 0 \in Nat /\ \A k \in Nat : k + 0 = k
  OBVIOUS
<1> QED
  BY <1>1, <1>2, <1>3, <1>4, <1>5, OneReadKept

(* The SimBricks thread sends a message to the host.                       *)
LEMMA SendRead ==
  ASSUME TypeOK, RingOK, Orderly, OneRead, SbSend
  PROVE  RingOK' /\ Orderly' /\ OneRead'
<1>1. PICK h \in QSlots : h = q2sb_head
  BY DEF TypeOK, Q2sbOK
<1>2. PICK m \in Message : m = q2sb[h].msg /\ d2h' = Append(d2h, m) /\ q2sb[h].ready
  BY <1>1 DEF SbSend, TypeOK, Working, Q2sbOK, Array, Forwarded
<1>3. UNCHANGED <<h2d, sb2q, sb2q_head, sb2q_tail, main, reg, thr, host>>
  BY DEF SbSend, sb2qVars, mainVars, hostVars
<1>4. RingOK' /\ Orderly' /\ (Reading' <=> Reading)
  BY <1>3, SlotsLeft, SameOrderly
<1>5. ~q2sb'[h].ready /\ \A i \in QSlots : i # h => q2sb'[i] = q2sb[i]
  BY <1>1, Slot DEF SbSend, TypeOK, Q2sbOK, Array
<1>6. \A i \in QSlots : Replied(i)' => i # h /\ Replied(i) /\ q2sb'[i].msg.val = q2sb[i].msg.val
  BY <1>5 DEF Replied
<1>7. PICK l \in Nat : l = Len(d2h) + 1
  BY AppendShape, <1>2 DEF TypeOK, ChanOK
<1>8. /\ d2h'[l] = m
      /\ \A k \in Nat : Returned(k)' =>
           (k = l /\ m.type = "MMIO_READ_COMP") \/ (Returned(k) /\ d2h'[k].val = d2h[k].val)
  <2> DEFINE s == Append(d2h, m)
  <2>1. /\ Len(s) = Len(d2h) + 1 /\ Len(d2h) \in Nat /\ s[Len(d2h) + 1] = m
        /\ \A k \in 1 .. Len(d2h) : s[k] = d2h[k]
    BY AppendShape DEF TypeOK, ChanOK
  <2>2. d2h' = s
    BY <1>2
  <2> HIDE DEF s
  <2> QED
    BY <1>7, <2>1, <2>2 DEF Returned
<1>9. Replying' = Replying
  BY <1>3 DEF Replying, Doing, Now
<1>10. CASE m.type # "MMIO_READ_COMP"
  <2>1. 0 \in Nat /\ \A k \in Nat : k + 0 = k
    OBVIOUS
  <2> QED
    BY <1>3, <1>4, <1>6, <1>8, <1>9, <1>10, <2>1, OneReadKept
<1>11. CASE m.type = "MMIO_READ_COMP"
  <2>1. Replied(h)
    BY <1>2, <1>11 DEF Replied
  <2>2. /\ ~Reading /\ ~Replying /\ host.reading /\ m.val = host.seen
        /\ \A k \in Nat : ~Returned(k)
        /\ \A i \in QSlots : Replied(i) => i = h
    BY <1>2, <2>1, Zenon DEF OneRead
  <2>3. (\A i \in QSlots : ~Replied(i)') /\ \A k \in Nat : Returned(k)' => k = l
    BY <1>6, <1>8, <2>2
  <2>4. \A k \in Nat : Returned(k)' => d2h'[k].val = host.seen
    BY <1>8, <2>2, <2>3
  <2> QED
    BY <1>3, <1>4, <1>9, <2>2, <2>3, <2>4, Zenon DEF OneRead
<1> QED
  BY <1>10, <1>11

(* Steps of which a read takes no notice.                                  *)
LEMMA QuietRead ==
  ASSUME TypeOK, RingOK, Orderly, OneRead, Replying' => Replying,
         UNCHANGED <<h2d, d2h, sb2q, sb2q_head, sb2q_tail, reg, host>>,
         main' = "busy" <=> main = "busy",
         \A i \in QSlots : Replied(i)' => Replied(i) /\ q2sb'[i].msg.val = q2sb[i].msg.val
  PROVE  RingOK' /\ Orderly' /\ OneRead'
<1>1. RingOK' /\ Orderly' /\ (Reading' <=> Reading)
  BY SlotsLeft, SameOrderly
<1>2. \A k \in Nat : k + 0 = k /\ Returned(k)' = Returned(k)
  BY DEF Returned
<1>3. 0 \in Nat
  OBVIOUS
<1> QED
  BY <1>1, <1>2, <1>3, OneReadKept

(* The steps of a call but for the filling of a slot.                      *)
LEMMA CallRead ==
  ASSUME TypeOK, RingOK, Orderly, OneRead, NEW u \in Threads,
         sb_op_alloc(u) \/ DmaReturn(u) \/ (u \in Pollers /\ event_notifier_set(u))
  PROVE  RingOK' /\ Orderly' /\ OneRead'
<1>1. /\ thr[u].todo \in Jobs(u) /\ thr[u].todo # <<>> /\ ThreadsOK
      /\ thr[u].pc = "wait" => Now(u).type \in Dma
  BY DEF sb_op_alloc, DmaReturn, event_notifier_set, At, TypeOK, ThreadsOK, ThreadOK
<1>2. UNCHANGED <<h2d, d2h, sb2q, sb2q_head, sb2q_tail, reg, host, main, q2sb>>
  BY DEF sb_op_alloc, DmaReturn, event_notifier_set, chanVars, sb2qVars, q2sbVars, mainVars, hostVars
<1>3. Replying' => Replying
  <2>1. CASE u # Main
    <3>1. thr'[Main] = thr[Main]
      BY <1>1, <2>1, Consts, Becoming DEF sb_op_alloc, DmaReturn, event_notifier_set, Becomes
    <3> QED
      BY <3>1 DEF Replying, Doing, Now
  <2>2. CASE u = Main /\ sb_op_alloc(u)
    <3>1. Becomes(u, thr[u].todo, "fill", q2sb_tail)
      BY <1>1, <2>2, Becoming DEF sb_op_alloc
    <3>2. thr'[Main].todo = thr[Main].todo
      BY <2>2, <3>1 DEF Becomes
    <3> QED
      BY <3>2 DEF Replying, Doing, Now
  <2>3. CASE u = Main /\ DmaReturn(u)
    <3>1. Becomes(u, Tail(thr[u].todo), "call", thr[u].slot)
      BY <1>1, <2>3, Becoming DEF DmaReturn
    <3>2. thr'[Main].todo = Tail(thr[Main].todo)
      BY <2>3, <3>1 DEF Becomes
    <3>3. Now(u).type \in Dma
      BY <1>1, <2>3 DEF DmaReturn, At
    <3>4. Head(Tail(thr[u].todo)).type # "MMIO_READ_COMP"
      BY <1>1, <3>3, JobShape DEF Now, Dma
    <3> QED
      BY <2>3, <3>2, <3>4 DEF Replying, Doing, Now
  <2> QED
    BY <2>1, <2>2, <2>3, Consts
<1>4. \A i \in QSlots : Replied(i)' => Replied(i) /\ q2sb'[i].msg.val = q2sb[i].msg.val
  BY <1>2 DEF Replied
<1> QED
  BY <1>2, <1>3, <1>4, QuietRead

(* A thread posts a message; what a register read returns is read from the *)
(* device's register here.                                                 *)
LEMMA FillRead ==
  ASSUME TypeOK, RingOK, Orderly, OneRead, NEW u \in Threads, Fill(u)
  PROVE  RingOK' /\ Orderly' /\ OneRead'
<1> DEFINE c == Now(u)
           s == thr[u].slot
           own == c.type = "INT" /\ c.of = Main
           told == IF own THEN [notified EXCEPT ![Main] = @ + 1] ELSE notified
           val == CASE c.type = "MMIO_READ_COMP" -> reg
                    [] c.type = "INT"            -> told[c.of]
                    [] OTHER                     -> 0
<1>1. /\ thr[u].todo \in Jobs(u) /\ thr[u].todo # <<>> /\ ThreadsOK
      /\ s \in QSlots /\ ~q2sb[s].ready
  BY DEF Fill, At, TypeOK, ThreadsOK, ThreadOK
<1>2. /\ UNCHANGED <<h2d, d2h, sb2q, sb2q_head, sb2q_tail, reg, host, main>>
      /\ q2sb' = [q2sb EXCEPT ![s] = Full(Msg(c.type, c.of, val))]
      /\ \/ c.type \in Dma /\ thr' = [thr EXCEPT ![u].pc = "wait"]
         \/ c.type \notin Dma /\ Return(u)
  BY Zenon DEF Fill, chanVars, sb2qVars, mainVars, hostVars
<1>3. /\ c.type = "MMIO_READ_COMP" => u = Main /\ val = reg
      /\ c.type \notin Dma => Tail(thr[u].todo) = <<>>
  BY <1>1, JobShape DEF Now
<1>4. PICK m : m = Msg(c.type, c.of, val)
  OBVIOUS
<1>5. m.type = c.type /\ m.val = val
  BY <1>4, Msgs
<1>6. PICK j \in QSlots : j = s
  BY <1>1
<1>7. /\ \A i \in QSlots : i # j => q2sb'[i] = q2sb[i]
      /\ q2sb'[j].ready /\ q2sb'[j].msg = m
  BY <1>2, <1>4, <1>6, Slot DEF TypeOK, Q2sbOK, Array
<1>8. \/ c.type \in Dma /\ Becomes(u, thr[u].todo, "wait", thr[u].slot)
      \/ c.type \notin Dma /\ Becomes(u, Tail(thr[u].todo), "call", thr[u].slot)
  BY <1>1, <1>2, Becoming
<1>9. \A i \in QSlots : Replied(i)' =>
        \/ i = j /\ c.type = "MMIO_READ_COMP"
        \/ Replied(i) /\ q2sb'[i].msg.val = q2sb[i].msg.val
  BY <1>5, <1>7 DEF Replied
<1>10. Replying' => Replying /\ (u = Main => c.type \in Dma)
  <2>1. CASE u # Main
    <3>1. thr'[Main] = thr[Main]
      BY <1>8, <2>1, Consts DEF Becomes
    <3> QED
      BY <2>1, <3>1 DEF Replying, Doing, Now
  <2>2. CASE u = Main
    <3>1. CASE c.type \in Dma
      <4>1. thr'[Main].todo = thr[Main].todo
        BY <1>8, <2>2, <3>1 DEF Becomes
      <4> QED
        BY <3>1, <4>1 DEF Replying, Doing, Now
    <3>2. CASE c.type \notin Dma
      <4>1. Becomes(u, Tail(thr[u].todo), "call", thr[u].slot)
        BY <1>8, <3>2
      <4>2. thr'[u].todo = Tail(thr[u].todo)
        BY <4>1 DEF Becomes
      <4>3. thr'[Main].todo = <<>>
        BY <1>3, <2>2, <3>2, <4>2
      <4> QED
        BY <4>3 DEF Replying, Doing
    <3> QED
      BY <3>1, <3>2
  <2> QED
    BY <2>1, <2>2
<1> HIDE DEF val, told, own
<1>11. CASE c.type # "MMIO_READ_COMP"
  BY <1>2, <1>9, <1>10, <1>11, QuietRead
<1>12. CASE c.type = "MMIO_READ_COMP"
  <2>1. Replying
    BY <1>1, <1>3, <1>12 DEF Replying, Doing
  <2>2. /\ ~Reading /\ host.reading /\ reg = host.seen
        /\ \A i \in QSlots : ~Replied(i)
        /\ \A k \in Nat : ~Returned(k)
    BY <2>1, Zenon DEF OneRead
  <2>3. RingOK' /\ Orderly' /\ (Reading' <=> Reading)
    BY <1>2, SlotsLeft, SameOrderly
  <2>4. ~Replying' /\ m.val = reg
    BY <1>3, <1>5, <1>10, <1>12 DEF Dma
  <2>5. \A i \in QSlots : Replied(i)' => i = j
    BY <1>9, <2>2
  <2>6. \A k \in Nat : ~Returned(k)'
    BY <1>2, <2>2 DEF Returned
  <2>7. host'.reading /\ host'.seen = host.seen /\ q2sb'[j].msg.val = host.seen
    BY <1>2, <1>7, <2>2, <2>4
  <2> QED
    BY <2>2, <2>3, <2>4, <2>5, <2>6, <2>7, Zenon DEF OneRead
<1> QED
  BY <1>11, <1>12

(* The rest of the main loop, a poller that starts, and the steps of the   *)
(* SimBricks thread that move no message.                                  *)
LEMMA LoopRead ==
  ASSUME TypeOK, RingOK, Orderly, OneRead,
         \/ MainDone \/ MainPoll \/ \E p \in Pollers : PollerStart(p)
         \/ SbForward \/ SbNothing \/ SbCopied \/ UNCHANGED vars
  PROVE  RingOK' /\ Orderly' /\ OneRead'
<1>1. UNCHANGED <<h2d, d2h, q2sb, reg, host>>
  BY DEF MainDone, MainPoll, PollerStart, SbForward, SbNothing, SbCopied, vars, chanVars,
         q2sbVars, mainVars, hostVars
<1>2. /\ \A i \in QSlots : Replied(i)' => Replied(i) /\ q2sb'[i].msg.val = q2sb[i].msg.val
      /\ \A k \in Nat : k + 0 = k /\ Returned(k)' = Returned(k)
  BY <1>1 DEF Replied, Returned
<1>3. CASE thr'[Main] = thr[Main]
  <2>1. Replying' = Replying
    BY <1>3 DEF Replying, Doing, Now
  <2>2. CASE MainDone
    <3>1. RingOK' /\ Orderly' /\ (Reading' <=> Reading)
      BY <2>2, SlotFreed, DoneOrderly
    <3>2. 0 \in Nat
      OBVIOUS
    <3> QED
      BY <1>1, <1>2, <2>1, <3>1, <3>2, OneReadKept
  <2>3. CASE ~MainDone
    <3>1. UNCHANGED <<sb2q, sb2q_head, sb2q_tail>> /\ (main' = "busy" <=> main = "busy")
      BY <2>3 DEF MainPoll, NotifierTurn, MainIdle, PollerStart, SbForward, SbNothing, SbCopied,
           vars, sb2qVars, mainVars
    <3> QED
      BY <1>1, <1>2, <2>1, <3>1, QuietRead
  <2> QED
    BY <2>2, <2>3
<1>4. CASE thr'[Main] # thr[Main]
  <2>1. ThreadsOK /\ Main \in Threads
    BY Consts DEF TypeOK
  <2>2. ~\E p \in Pollers : PollerStart(p)
    <3> SUFFICES ASSUME NEW p \in Pollers, PollerStart(p) PROVE FALSE
      OBVIOUS
    <3>1. Becomes(p, PollerJob(p), thr[p].pc, thr[p].slot)
      BY <2>1, Consts, Becoming DEF PollerStart
    <3> QED
      BY <1>4, <2>1, <3>1, Consts DEF Becomes
  <2>3. MainPoll
    BY <1>4, <2>2 DEF MainDone, SbForward, SbNothing, SbCopied, vars
  <2>4. thr' = [thr EXCEPT ![Main].todo = <<Call("INT", scan)>>]
    BY <1>4, <2>3 DEF MainPoll
  <2>5. Becomes(Main, <<Call("INT", scan)>>, thr[Main].pc, thr[Main].slot)
    BY <2>1, <2>4, Becoming
  <2>6. thr'[Main].todo = <<Call("INT", scan)>>
    BY <2>5 DEF Becomes
  <2>7. Head(thr'[Main].todo).type = "INT"
    BY <2>6, ShortTails DEF Call
  <2>8. ~Replying'
    BY <2>7 DEF Replying, Doing, Now
  <2>9. UNCHANGED <<sb2q, sb2q_head, sb2q_tail>> /\ (main' = "busy" <=> main = "busy")
    BY <2>3 DEF MainPoll, NotifierTurn, MainIdle, sb2qVars
  <2> QED
    BY <1>1, <1>2, <2>8, <2>9, QuietRead
<1> QED
  BY <1>3, <1>4

(* The invariant of register accesses.                                     *)
THEOREM ReadInvariance == Spec => []ReadInv
<1>1. Init => RingOK /\ Orderly /\ OneRead
  <2> SUFFICES ASSUME Init PROVE RingOK /\ Orderly /\ OneRead
    OBVIOUS
  <2>1. \A i \in SbSlots : sb2q[i].ready = FALSE
    BY Slot DEF Init, SbSlots
  <2>2. RingOK
    <3>1. 0 \in 0 .. SB2Q_SZ /\ sb2q_tail = Slotted(sb2q_head, 0)
      BY Consts DEF Init, Slotted
    <3>2. \A i \in SbSlots : ~(Behind(0, i) < 0)
      BY Consts, Round DEF SbSlots, Behind
    <3>3. sb2q_head = 0
      BY DEF Init
    <3> QED
      BY <2>1, <3>1, <3>2, <3>3 DEF RingOK
  <2>3. \A p, a : ~Pending(p, a)
    <3>1. \A p, a : ~InSlot(p, a)
      BY <2>1 DEF InSlot, Posted
    <3>2. \A p, a : ~InChan(p, a)
      BY DEF Init, InChan
    <3> QED
      BY <3>1, <3>2 DEF Pending
  <2>4. reg = 0 /\ host.written = 0
    BY DEF Init
  <2>5. Orderly
    BY <2>3, <2>4 DEF Orderly
  <2>6. ~Reading /\ ~Replying /\ (\A i \in QSlots : ~Replied(i)) /\ \A k \in Nat : ~Returned(k)
    BY <2>3, Consts, Slot DEF Init, Reading, Replying, Doing, Replied, Returned, QSlots
  <2> QED
    BY <2>2, <2>5, <2>6 DEF OneRead
<1>2. ReadInv /\ [Next]_vars => RingOK' /\ Orderly' /\ OneRead'
  <2> SUFFICES ASSUME ReadInv, [Next]_vars PROVE RingOK' /\ Orderly' /\ OneRead'
    OBVIOUS
  <2>1. TypeOK /\ RingOK /\ Orderly /\ OneRead
    BY DEF ReadInv
  <2>2. CASE \E type \in Access : HostMmio(type)
    <3>1. RingOK'
      BY <2>1, <2>2, SlotsLeft DEF HostMmio, sb2qVars, mainVars
    <3> QED
      BY <2>1, <2>2, <3>1, MmioOrderly
  <2>3. CASE HostTake
    <3>1. RingOK'
      BY <2>1, <2>3, SlotsLeft DEF HostTake, sb2qVars, mainVars
    <3> QED
      BY <2>1, <2>3, <3>1, TakenRead
  <2>4. CASE SbStep
    BY <2>1, <2>4, PollRead, SendRead, LoopRead DEF SbStep
  <2>5. CASE \E t \in Threads : ThreadStep(t)
    BY <2>1, <2>5, CallRead, FillRead DEF ThreadStep
  <2>6. CASE MainTake
    <3>1. RingOK'
      BY <2>1, <2>6 DEF MainTake, sb2qVars, RingOK
    <3> QED
      BY <2>1, <2>6, <3>1, TakeOrderly
  <2>7. CASE MainDone \/ MainPoll \/ (\E p \in Pollers : PollerStart(p)) \/ UNCHANGED vars
    BY <2>1, <2>7, LoopRead
  <2> QED
    BY <2>2, <2>3, <2>4, <2>5, <2>6, <2>7, NextSplit
<1>3. Init => ReadInv
  BY <1>1, InitTypes DEF ReadInv
<1>4. ReadInv /\ [Next]_vars => ReadInv'
  BY <1>2, TypesKept DEF ReadInv
<1> QED
  BY <1>3, <1>4, PTL DEF Spec

(* A register read returns the effect of exactly the writes posted before  *)
(* it, whatever the array of accesses holds.                               *)
THEOREM ReadAlwaysSeesWrites == Spec => []ReadSeesWrites
<1>1. ReadInv => ReadSeesWrites
  <2> SUFFICES ASSUME ReadInv, NEW i \in DOMAIN d2h, d2h[i].type = "MMIO_READ_COMP"
               PROVE  d2h[i].val = host.seen
    BY DEF ReadSeesWrites
  <2>1. d2h \in Seq(Message)
    BY DEF ReadInv, TypeOK, ChanOK
  <2>2. i \in 1 .. Len(d2h) /\ i \in Nat
    BY <2>1
  <2> QED
    BY <2>2 DEF ReadInv, OneRead, Returned
<1> QED
  BY <1>1, ReadInvariance, PTL

-----------------------------------------------------------------------------
(* Slots. Every slot that was given and whose message is not forwarded has *)
(* a number, 0 the one at the head; a thread that fills or waits has the   *)
(* number pos[t] and the last read completion the number rpos. The numbers *)
(* of slots that were forwarded since are negative.                        *)

\* Slot i is the k-th from the head, up to two times round.
IsKth(i, k) ==
  \/ i = q2sb_head + k
  \/ i = q2sb_head + k - Q2SB_SZ
  \/ i = q2sb_head + k - Q2SB_SZ - Q2SB_SZ

Filling(t) == At(t, "fill")
InCall(u)  == thr[u].todo # <<>> /\ thr[u].pc \in {"fill", "wait"}

\* Thread u cannot return before t has filled its slot.
Stuck(pos, u, t)  == InCall(u) /\ Now(u).type \in Dma /\ pos[t] < pos[u]
Passing(pos, u, t) == Doing(u, "DMA_WRITE") /\ InCall(u) /\ ~Stuck(pos, u, t)

\* What may still be posted before t has filled its slot: an interrupt for an
\* event that is set, for one that a poller will set and for one the main
\* thread has taken, the DMA a thread will be stuck in, and a read completion.
Tags == (Pollers \X {"event", "notify", "dma"}) \cup ({Main} \X {"dma", "int", "reply"})

Comes(pos, rpos, t, u, kind) ==
  \/ kind = "event"  /\ event_set[u]
  \/ kind = "notify" /\ u # t /\ (Doing(u, "NOTIFY") \/ Passing(pos, u, t))
  \/ kind = "dma"    /\ u # t /\ ~Stuck(pos, u, t)
  \/ kind = "int"    /\ u # t /\ ((Doing(u, "INT") /\ thr[u].pc = "call") \/ Passing(pos, u, t))
  \/ kind = "reply"  /\ u # t /\ rpos <= pos[t]

ToCome(pos, rpos, t) == {x \in Tags : Comes(pos, rpos, t, x[1], x[2])}

\* n slots are given; those not being filled hold their messages. If there
\* are more than slots, the last ones are still waited for.
Numbered(n, pos) ==
  /\ IsKth(q2sb_tail, n)
  /\ \A t \in Threads : Filling(t) => pos[t] \in 0 .. n - 1 /\ IsKth(thr[t].slot, pos[t])
  /\ \A t, u \in Threads : Filling(t) /\ Filling(u) /\ pos[t] = pos[u] => t = u
  /\ \A i, k \in QSlots : IsKth(i, k) =>
       (q2sb[i].ready <=> k < n /\ ~\E t \in Threads : Filling(t) /\ pos[t] = k)
  /\ \A k \in Q2SB_SZ .. n - 1 : \E t \in Threads : Filling(t) /\ pos[t] = k

FewMore(n, pos, rpos) ==
  \A t \in Threads : Filling(t) =>
    n - 1 - pos[t] + Cardinality(ToCome(pos, rpos, t)) <= 3 * NPollers + 1

\* Message k is in slot i.
Holds(i, k) == i \in QSlots /\ k \in QSlots /\ IsKth(i, k) /\ q2sb[i].ready

WaitersIn(pos) ==
  \A u \in Threads : At(u, "wait") /\ pos[u] >= 1 =>
    \E i \in QSlots : Holds(i, pos[u]) /\ q2sb[i].msg.type \in Dma /\ q2sb[i].msg.of = u

ReplyIn(pos, rpos) == rpos >= 1 =>
  \/ Filling(Main) /\ Doing(Main, "MMIO_READ_COMP") /\ rpos = pos[Main]
  \/ \E i \in QSlots : Holds(i, rpos) /\ q2sb[i].msg.type = "MMIO_READ_COMP"

Numbering(n, pos, rpos) ==
  Numbered(n, pos) /\ FewMore(n, pos, rpos) /\ WaitersIn(pos) /\ ReplyIn(pos, rpos)

SlotsNumbered == \E n \in Nat, pos \in [Threads -> Int], rpos \in Int : Numbering(n, pos, rpos)

(* But for events, none is of thread t itself: 3 NPollers + 1 at most.     *)
LEMMA TagsFew ==
  ASSUME NEW t \in Threads, NEW T \in SUBSET Tags, \A x \in T : x[1] = t => x[2] = "event"
  PROVE  IsFiniteSet(T) /\ Cardinality(T) \in 0 .. 3 * NPollers + 1
<1> DEFINE kinds == {"event", "notify", "dma"}
           answers == {"dma", "int", "reply"}
           A == Pollers \X kinds
           B == {Main} \X answers
<1>1. IsFiniteSet(Pollers) /\ Cardinality(Pollers) = NPollers
  <2>1. 1 \in Int /\ NPollers \in Int /\ (1 > NPollers <=> NPollers = 0)
    BY BridgeAssumption
  <2>2. IsFiniteSet(1 .. NPollers) /\ Cardinality(1 .. NPollers) = NPollers
    BY <2>1, FS_Interval
  <2> QED
    BY <2>2 DEF Pollers
<1>2. \A a, b, c : a # b /\ b # c /\ a # c =>
        IsFiniteSet({a, b, c}) /\ Cardinality({a, b, c}) = 3
  <2> SUFFICES ASSUME NEW a, NEW b, NEW c, a # b, b # c, a # c
               PROVE  IsFiniteSet({a, b, c}) /\ Cardinality({a, b, c}) = 3
    OBVIOUS
  <2>0. \A S, x : IsFiniteSet(S) /\ x \notin S =>
          IsFiniteSet(S \cup {x}) /\ Cardinality(S \cup {x}) = Cardinality(S) + 1
    BY FS_AddElement
  <2>1. IsFiniteSet({a}) /\ Cardinality({a}) = 1 /\ b \notin {a} /\ c \notin {a} \cup {b}
    BY FS_Singleton
  <2>2. IsFiniteSet({a} \cup {b}) /\ Cardinality({a} \cup {b}) = 1 + 1
    BY <2>0, <2>1, Zenon
  <2>3. /\ IsFiniteSet(({a} \cup {b}) \cup {c})
        /\ Cardinality(({a} \cup {b}) \cup {c}) = 1 + 1 + 1
    BY <2>0, <2>1, <2>2, Zenon
  <2>4. ({a} \cup {b}) \cup {c} = {a, b, c}
    OBVIOUS
  <2> QED
    BY <2>3, <2>4
<1>3. /\ IsFiniteSet(kinds) /\ Cardinality(kinds) = 3
      /\ IsFiniteSet(answers) /\ Cardinality(answers) = 3
  BY <1>2
<1>4. IsFiniteSet(A) /\ Cardinality(A) = NPollers * 3
  <2> HIDE DEF kinds
  <2> QED
    BY <1>1, <1>3, FS_Product
<1>5. IsFiniteSet(B) /\ Cardinality(B) = 3
  <2>1. IsFiniteSet({Main}) /\ Cardinality({Main}) = 1
    BY FS_Singleton
  <2> HIDE DEF answers
  <2>2. IsFiniteSet(B) /\ Cardinality(B) = 1 * 3
    BY <1>3, <2>1, FS_Product
  <2> QED
    BY <2>2
<1>6. CASE t = Main
  <2>1. T \in SUBSET A
    BY <1>6 DEF Tags
  <2>2. IsFiniteSet(T) /\ Cardinality(T) \in Nat /\ Cardinality(T) <= NPollers * 3
    BY <1>4, <2>1, FS_Subset, FS_CardinalityType
  <2> QED
    BY <2>2, BridgeAssumption
<1>7. CASE t \in Pollers
  <2> DEFINE C == A \cup B
             D == C \ {<<t, "notify">>}
             E == D \ {<<t, "dma">>}
  <2>1. IsFiniteSet(C) /\ Cardinality(C) = NPollers * 3 + 3
    <3>1. A \cap B = {}
      BY Consts
    <3>2. Cardinality(A \cap B) = 0
      BY <3>1, FS_EmptySet
    <3> HIDE DEF A, B
    <3>3. IsFiniteSet(C) /\ Cardinality(C) = Cardinality(A) + Cardinality(B) - Cardinality(A \cap B)
      BY <1>4, <1>5, FS_Union
    <3> HIDE DEF C
    <3> QED
      BY <1>4, <1>5, <3>2, <3>3, BridgeAssumption
  <2>2. <<t, "notify">> \in C /\ <<t, "dma">> \in D
    BY <1>7
  <2>3. T \in SUBSET E
    BY <1>7, Consts DEF Tags
  <2> HIDE DEF C
  <2>4. IsFiniteSet(D) /\ Cardinality(D) = Cardinality(C) - 1
    BY <2>1, <2>2, FS_RemoveElement
  <2> HIDE DEF D
  <2>5. IsFiniteSet(E) /\ Cardinality(E) = Cardinality(D) - 1
    BY <2>2, <2>4, FS_RemoveElement
  <2> HIDE DEF E
  <2>6. IsFiniteSet(T) /\ Cardinality(T) \in Nat /\ Cardinality(T) <= Cardinality(E)
    BY <2>3, <2>5, FS_Subset, FS_CardinalityType
  <2>7. Cardinality(E) = 3 * NPollers + 1
    BY <2>1, <2>4, <2>5, BridgeAssumption
  <2> QED
    BY <2>6, <2>7, BridgeAssumption
<1> QED
  BY <1>6, <1>7, Consts

(* What may be posted before t has filled its slot.                        *)
LEMMA TagCount ==
  ASSUME NEW pos, NEW rpos, NEW t \in Threads
  PROVE  /\ IsFiniteSet(ToCome(pos, rpos, t))
         /\ Cardinality(ToCome(pos, rpos, t)) \in 0 .. 3 * NPollers + 1
<1>1. /\ ToCome(pos, rpos, t) \in SUBSET Tags
      /\ \A x \in ToCome(pos, rpos, t) : x[1] = t => x[2] = "event"
  BY DEF ToCome, Comes
<1> QED
  BY <1>1, TagsFew

(* One less, or one in the place of another.                               *)
LEMMA FewerTags ==
  ASSUME NEW X, NEW Y, NEW x, NEW y, IsFiniteSet(X), Cardinality(X) \in Nat, x \in X
  PROVE  /\ Y \subseteq X \ {x} => Cardinality(Y) \in Nat /\ Cardinality(Y) <= Cardinality(X) - 1
         /\ Y \subseteq (X \ {x}) \cup {y} =>
              Cardinality(Y) \in Nat /\ Cardinality(Y) <= Cardinality(X)
         /\ Y \subseteq X => Cardinality(Y) \in Nat /\ Cardinality(Y) <= Cardinality(X)
<1>1. IsFiniteSet(X \ {x}) /\ Cardinality(X \ {x}) = Cardinality(X) - 1
  BY FS_RemoveElement
<1>2. /\ IsFiniteSet((X \ {x}) \cup {y})
      /\ Cardinality((X \ {x}) \cup {y}) \in Int
      /\ Cardinality((X \ {x}) \cup {y}) <= Cardinality(X)
  <2> DEFINE Z == X \ {x}
  <2>1. /\ IsFiniteSet(Z \cup {y})
        /\ Cardinality(Z \cup {y}) = IF y \in Z THEN Cardinality(Z) ELSE Cardinality(Z) + 1
    BY <1>1, FS_AddElement
  <2>2. Cardinality(Z) = Cardinality(X) - 1
    BY <1>1
  <2> HIDE DEF Z
  <2>3. Cardinality(Z \cup {y}) \in Int /\ Cardinality(Z \cup {y}) <= Cardinality(X)
    BY <2>1, <2>2
  <2> QED
    BY <2>1, <2>3 DEF Z
<1>3. ASSUME NEW Z, IsFiniteSet(Z), Y \subseteq Z
      PROVE  Cardinality(Y) \in Nat /\ Cardinality(Y) <= Cardinality(Z)
  BY <1>3, FS_Subset, FS_CardinalityType
<1>4. ASSUME Y \subseteq X \ {x}
      PROVE  Cardinality(Y) \in Nat /\ Cardinality(Y) <= Cardinality(X) - 1
  BY <1>1, <1>3, <1>4
<1>5. ASSUME Y \subseteq (X \ {x}) \cup {y}
      PROVE  Cardinality(Y) \in Nat /\ Cardinality(Y) <= Cardinality(X)
  <2> DEFINE Z == (X \ {x}) \cup {y}
  <2>1. Cardinality(Y) \in Nat /\ Cardinality(Y) <= Cardinality(Z)
    BY <1>2, <1>3, <1>5
  <2>2. Cardinality(Z) \in Int /\ Cardinality(Z) <= Cardinality(X)
    BY <1>2
  <2> HIDE DEF Z
  <2> QED
    BY <2>1, <2>2
<1>6. ASSUME Y \subseteq X
      PROVE  Cardinality(Y) \in Nat /\ Cardinality(Y) <= Cardinality(X)
  BY <1>3, <1>6
<1> QED
  BY <1>4, <1>5, <1>6

(* A slot has one number, and a number one slot, within one round.         *)
LEMMA SameKth ==
  ASSUME q2sb_head \in QSlots, NEW i \in QSlots, NEW j \in QSlots,
         NEW k \in QSlots, NEW l \in QSlots,
         IsKth(i, k), IsKth(j, l)
  PROVE  i = j <=> k = l
BY Consts DEF IsKth, QSlots

(* After the slot of a thread that fills, fewer were given than there are. *)
LEMMA FillerNear ==
  ASSUME TypeOK, NEW n \in Nat, NEW pos \in [Threads -> Int], NEW rpos \in Int,
         Numbering(n, pos, rpos), NEW t \in Threads, Filling(t)
  PROVE  n - 1 - pos[t] < Q2SB_SZ
<1>1. n - 1 - pos[t] + Cardinality(ToCome(pos, rpos, t)) <= 3 * NPollers + 1
  BY DEF Numbering, FewMore
<1>2. Cardinality(ToCome(pos, rpos, t)) >= 0 /\ Cardinality(ToCome(pos, rpos, t)) \in Int
  BY TagCount
<1>3. NPollers \in Nat /\ Q2SB_SZ \in Nat /\ Q2SB_SZ >= 3 * NPollers + 2
  BY BridgeAssumption
<1> QED
  BY <1>1, <1>2, <1>3

(* Two slots with different numbers are different if these are close.      *)
LEMMA NumbersApart ==
  ASSUME TypeOK, NEW n \in Nat, NEW pos \in [Threads -> Int], NEW rpos \in Int,
         Numbering(n, pos, rpos)
  PROVE  SlotsApart
<1> SUFFICES ASSUME NEW t \in Threads, NEW u \in Threads, t # u, Filling(t), Filling(u),
                    pos[t] <= pos[u], thr[t].slot = thr[u].slot
             PROVE  FALSE
  BY DEF SlotsApart, Filling
<1>1. /\ pos[t] < pos[u] /\ pos[u] < n
      /\ IsKth(thr[t].slot, pos[t]) /\ IsKth(thr[u].slot, pos[u])
  BY DEF Numbering, Numbered
<1>2. n - 1 - pos[t] < Q2SB_SZ
  BY FillerNear
<1>3. q2sb_head \in Int /\ Q2SB_SZ \in Nat \ {0}
  BY Consts DEF TypeOK, Q2sbOK, QSlots
<1> QED
  BY <1>1, <1>2, <1>3 DEF IsKth

(* Steps that neither give nor free nor fill a slot.                       *)
LEMMA NumberingKept ==
  ASSUME TypeOK, NEW n \in Nat, NEW pos \in [Threads -> Int], NEW rpos \in Int,
         Numbering(n, pos, rpos), UNCHANGED q2sbVars,
         \A t \in Threads : /\ Filling(t)' <=> Filling(t)
                            /\ Filling(t) => thr'[t] = thr[t]
                            /\ At(t, "wait")' => At(t, "wait"),
         \A t \in Threads : Filling(t) =>
           \/ ToCome(pos, rpos, t)' \subseteq ToCome(pos, rpos, t)
           \/ \E x \in ToCome(pos, rpos, t) : \E y :
                ToCome(pos, rpos, t)' \subseteq (ToCome(pos, rpos, t) \ {x}) \cup {y}
  PROVE  Numbering(n, pos, rpos)'
<1>1. UNCHANGED <<q2sb, q2sb_tail, q2sb_head>>
  BY DEF q2sbVars
<1>2. \A i, k : /\ IsKth(i, k)' <=> IsKth(i, k)
                /\ Holds(i, k)' <=> Holds(i, k)
  BY <1>1 DEF IsKth, Holds
<1>3. Numbered(n, pos)'
  BY <1>1, <1>2 DEF Numbering, Numbered
<1>4. WaitersIn(pos)'
  BY <1>1, <1>2 DEF Numbering, WaitersIn
<1>5. ReplyIn(pos, rpos)'
  <2>1. Filling(Main) /\ Doing(Main, "MMIO_READ_COMP") =>
          Filling(Main)' /\ Doing(Main, "MMIO_READ_COMP")'
    BY Consts DEF Doing, Now
  <2> QED
    BY <1>1, <1>2, <2>1 DEF Numbering, ReplyIn
<1>6. FewMore(n, pos, rpos)'
  <2> SUFFICES ASSUME NEW t \in Threads, Filling(t)
               PROVE  n - 1 - pos[t] + Cardinality(ToCome(pos, rpos, t)') <= 3 * NPollers + 1
    BY DEF FewMore
  <2> DEFINE X == ToCome(pos, rpos, t)
             Y == ToCome(pos, rpos, t)'
  <2>1. IsFiniteSet(X) /\ Cardinality(X) \in Nat
    BY TagCount
  <2>2. n - 1 - pos[t] + Cardinality(X) <= 3 * NPollers + 1
    BY DEF Numbering, FewMore
  <2>3. Y \subseteq X \/ \E x \in X : \E y : Y \subseteq (X \ {x}) \cup {y}
    OBVIOUS
  <2> HIDE DEF X, Y
  <2>4. Cardinality(Y) \in Nat /\ Cardinality(Y) <= Cardinality(X)
    <3>1. CASE Y \subseteq X
      BY <2>1, <3>1, FS_Subset, FS_CardinalityType
    <3>2. CASE \E x \in X : \E y : Y \subseteq (X \ {x}) \cup {y}
      BY <2>1, <3>2, FewerTags
    <3> QED
      BY <2>3, <3>1, <3>2
  <2>5. n - 1 - pos[t] + Cardinality(Y) <= 3 * NPollers + 1
    BY <2>1, <2>2, <2>4, BridgeAssumption
  <2> QED
    BY <2>5 DEF Y
<1> QED
  BY <1>3, <1>4, <1>5, <1>6 DEF Numbering

(* Steps that leave the threads and the events alone.                      *)
LEMMA QuietNumbering ==
  ASSUME TypeOK, NEW n \in Nat, NEW pos \in [Threads -> Int], NEW rpos \in Int,
         Numbering(n, pos, rpos), UNCHANGED <<q2sbVars, thr, event_set>>
  PROVE  Numbering(n, pos, rpos)'
<1>1. \A t \in Threads : /\ Filling(t)' <=> Filling(t)
                         /\ At(t, "wait")' => At(t, "wait")
  BY DEF Filling, At
<1>2. \A t \in Threads : ToCome(pos, rpos, t)' \subseteq ToCome(pos, rpos, t)
  BY DEF ToCome, Comes, Stuck, Passing, InCall, Doing, Now
<1> QED
  BY <1>1, <1>2, NumberingKept

(* A step of thread w that adds nothing to come: it was not stuck and has  *)
(* nothing to raise, or only what it had before.                           *)
LEMMA ThreadNumbering ==
  ASSUME TypeOK, NEW n \in Nat, NEW pos \in [Threads -> Int], NEW rpos \in Int,
         Numbering(n, pos, rpos), UNCHANGED q2sbVars, NEW w \in Threads,
         \E todo, pc, slot : Becomes(w, todo, pc, slot),
         ~Filling(w), thr'[w].pc = "call",
         UNCHANGED event_set,
         \A t \in Threads : Filling(t) =>
           /\ ~Stuck(pos, w, t)
           /\ Doing(w, "NOTIFY")' => Passing(pos, w, t)
           /\ Doing(w, "INT")' => Passing(pos, w, t)
  PROVE  Numbering(n, pos, rpos)'
<1>1. \A u \in Threads : u # w => thr'[u] = thr[u]
  BY DEF Becomes
<1>2. \A t \in Threads : /\ Filling(t)' <=> Filling(t)
                         /\ Filling(t) => thr'[t] = thr[t]
                         /\ At(t, "wait")' => At(t, "wait")
  BY <1>1 DEF Filling, At
<1>3. ASSUME NEW t \in Threads, Filling(t)
      PROVE  ToCome(pos, rpos, t)' \subseteq ToCome(pos, rpos, t)
  <2> SUFFICES ASSUME NEW x \in Tags, Comes(pos, rpos, t, x[1], x[2])'
               PROVE  Comes(pos, rpos, t, x[1], x[2])
    BY DEF ToCome
  <2> PICK u, kind : u \in Threads /\ u = x[1] /\ kind = x[2]
    BY Consts DEF Tags
  <2>1. Comes(pos, rpos, t, u, kind)'
    OBVIOUS
  <2>2. CASE u # w
    BY <1>1, <2>1, <2>2 DEF Comes, Stuck, Passing, InCall, Doing, Now
  <2>3. CASE u = w
    <3>1. ~Passing(pos, w, t)'
      BY DEF Passing, InCall
    <3> QED
      BY <1>3, <2>1, <2>3, <3>1 DEF Comes
  <2> QED
    BY <2>2, <2>3
<1> QED
  BY <1>2, <1>3, NumberingKept

(* The main thread takes an access; a poller starts.                       *)
LEMMA StartNumbering ==
  ASSUME TypeOK, NEW n \in Nat, NEW pos \in [Threads -> Int], NEW rpos \in Int,
         Numbering(n, pos, rpos), MainTake \/ \E p \in Pollers : PollerStart(p)
  PROVE  Numbering(n, pos, rpos)'
<1>1. PICK w, job :
        /\ w \in Threads /\ thr[w].todo = <<>> /\ thr' = [thr EXCEPT ![w].todo = job]
        /\ job = <<>> \/ (job # <<>> /\ Head(job).type \in {"DMA_READ", "MMIO_READ_COMP"})
  <2>1. ASSUME NEW p \in Pollers, PollerStart(p)
        PROVE  /\ thr[p].todo = <<>> /\ thr' = [thr EXCEPT ![p].todo = PollerJob(p)]
               /\ PollerJob(p) # <<>> /\ Head(PollerJob(p)).type = "DMA_READ"
    BY <2>1 DEF PollerStart, PollerJob, Call
  <2>2. ASSUME MainTake
        PROVE  \E job : /\ thr[Main].todo = <<>> /\ thr' = [thr EXCEPT ![Main].todo = job]
                        /\ job = <<>> \/ (job # <<>> /\ Head(job).type \in {"DMA_READ", "MMIO_READ_COMP"})
    <3>1. /\ thr[Main].todo = <<>> /\ sb2q[sb2q_head].ready
          /\ thr' = [thr EXCEPT ![Main].todo = Handler(sb2q[sb2q_head].msg.type)]
      BY <2>2 DEF MainTake, MainIdle
    <3>2. sb2q[sb2q_head].msg.type \in Access
      BY <3>1 DEF TypeOK, Sb2qOK
    <3>3. \A type \in Access : Handler(type) = <<>> \/
            (Handler(type) # <<>> /\ Head(Handler(type)).type \in {"DMA_READ", "MMIO_READ_COMP"})
      BY DEF Access, Handler, Call
    <3> QED
      BY <3>1, <3>2, <3>3
  <2> QED
    BY <2>1, <2>2, Consts
<1>2. UNCHANGED <<q2sbVars, event_set>>
  BY DEF MainTake, PollerStart
<1>3. Becomes(w, job, thr[w].pc, thr[w].slot)
  BY <1>1, Becoming DEF TypeOK
<1>4. thr[w].pc = "call"
  BY <1>1 DEF TypeOK, ThreadsOK, ThreadOK
<1>5. thr'[w].pc = "call" /\ thr'[w].todo = job
  BY <1>3, <1>4 DEF Becomes
<1>6. ~Filling(w) /\ \A t \in Threads : ~Stuck(pos, w, t)
  BY <1>1 DEF Filling, At, Stuck, InCall
<1>7. ~Doing(w, "NOTIFY")' /\ ~Doing(w, "INT")'
  BY <1>1, <1>5 DEF Doing, Now
<1>8. \E todo, pc, slot : Becomes(w, todo, pc, slot)
  BY <1>3
<1> QED
  BY <1>1, <1>2, <1>5, <1>6, <1>7, <1>8, ThreadNumbering

(* A thread that waits for a DMA behind a slot that is not filled waits on. *)
LEMMA StuckWaits ==
  ASSUME AliveInv, NEW n \in Nat, NEW pos \in [Threads -> Int], NEW rpos \in Int,
         Numbering(n, pos, rpos), NEW t \in Threads, NEW u \in Threads,
         Filling(t), Stuck(pos, u, t), At(u, "wait")
  PROVE  ~op_ready[u]
<1>1. pos[t] >= 0 /\ pos[u] >= 1 /\ pos[u] \in Int
  BY DEF Numbering, Numbered, Stuck
<1>2. PICK i \in QSlots : Holds(i, pos[u]) /\ q2sb[i].msg.type \in Dma /\ q2sb[i].msg.of = u
  BY <1>1 DEF Numbering, WaitersIn
<1>3. i # q2sb_head
  <2>1. IsKth(i, pos[u]) /\ pos[u] < Q2SB_SZ
    BY <1>2, Consts DEF Holds, QSlots
  <2>2. q2sb_head \in Int /\ Q2SB_SZ \in Nat \ {0}
    BY Consts DEF AliveInv, TypeOK, Q2sbOK, QSlots
  <2> QED
    BY <1>1, <2>1, <2>2 DEF IsKth
<1>4. UsedQ(u, i)
  BY <1>2, <1>3 DEF UsedQ, InQ, Holds
<1>5. Waiting(u, q2sb[i].msg.type)
  BY <1>4 DEF AliveInv, Alive
<1> QED
  BY <1>5 DEF Waiting

(* A DMA returns.                                                          *)
LEMMA ReturnNumbering ==
  ASSUME AliveInv, NEW n \in Nat, NEW pos \in [Threads -> Int], NEW rpos \in Int,
         Numbering(n, pos, rpos), NEW w \in Threads, DmaReturn(w)
  PROVE  Numbering(n, pos, rpos)'
<1>1. /\ thr[w].todo # <<>> /\ thr[w].pc = "wait" /\ op_ready[w] /\ Return(w)
      /\ UNCHANGED <<q2sbVars, event_set>>
  BY DEF DmaReturn, At
<1>2. TypeOK /\ ThreadsOK /\ thr[w].todo \in Jobs(w) /\ Now(w).type \in Dma
  BY <1>1 DEF AliveInv, TypeOK, ThreadsOK, ThreadOK
<1>3. Becomes(w, Tail(thr[w].todo), "call", thr[w].slot)
  BY <1>1, <1>2, Becoming
<1>4. thr'[w].todo = Tail(thr[w].todo) /\ thr'[w].pc = "call"
  BY <1>3 DEF Becomes
<1>5. ~Filling(w) /\ \A t \in Threads : Filling(t) => ~Stuck(pos, w, t)
  BY <1>1, StuckWaits DEF Filling, At
<1>6. ASSUME Doing(w, "NOTIFY")' \/ Doing(w, "INT")' PROVE Doing(w, "DMA_WRITE")
  <2>1. Now(w).type = "DMA_READ" => Head(Tail(thr[w].todo)).type = "DMA_WRITE"
    BY <1>1, <1>2, JobShape DEF Now
  <2>2. Now(w).type # "DMA_READ"
    BY <1>4, <1>6, <2>1 DEF Doing, Now
  <2> QED
    BY <1>1, <1>2, <2>2 DEF Doing, Dma
<1>7. \A t \in Threads : Filling(t) =>
           /\ Doing(w, "NOTIFY")' => Passing(pos, w, t)
           /\ Doing(w, "INT")' => Passing(pos, w, t)
  BY <1>1, <1>5, <1>6 DEF Passing, InCall
<1>8. \E todo, pc, slot : Becomes(w, todo, pc, slot)
  BY <1>3
<1> QED
  BY <1>1, <1>2, <1>4, <1>5, <1>7, <1>8, ThreadNumbering

(* A poller sets its notifier: one interrupt to come, as before.           *)
LEMMA NotifyNumbering ==
  ASSUME TypeOK, NEW n \in Nat, NEW pos \in [Threads -> Int], NEW rpos \in Int,
         Numbering(n, pos, rpos), NEW p \in Pollers, event_notifier_set(p)
  PROVE  Numbering(n, pos, rpos)'
<1>1. /\ Doing(p, "NOTIFY") /\ thr[p].pc = "call" /\ Return(p) /\ UNCHANGED q2sbVars
      /\ event_set' = [event_set EXCEPT ![p] = TRUE]
  BY DEF event_notifier_set, At, Doing
<1>2. ThreadsOK /\ p \in Threads /\ thr[p].todo \in Jobs(p) /\ event_set \in [Pollers -> BOOLEAN]
  BY Consts DEF TypeOK, ThreadsOK, ThreadOK, RestOK
<1>3. Becomes(p, Tail(thr[p].todo), "call", thr[p].slot)
  BY <1>1, <1>2, Becoming
<1>4. /\ thr'[p].todo = <<>> /\ thr'[p].pc = "call"
      /\ \A u \in Threads : u # p => thr'[u] = thr[u]
      /\ \A q \in Pollers : q # p => event_set'[q] = event_set[q]
  <2>1. Tail(thr[p].todo) = <<>>
    BY <1>1, <1>2, JobShape DEF Doing, Now, Dma
  <2> QED
    BY <1>1, <1>2, <1>3, <2>1 DEF Becomes
<1>5. \A t \in Threads : /\ Filling(t)' <=> Filling(t)
                         /\ Filling(t) => thr'[t] = thr[t]
                         /\ At(t, "wait")' => At(t, "wait")
  BY <1>1, <1>4 DEF Filling, At
<1>6. ASSUME NEW t \in Threads, Filling(t)
      PROVE  \E x \in ToCome(pos, rpos, t) : \E y :
               ToCome(pos, rpos, t)' \subseteq (ToCome(pos, rpos, t) \ {x}) \cup {y}
  <2> DEFINE x == <<p, "notify">>
             y == <<p, "event">>
  <2>1. t # p
    BY <1>1, <1>6 DEF Filling, At
  <2>2. x \in ToCome(pos, rpos, t)
    BY <1>1, <2>1 DEF ToCome, Tags, Comes
  <2>3. ASSUME NEW z \in Tags, Comes(pos, rpos, t, z[1], z[2])'
        PROVE  z = y \/ (z # x /\ Comes(pos, rpos, t, z[1], z[2]))
    <3> PICK u, kind : u \in Threads /\ z = <<u, kind>> /\ (u = Main => kind # "event")
      BY Consts DEF Tags
    <3>0. u = Main \/ u \in Pollers
      BY Consts
    <3>1. Comes(pos, rpos, t, u, kind)'
      BY <2>3
    <3>2. CASE u # p
      <4>1. Comes(pos, rpos, t, u, kind)
        BY <1>4, <3>0, <3>1, <3>2 DEF Comes, Stuck, Passing, InCall, Doing, Now
      <4> QED
        BY <3>2, <4>1
    <3>3. CASE u = p
      <4>1. ~Doing(p, "NOTIFY")' /\ ~Passing(pos, p, t)' /\ ~Doing(p, "INT")'
        BY <1>4 DEF Doing, Passing, InCall
      <4>2. ~Stuck(pos, p, t)
        BY <1>1 DEF Stuck, InCall
      <4>3. kind = "event" \/ (kind # "notify" /\ Comes(pos, rpos, t, u, kind))
        BY <3>1, <3>3, <4>1, <4>2, <2>1 DEF Comes
      <4> QED
        BY <3>3, <4>3
    <3> QED
      BY <3>2, <3>3
  <2>4. ToCome(pos, rpos, t)' \subseteq (ToCome(pos, rpos, t) \ {x}) \cup {y}
    <3> HIDE DEF x, y
    <3> QED
      BY <2>3 DEF ToCome
  <2> QED
    BY <2>2, <2>4
<1> QED
  BY <1>1, <1>5, <1>6, NumberingKept

(* The main thread looks at a notifier.                                    *)
LEMMA PollNumbering ==
  ASSUME TypeOK, NEW n \in Nat, NEW pos \in [Threads -> Int], NEW rpos \in Int,
         Numbering(n, pos, rpos), MainPoll
  PROVE  Numbering(n, pos, rpos)'
<1>1. CASE UNCHANGED <<event_set, thr>>
  BY <1>1, QuietNumbering DEF MainPoll
<1>2. CASE ~UNCHANGED <<event_set, thr>>
  <2>1. /\ scan \in Pollers /\ event_set[scan] /\ thr[Main].todo = <<>> /\ UNCHANGED q2sbVars
        /\ event_set' = [event_set EXCEPT ![scan] = FALSE]
        /\ thr' = [thr EXCEPT ![Main].todo = <<Call("INT", scan)>>]
    BY <1>2 DEF MainPoll, NotifierTurn, MainIdle
  <2>2. ThreadsOK /\ thr[Main].pc = "call" /\ event_set \in [Pollers -> BOOLEAN]
    BY <2>1, Consts DEF TypeOK, ThreadsOK, ThreadOK, RestOK
  <2>3. Becomes(Main, <<Call("INT", scan)>>, "call", thr[Main].slot)
    BY <2>1, <2>2, Becoming, Consts
  <2>4. /\ thr'[Main].todo = <<Call("INT", scan)>> /\ thr'[Main].pc = "call"
        /\ \A u \in Threads : u # Main => thr'[u] = thr[u]
        /\ \A q \in Pollers : q # scan => event_set'[q] = event_set[q]
        /\ ~event_set'[scan]
    BY <2>1, <2>2, <2>3 DEF Becomes
  <2>5. \A t \in Threads : /\ Filling(t)' <=> Filling(t)
                           /\ Filling(t) => thr'[t] = thr[t]
                           /\ At(t, "wait")' => At(t, "wait")
    BY <2>1, <2>4 DEF Filling, At
  <2>6. ASSUME NEW t \in Threads, Filling(t)
        PROVE  \E x \in ToCome(pos, rpos, t) : \E y :
                 ToCome(pos, rpos, t)' \subseteq (ToCome(pos, rpos, t) \ {x}) \cup {y}
    <3> DEFINE x == <<scan, "event">>
               y == <<Main, "int">>
    <3>1. t # Main
      BY <2>1, <2>6 DEF Filling, At
    <3>2. x \in ToCome(pos, rpos, t)
      BY <2>1 DEF ToCome, Tags, Comes
    <3>3. ASSUME NEW z \in Tags, Comes(pos, rpos, t, z[1], z[2])'
          PROVE  z = y \/ (z # x /\ Comes(pos, rpos, t, z[1], z[2]))
      <4> PICK u, kind : /\ u \in Threads /\ z = <<u, kind>>
                         /\ u = Main => kind \notin {"event", "notify"}
                         /\ u # Main => kind \in {"event", "notify", "dma"}
        BY Consts DEF Tags
      <4>0. u = Main \/ u \in Pollers
        BY Consts
      <4>1. Comes(pos, rpos, t, u, kind)'
        BY <3>3
      <4>2. CASE u # Main
        <5>1. CASE kind = "event"
          <6>1. event_set'[u]
            BY <4>1, <5>1 DEF Comes
          <6>2. u # scan
            BY <2>4, <6>1
          <6> QED
            BY <2>4, <4>0, <4>2, <5>1, <6>1, <6>2 DEF Comes
        <5>2. CASE kind # "event"
          <6>1. Comes(pos, rpos, t, u, kind)
            BY <2>4, <4>1, <4>2, <5>2 DEF Comes, Stuck, Passing, InCall, Doing, Now
          <6> QED
            BY <5>2, <6>1
        <5> QED
          BY <5>1, <5>2
      <4>3. CASE u = Main /\ kind # "int"
        <5>1. ~Stuck(pos, Main, t)
          BY <2>1 DEF Stuck, InCall
        <5>2. Comes(pos, rpos, t, u, kind)
          BY <3>1, <4>1, <4>3, <5>1 DEF Comes
        <5> QED
          BY <4>3, <5>2
      <4> QED
        BY <4>2, <4>3
    <3>4. ToCome(pos, rpos, t)' \subseteq (ToCome(pos, rpos, t) \ {x}) \cup {y}
      <4> HIDE DEF x, y
      <4> QED
        BY <3>3 DEF ToCome
    <3> QED
      BY <3>2, <3>4
  <2> QED
    BY <2>1, <2>5, <2>6, NumberingKept
<1> QED
  BY <1>1, <1>2

(* There are fewer than twice as many numbers as slots.                    *)
LEMMA NumbersBound ==
  ASSUME TypeOK, NEW n \in Nat, NEW pos \in [Threads -> Int], NEW rpos \in Int,
         Numbering(n, pos, rpos)
  PROVE  n <= Q2SB_SZ + Q2SB_SZ
<1>1. CASE n <= Q2SB_SZ
  BY <1>1, Consts
<1>2. CASE n > Q2SB_SZ
  <2>1. Q2SB_SZ \in Q2SB_SZ .. n - 1
    BY <1>2, Consts
  <2>2. PICK t \in Threads : Filling(t) /\ pos[t] = Q2SB_SZ
    BY <2>1 DEF Numbering, Numbered
  <2>3. n - 1 - pos[t] < Q2SB_SZ
    BY <2>2, FillerNear
  <2> QED
    BY <2>2, <2>3, Consts
<1> QED
  BY <1>1, <1>2, Consts

(* The slot a thread is about to fill is free for it.                      *)
LEMMA FillerFirst ==
  ASSUME TypeOK, NEW n \in Nat, NEW pos \in [Threads -> Int], NEW rpos \in Int,
         Numbering(n, pos, rpos), NEW u \in Threads, Filling(u), ~q2sb[thr[u].slot].ready
  PROVE  /\ pos[u] \in QSlots /\ pos[u] < n
         /\ thr[u].slot \in QSlots /\ IsKth(thr[u].slot, pos[u])
<1>1. pos[u] \in 0 .. n - 1 /\ IsKth(thr[u].slot, pos[u])
  BY DEF Numbering, Numbered
<1>2. /\ thr[u].slot \in QSlots /\ q2sb_head \in QSlots
      /\ Q2SB_SZ \in Nat \ {0} /\ QSlots = 0 .. Q2SB_SZ - 1
  BY Consts DEF TypeOK, ThreadsOK, ThreadOK, Q2sbOK, QSlots
<1>3. n <= Q2SB_SZ + Q2SB_SZ
  BY NumbersBound
<1>4. ASSUME pos[u] >= Q2SB_SZ PROVE FALSE
  <2>1. PICK k \in Int : k = pos[u] - Q2SB_SZ
    BY <1>1, <1>2
  <2>2. k \in QSlots /\ IsKth(thr[u].slot, k) /\ k < n
    BY <1>1, <1>2, <1>3, <1>4, <2>1 DEF IsKth
  <2>3. PICK v \in Threads : Filling(v) /\ pos[v] = k
    BY <1>2, <2>2 DEF Numbering, Numbered
  <2>4. n - 1 - pos[v] < Q2SB_SZ
    BY <2>3, FillerNear
  <2> QED
    BY <1>1, <1>2, <2>1, <2>3, <2>4
<1> QED
  BY <1>1, <1>2, <1>4

(* A thread fills its slot.                                                *)
LEMMA FillNumbering ==
  ASSUME TypeOK, NEW n \in Nat, NEW pos \in [Threads -> Int], NEW rpos \in Int,
         Numbering(n, pos, rpos), NEW u \in Threads, Fill(u)
  PROVE  Numbering(n, pos, rpos)'
<1>0. PICK s, type : s = thr[u].slot /\ type = Now(u).type
  OBVIOUS
<1>1. /\ thr[u].todo # <<>> /\ thr[u].pc = "fill" /\ Filling(u) /\ ~q2sb[s].ready
      /\ UNCHANGED <<q2sb_tail, q2sb_head, event_set>>
      /\ \E val : q2sb' = [q2sb EXCEPT ![s] = Full(Msg(type, Now(u).of, val))]
      /\ \/ type \in Dma /\ thr' = [thr EXCEPT ![u].pc = "wait"]
         \/ type \notin Dma /\ Return(u)
  BY <1>0, Zenon DEF Fill, At, Filling
<1>2. /\ pos[u] \in QSlots /\ pos[u] < n /\ s \in QSlots /\ IsKth(s, pos[u])
      /\ QSlots = 0 .. Q2SB_SZ - 1 /\ Q2SB_SZ \in Nat \ {0} /\ q2sb_head \in QSlots
  BY <1>0, <1>1, FillerFirst, Consts DEF TypeOK, Q2sbOK, QSlots
<1>3. /\ ThreadsOK /\ thr[u].todo \in Jobs(u) /\ type # "NOTIFY"
  BY <1>0, <1>1 DEF TypeOK, ThreadsOK, ThreadOK
<1>4. /\ type \in Dma => Now(u).of = u
      /\ type \notin Dma => u = Main /\ Tail(thr[u].todo) = <<>>
  BY <1>0, <1>1, <1>3, JobShape DEF Now, Dma
<1>5. /\ q2sb'[s].ready /\ q2sb'[s].msg.type = type /\ q2sb'[s].msg.of = Now(u).of
      /\ \A i \in QSlots : i # s => q2sb'[i] = q2sb[i]
  BY <1>1, <1>2, Slot, Msgs DEF TypeOK, Q2sbOK, Array
<1>6. \/ type \in Dma /\ Becomes(u, thr[u].todo, "wait", s)
      \/ type \notin Dma /\ Becomes(u, Tail(thr[u].todo), "call", s)
  BY <1>0, <1>1, <1>3, Becoming
<1>7. /\ \A w \in Threads : w # u => thr'[w] = thr[w]
      /\ ~Filling(u)'
      /\ \/ type \in Dma /\ thr'[u].todo = thr[u].todo /\ thr'[u].pc = "wait"
         \/ type \notin Dma /\ thr'[u].todo = <<>> /\ thr'[u].pc = "call"
  <2>1. CASE type \in Dma
    <3>1. /\ \A w \in Threads : w # u => thr'[w] = thr[w]
          /\ thr'[u].todo = thr[u].todo /\ thr'[u].pc = "wait"
      BY <1>6, <2>1 DEF Becomes
    <3> QED
      BY <2>1, <3>1 DEF Filling, At
  <2>2. CASE type \notin Dma
    <3>1. /\ \A w \in Threads : w # u => thr'[w] = thr[w]
          /\ thr'[u].todo = <<>> /\ thr'[u].pc = "call"
      <4>1. Becomes(u, <<>>, "call", s)
        BY <1>4, <1>6, <2>2
      <4> QED
        BY <4>1 DEF Becomes
    <3> QED
      BY <2>2, <3>1 DEF Filling, At
  <2> QED
    BY <2>1, <2>2
<1>8. \A i, k : IsKth(i, k)' <=> IsKth(i, k)
  BY <1>1 DEF IsKth
<1>9. \A t \in Threads : Filling(t)' <=> Filling(t) /\ t # u
  BY <1>7 DEF Filling, At
<1>10. Numbered(n, pos)'
  <2>1. \A t \in Threads : Filling(t)' => thr'[t].slot = thr[t].slot
    BY <1>7, <1>9
  <2>2. \A t \in Threads : Filling(t) /\ pos[t] = pos[u] => t = u
    BY <1>1 DEF Numbering, Numbered
  <2>3. ASSUME NEW i \in QSlots, NEW k \in QSlots, IsKth(i, k)
        PROVE  q2sb'[i].ready <=> k < n /\ ~\E t \in Threads : Filling(t)' /\ pos[t] = k
    <3>1. i = s <=> k = pos[u]
      BY <1>2, <2>3, SameKth
    <3>2. q2sb[i].ready <=> k < n /\ ~\E t \in Threads : Filling(t) /\ pos[t] = k
      BY <2>3 DEF Numbering, Numbered
    <3>3. CASE i = s
      BY <1>2, <1>5, <1>9, <2>2, <3>1, <3>3
    <3>4. CASE i # s
      BY <1>5, <1>9, <3>1, <3>2, <3>4
    <3> QED
      BY <3>3, <3>4
  <2>4. ASSUME NEW k \in Q2SB_SZ .. n - 1 PROVE \E t \in Threads : Filling(t)' /\ pos[t] = k
    <3>1. PICK t \in Threads : Filling(t) /\ pos[t] = k
      BY <2>4 DEF Numbering, Numbered
    <3>2. t # u
      BY <1>2, <3>1
    <3> QED
      BY <1>9, <3>1, <3>2
  <2> QED
    BY <1>1, <1>8, <1>9, <2>1, <2>3, <2>4 DEF Numbering, Numbered
<1>11. \A i \in QSlots : \A k : Holds(i, k) => i # s /\ Holds(i, k)' /\ q2sb'[i] = q2sb[i]
  BY <1>1, <1>5, <1>8 DEF Holds
<1>12. Holds(s, pos[u])'
  BY <1>2, <1>5, <1>8 DEF Holds
<1>13. WaitersIn(pos)'
  <2> SUFFICES ASSUME NEW w \in Threads, At(w, "wait")', pos[w] >= 1
               PROVE  \E i \in QSlots : /\ Holds(i, pos[w])'
                                        /\ q2sb'[i].msg.type \in Dma /\ q2sb'[i].msg.of = w
    BY DEF WaitersIn
  <2>1. CASE w = u
    BY <1>0, <1>2, <1>4, <1>5, <1>7, <1>12, <2>1 DEF At
  <2>2. CASE w # u
    <3>1. At(w, "wait")
      BY <1>7, <2>2 DEF At
    <3>2. PICK i \in QSlots : Holds(i, pos[w]) /\ q2sb[i].msg.type \in Dma /\ q2sb[i].msg.of = w
      BY <3>1 DEF Numbering, WaitersIn
    <3> QED
      BY <1>11, <3>2
  <2> QED
    BY <2>1, <2>2
<1>14. ReplyIn(pos, rpos)'
  <2> SUFFICES ASSUME rpos >= 1
               PROVE  \/ Filling(Main)' /\ Doing(Main, "MMIO_READ_COMP")' /\ rpos = pos[Main]
                      \/ \E i \in QSlots : Holds(i, rpos)' /\ q2sb'[i].msg.type = "MMIO_READ_COMP"
    BY DEF ReplyIn
  <2>1. CASE Filling(Main) /\ Doing(Main, "MMIO_READ_COMP") /\ rpos = pos[Main]
    <3>1. CASE u = Main
      BY <1>0, <1>2, <1>5, <1>12, <2>1, <3>1 DEF Doing
    <3>2. CASE u # Main
      BY <1>7, <1>9, <2>1, <3>2, Consts DEF Doing, Now
    <3> QED
      BY <3>1, <3>2
  <2>2. CASE \E i \in QSlots : Holds(i, rpos) /\ q2sb[i].msg.type = "MMIO_READ_COMP"
    BY <1>11, <2>2
  <2> QED
    BY <2>1, <2>2 DEF Numbering, ReplyIn
<1>15. FewMore(n, pos, rpos)'
  <2> SUFFICES ASSUME NEW t \in Threads, Filling(t)'
               PROVE  n - 1 - pos[t] + Cardinality(ToCome(pos, rpos, t)') <= 3 * NPollers + 1
    BY DEF FewMore
  <2>1. Filling(t) /\ t # u
    BY <1>9
  <2>2. ToCome(pos, rpos, t)' \subseteq ToCome(pos, rpos, t)
    <3> SUFFICES ASSUME NEW x \in Tags, Comes(pos, rpos, t, x[1], x[2])'
                 PROVE  Comes(pos, rpos, t, x[1], x[2])
      BY DEF ToCome
    <3> PICK w, kind : w \in Threads /\ w = x[1] /\ kind = x[2]
      BY Consts DEF Tags
    <3>1. Comes(pos, rpos, t, w, kind)'
      OBVIOUS
    <3>2. CASE w # u
      BY <1>1, <1>7, <3>1, <3>2 DEF Comes, Stuck, Passing, InCall, Doing, Now
    <3>3. CASE w = u /\ type \in Dma
      <4>1. /\ thr'[u].todo = thr[u].todo /\ thr'[u].pc = "wait" /\ thr[u].pc = "fill"
            /\ thr[u].todo # <<>>
        BY <1>1, <1>7, <3>3
      <4>2. Stuck(pos, u, t)' <=> Stuck(pos, u, t)
        BY <4>1 DEF Stuck, InCall, Now
      <4>3. /\ Passing(pos, u, t)' <=> Passing(pos, u, t)
            /\ Doing(u, "NOTIFY")' <=> Doing(u, "NOTIFY")
        BY <4>1, <4>2 DEF Passing, InCall, Doing, Now
      <4> QED
        BY <1>1, <3>1, <3>3, <4>1, <4>2, <4>3 DEF Comes
    <3>4. CASE w = u /\ type \notin Dma
      <4>1. thr'[u].todo = <<>>
        BY <1>7, <3>4
      <4>2. ~Doing(u, "NOTIFY")' /\ ~Doing(u, "INT")' /\ ~Passing(pos, u, t)'
        BY <4>1 DEF Doing, Passing
      <4>3. ~Stuck(pos, u, t)
        BY <1>0, <3>4 DEF Stuck
      <4> QED
        BY <1>1, <3>1, <3>4, <4>2, <4>3 DEF Comes
    <3> QED
      BY <3>2, <3>3, <3>4
  <2> DEFINE X == ToCome(pos, rpos, t)
             Y == ToCome(pos, rpos, t)'
  <2>3. IsFiniteSet(X) /\ Cardinality(X) \in Nat /\ Y \subseteq X
    BY <2>2, TagCount
  <2>4. n - 1 - pos[t] + Cardinality(X) <= 3 * NPollers + 1
    BY <2>1 DEF Numbering, FewMore
  <2> HIDE DEF X, Y
  <2>5. Cardinality(Y) \in Nat /\ Cardinality(Y) <= Cardinality(X)
    BY <2>3, FS_Subset, FS_CardinalityType
  <2>6. n - 1 - pos[t] + Cardinality(Y) <= 3 * NPollers + 1
    BY <2>3, <2>4, <2>5, BridgeAssumption
  <2> QED
    BY <2>6 DEF Y
<1> QED
  BY <1>10, <1>13, <1>14, <1>15 DEF Numbering

(* The next slot, without a remainder.                                     *)
LEMMA NextSlot ==
  \A i \in QSlots : Inc(i, Q2SB_SZ) = IF i + 1 = Q2SB_SZ THEN 0 ELSE i + 1
<1>1. Q2SB_SZ \in Nat \ {0} /\ QSlots = 0 .. Q2SB_SZ - 1
  BY Consts DEF QSlots
<1>2. \A i \in 0 .. Q2SB_SZ - 1 : (i + 1) % Q2SB_SZ = IF i + 1 = Q2SB_SZ THEN 0 ELSE i + 1
  BY <1>1
<1> QED
  BY <1>1, <1>2 DEF Inc

(* The message at the head is sent: all numbers become one less.           *)
LEMMA SendNumbering ==
  ASSUME TypeOK, NEW n \in Nat, NEW pos \in [Threads -> Int], NEW rpos \in Int,
         Numbering(n, pos, rpos), SbSend
  PROVE  SlotsNumbered'
<1>1. PICK h : h = q2sb_head
  OBVIOUS
<1>2. /\ h \in QSlots /\ QSlots = 0 .. Q2SB_SZ - 1 /\ Q2SB_SZ \in Nat \ {0} /\ 0 \in QSlots
      /\ q2sb_tail \in QSlots /\ q2sb_head \in QSlots
  BY <1>1, Consts DEF TypeOK, Q2sbOK, QSlots
<1>3. /\ UNCHANGED <<thr, q2sb_tail, event_set>>
      /\ q2sb' = [q2sb EXCEPT ![h] = Free] /\ q2sb_head' = Inc(h, Q2SB_SZ)
      /\ q2sb[h].ready
  BY <1>1 DEF SbSend, TypeOK, Working
<1>4. /\ ~q2sb'[h].ready
      /\ \A i \in QSlots : i # h => q2sb'[i] = q2sb[i]
  BY <1>2, <1>3, Slot DEF TypeOK, Q2sbOK, Array
<1>5. q2sb_head' = IF h + 1 = Q2SB_SZ THEN 0 ELSE h + 1
  BY <1>2, <1>3, NextSlot
<1>6. PICK m \in Int, back \in [Threads -> Int], rback \in Int :
        m = n - 1 /\ (\A t \in Threads : back[t] = pos[t] - 1) /\ rback = rpos - 1
  <2>1. PICK m \in Int, rback \in Int : m = n - 1 /\ rback = rpos - 1
    OBVIOUS
  <2>2. PICK back : back = [t \in Threads |-> pos[t] - 1]
    OBVIOUS
  <2>3. back \in [Threads -> Int] /\ \A t \in Threads : back[t] = pos[t] - 1
    BY <2>2
  <2> QED
    BY <2>1, <2>3
<1>7. IsKth(h, 0)
  BY <1>1, <1>2 DEF IsKth
<1>8. 0 < n /\ \A t \in Threads : Filling(t) => pos[t] >= 1
  <2>1. 0 < n /\ ~\E t \in Threads : Filling(t) /\ pos[t] = 0
    BY <1>2, <1>3, <1>7 DEF Numbering, Numbered
  <2>2. \A t \in Threads : Filling(t) => pos[t] \in 0 .. n - 1
    BY DEF Numbering, Numbered
  <2> QED
    BY <2>1, <2>2
<1>9. \A i \in QSlots, k \in Int : k >= 1 /\ IsKth(i, k) => IsKth(i, k - 1)'
  BY <1>1, <1>2, <1>5 DEF IsKth
<1>10. ASSUME NEW i \in QSlots, NEW k \in QSlots, k # 0, IsKth(i, k) PROVE i # h
  BY <1>1, <1>2, <1>7, <1>10, SameKth
<1>11. \A t \in Threads : Filling(t)' <=> Filling(t)
  BY <1>3 DEF Filling, At
<1>12. Numbered(m, back)'
  <2>1. \A t \in Threads : Filling(t) => thr[t].slot \in QSlots
    BY DEF TypeOK, ThreadsOK, ThreadOK
  <2>2. IsKth(q2sb_tail, n)
    BY DEF Numbering, Numbered
  <2>3. IsKth(q2sb_tail, m)'
    BY <1>2, <1>3, <1>6, <1>8, <1>9, <2>2
  <2>4. ASSUME NEW t \in Threads, Filling(t)
        PROVE  back[t] \in 0 .. m - 1 /\ IsKth(thr[t].slot, back[t])'
    <3>1. pos[t] \in 0 .. n - 1 /\ IsKth(thr[t].slot, pos[t]) /\ pos[t] >= 1
      BY <1>8, <2>4 DEF Numbering, Numbered
    <3>2. PICK s \in QSlots, p \in Int : s = thr[t].slot /\ p = pos[t]
      BY <2>1, <2>4
    <3>3. IsKth(s, p - 1)'
      BY <1>9, <3>1, <3>2
    <3>4. thr'[t].slot = s /\ back[t] = p - 1
      BY <1>3, <1>6, <3>2
    <3> QED
      BY <1>6, <3>1, <3>2, <3>3, <3>4
  <2>5. ASSUME NEW t \in Threads, NEW u \in Threads, Filling(t), Filling(u), back[t] = back[u]
        PROVE  t = u
    <3>1. pos[t] = pos[u]
      BY <1>6, <2>5
    <3> QED
      BY <2>5, <3>1 DEF Numbering, Numbered
  <2>6. ASSUME NEW i \in QSlots, NEW k \in QSlots, IsKth(i, k)'
        PROVE  q2sb'[i].ready <=> k < m /\ ~\E t \in Threads : Filling(t) /\ back[t] = k
    <3>1. PICK l \in Int : l = k + 1
      BY <1>2
    <3>2. \A t \in Threads : back[t] = k <=> pos[t] = l
      BY <1>2, <1>6, <3>1
    <3>3. CASE l \in QSlots
      <4>1. IsKth(i, l)
        BY <1>1, <1>2, <1>5, <2>6, <3>1, <3>3 DEF IsKth
      <4>2. i # h
        BY <1>2, <1>10, <3>1, <3>3, <4>1
      <4>3. q2sb[i].ready <=> l < n /\ ~\E t \in Threads : Filling(t) /\ pos[t] = l
        BY <3>3, <4>1 DEF Numbering, Numbered
      <4>4. k < m <=> l < n
        BY <1>2, <1>6, <3>1
      <4> QED
        BY <1>4, <3>2, <4>2, <4>3, <4>4
    <3>4. CASE l \notin QSlots
      <4>1. l = Q2SB_SZ
        BY <1>2, <3>1, <3>4
      <4>2. i = h
        BY <1>1, <1>2, <1>5, <2>6, <3>1, <4>1 DEF IsKth
      <4>3. l < n => \E t \in Threads : Filling(t) /\ pos[t] = l
        <5>1. l < n => l \in Q2SB_SZ .. n - 1
          BY <1>2, <4>1
        <5> QED
          BY <5>1 DEF Numbering, Numbered
      <4>4. k < m <=> l < n
        BY <1>2, <1>6, <3>1
      <4> QED
        BY <1>4, <3>2, <4>2, <4>3, <4>4
    <3> QED
      BY <3>3, <3>4
  <2>7. ASSUME NEW k \in Q2SB_SZ .. m - 1 PROVE \E t \in Threads : Filling(t) /\ back[t] = k
    <3>1. PICK l \in Int : l = k + 1
      BY <1>2
    <3>2. l \in Q2SB_SZ .. n - 1
      BY <1>2, <1>6, <3>1
    <3>3. PICK t \in Threads : Filling(t) /\ pos[t] = l
      BY <3>2 DEF Numbering, Numbered
    <3> QED
      BY <1>2, <1>6, <3>1, <3>3
  <2> QED
    BY <1>11, <2>3, <2>4, <2>5, <2>6, <2>7 DEF Numbered
<1>13. ASSUME NEW i \in QSlots, NEW k \in Int, k >= 2, Holds(i, k)
       PROVE  Holds(i, k - 1)' /\ q2sb'[i] = q2sb[i]
  <2>1. k \in QSlots /\ IsKth(i, k) /\ q2sb[i].ready
    BY <1>13 DEF Holds
  <2>2. i # h /\ IsKth(i, k - 1)' /\ k - 1 \in QSlots
    BY <1>2, <1>9, <1>10, <1>13, <2>1
  <2> QED
    BY <1>4, <2>1, <2>2 DEF Holds
<1>14. WaitersIn(back)'
  <2> SUFFICES ASSUME NEW u \in Threads, At(u, "wait"), back[u] >= 1
               PROVE  \E i \in QSlots : /\ Holds(i, back[u])'
                                        /\ q2sb'[i].msg.type \in Dma /\ q2sb'[i].msg.of = u
    BY <1>3 DEF WaitersIn, At
  <2>1. PICK k \in Int : k = pos[u]
    OBVIOUS
  <2>2. k >= 2 /\ back[u] = k - 1
    BY <1>6, <2>1
  <2>3. pos[u] >= 1
    BY <2>1, <2>2
  <2>4. PICK i \in QSlots : Holds(i, k) /\ q2sb[i].msg.type \in Dma /\ q2sb[i].msg.of = u
    BY <2>1, <2>3 DEF Numbering, WaitersIn
  <2> QED
    BY <1>13, <2>2, <2>4
<1>15. ReplyIn(back, rback)'
  <2> SUFFICES ASSUME rback >= 1
               PROVE  \/ Filling(Main) /\ Doing(Main, "MMIO_READ_COMP") /\ rback = back[Main]
                      \/ \E i \in QSlots : Holds(i, rback)' /\ q2sb'[i].msg.type = "MMIO_READ_COMP"
    BY <1>3, <1>11, Consts DEF ReplyIn, Doing, Now
  <2>1. rpos >= 2 /\ rback = rpos - 1
    BY <1>6
  <2>2. rpos >= 1
    BY <2>1
  <2>3. CASE Filling(Main) /\ Doing(Main, "MMIO_READ_COMP") /\ rpos = pos[Main]
    BY <1>6, <2>3, Consts
  <2>4. CASE \E i \in QSlots : Holds(i, rpos) /\ q2sb[i].msg.type = "MMIO_READ_COMP"
    BY <1>13, <2>1, <2>4
  <2> QED
    BY <2>2, <2>3, <2>4 DEF Numbering, ReplyIn
<1>16. FewMore(m, back, rback)'
  <2> SUFFICES ASSUME NEW t \in Threads, Filling(t)
               PROVE  m - 1 - back[t] + Cardinality(ToCome(back, rback, t)') <= 3 * NPollers + 1
    BY <1>11 DEF FewMore
  <2>1. \A u \in Threads : /\ back[t] < back[u] <=> pos[t] < pos[u]
                           /\ rback <= back[t] <=> rpos <= pos[t]
    BY <1>6
  <2>2. \A u \in Threads : Stuck(back, u, t)' <=> Stuck(pos, u, t)
    BY <1>3, <2>1 DEF Stuck, InCall, Now
  <2>3. \A u \in Threads : \A kind : Comes(back, rback, t, u, kind)' <=> Comes(pos, rpos, t, u, kind)
    BY <1>3, <2>1, <2>2 DEF Comes, Passing, InCall, Doing, Now
  <2>4. \A x \in Tags : x[1] \in Threads
    BY Consts DEF Tags
  <2>5. ToCome(back, rback, t)' = ToCome(pos, rpos, t)
    BY <2>3, <2>4 DEF ToCome
  <2>6. n - 1 - pos[t] + Cardinality(ToCome(pos, rpos, t)) <= 3 * NPollers + 1
    BY DEF Numbering, FewMore
  <2>7. m - 1 - back[t] = n - 1 - pos[t]
    BY <1>6
  <2> QED
    BY <2>5, <2>6, <2>7
<1> QED
  <2>1. m \in Nat
    BY <1>6, <1>8
  <2>2. Numbering(m, back, rback)'
    BY <1>12, <1>14, <1>15, <1>16 DEF Numbering
  <2> QED
    BY <1>6, <2>1, <2>2 DEF SlotsNumbered

(* A thread is given the next slot: for every other that fills its slot,   *)
(* what was to come is now among what has come.                            *)
LEMMA AllocNumbering ==
  ASSUME TypeOK, OneRead, NEW n \in Nat, NEW pos \in [Threads -> Int], NEW rpos \in Int,
         Numbering(n, pos, rpos), NEW u \in Threads, sb_op_alloc(u)
  PROVE  SlotsNumbered'
<1>1. PICK s, type : s = q2sb_tail /\ type = Now(u).type
  OBVIOUS
<1>2. /\ s \in QSlots /\ QSlots = 0 .. Q2SB_SZ - 1 /\ Q2SB_SZ \in Nat \ {0} /\ q2sb_head \in QSlots
  BY <1>1, Consts DEF TypeOK, Q2sbOK, QSlots
<1>3. /\ thr[u].todo # <<>> /\ thr[u].pc = "call" /\ type # "NOTIFY"
      /\ thr' = [thr EXCEPT ![u].slot = s, ![u].pc = "fill"]
      /\ q2sb_tail' = Inc(s, Q2SB_SZ)
      /\ UNCHANGED <<q2sb, q2sb_head, event_set>>
  BY <1>1 DEF sb_op_alloc, At
<1>4. /\ ThreadsOK /\ thr[u].todo \in Jobs(u)
  BY <1>3 DEF TypeOK, ThreadsOK, ThreadOK
<1>5. /\ type \in {"DMA_READ", "DMA_WRITE", "INT", "MMIO_READ_COMP"}
      /\ type \in {"INT", "MMIO_READ_COMP"} => u = Main
  BY <1>1, <1>3, <1>4, JobShape DEF Now
<1>6. Becomes(u, thr[u].todo, "fill", s)
  BY <1>3, <1>4, Becoming
<1>7. /\ \A w \in Threads : w # u => thr'[w] = thr[w]
      /\ thr'[u].todo = thr[u].todo /\ thr'[u].pc = "fill" /\ thr'[u].slot = s
  BY <1>6 DEF Becomes
<1>8. /\ ~Filling(u) /\ Filling(u)'
      /\ \A t \in Threads : t # u => (Filling(t)' <=> Filling(t))
  BY <1>3, <1>7 DEF Filling, At
<1>9. PICK m \in Nat : m = n + 1
  OBVIOUS
<1>10. PICK next \in [Threads -> Int] :
         next[u] = n /\ \A t \in Threads : t # u => next[t] = pos[t]
  <2>1. PICK next : next = [pos EXCEPT ![u] = n]
    OBVIOUS
  <2>2. /\ next \in [Threads -> Int] /\ next[u] = n
        /\ \A t \in Threads : t # u => next[t] = pos[t]
    BY <2>1
  <2> QED
    BY <2>2
<1>11. PICK rnext \in Int : rnext = IF type = "MMIO_READ_COMP" THEN n ELSE rpos
  OBVIOUS
<1>12. type = "MMIO_READ_COMP" => rpos <= 0
  <2> SUFFICES ASSUME type = "MMIO_READ_COMP", rpos >= 1 PROVE FALSE
    OBVIOUS
  <2>1. u = Main /\ Replying
    BY <1>1, <1>3, <1>5 DEF Replying, Doing
  <2>2. \A i \in QSlots : ~Replied(i)
    BY <2>1 DEF OneRead
  <2>3. ~Filling(Main)
    BY <1>8, <2>1
  <2> QED
    BY <2>2, <2>3 DEF Numbering, ReplyIn, Replied, Holds
<1>13. \A t \in Threads : Filling(t) => pos[t] \in 0 .. n - 1 /\ t # u
  BY <1>8 DEF Numbering, Numbered
<1>14. ASSUME NEW t \in Threads, Filling(t)
       PROVE  n - pos[t] + Cardinality(ToCome(next, rnext, t)') <= 3 * NPollers + 1
              /\ Cardinality(ToCome(next, rnext, t)') \in Nat
  <2>0. t # u /\ next[t] = pos[t] /\ pos[t] \in 0 .. n - 1
    BY <1>10, <1>13, <1>14
  <2>1. PICK kind : kind = IF type \in Dma THEN "dma" ELSE IF type = "INT" THEN "int" ELSE "reply"
    OBVIOUS
  <2>2. <<u, kind>> \in ToCome(pos, rpos, t)
    <3>1. <<u, kind>> \in Tags
      BY <1>5, <2>1, Consts DEF Tags, Dma
    <3>2. CASE type \in Dma
      BY <1>3, <2>0, <2>1, <3>1, <3>2 DEF ToCome, Comes, Stuck, InCall
    <3>3. CASE type = "INT"
      BY <1>1, <1>3, <2>0, <2>1, <3>1, <3>3 DEF ToCome, Comes, Doing, Dma
    <3>4. CASE type = "MMIO_READ_COMP"
      <4>1. rpos <= pos[t]
        BY <1>12, <2>0, <3>4
      <4> QED
        BY <2>0, <2>1, <3>1, <3>4, <4>1 DEF ToCome, Comes, Dma
    <3> QED
      BY <1>5, <3>2, <3>3, <3>4 DEF Dma
  <2>3. \A w \in Threads : w # u => (Stuck(next, w, t)' <=> Stuck(pos, w, t))
    BY <1>7, <1>10, <2>0 DEF Stuck, InCall, Now
  <2>4. ASSUME NEW w \in Threads, NEW k, Comes(next, rnext, t, w, k)'
        PROVE  Comes(pos, rpos, t, w, k) /\ ~(w = u /\ k = kind)
    <3>1. type = "MMIO_READ_COMP" => ~(rnext <= next[t])
      BY <1>11, <2>0
    <3>2. k = "reply" => type # "MMIO_READ_COMP" /\ rpos <= pos[t] /\ w # t
      BY <1>11, <2>0, <2>4, <3>1 DEF Comes
    <3>3. CASE w # u
      <4>1. CASE k = "reply"
        BY <3>2, <3>3, <4>1 DEF Comes
      <4>2. CASE k # "reply"
        BY <1>3, <1>7, <2>3, <2>4, <3>3, <4>2 DEF Comes, Passing, InCall, Doing, Now
      <4> QED
        BY <3>3, <4>1, <4>2
    <3>4. CASE w = u
      <4>1. /\ Stuck(next, u, t)' <=> type \in Dma
            /\ ~Stuck(pos, u, t)
        <5>1. next[t] < next[u]
          BY <1>10, <2>0
        <5>2. Now(u)' = Now(u)
          BY <1>7 DEF Now
        <5> QED
          BY <1>1, <1>3, <1>7, <5>1, <5>2 DEF Stuck, InCall
      <4>2. ~Passing(next, u, t)'
        <5>1. Doing(u, "DMA_WRITE")' => type = "DMA_WRITE"
          BY <1>1, <1>7 DEF Doing, Now
        <5> QED
          BY <4>1, <5>1 DEF Passing, Dma
      <4>3. Doing(u, "NOTIFY")' <=> Doing(u, "NOTIFY")
        BY <1>7 DEF Doing, Now
      <4>4. \/ k = "event" /\ event_set[u]
            \/ k = "notify" /\ Doing(u, "NOTIFY")
            \/ k = "dma" /\ type \notin Dma
            \/ k = "reply"
        BY <1>3, <1>7, <2>4, <3>4, <4>1, <4>2, <4>3 DEF Comes
      <4>5. k # kind
        BY <1>5, <2>1, <3>2, <4>4 DEF Dma
      <4>6. Comes(pos, rpos, t, u, k)
        BY <2>0, <3>2, <3>4, <4>1, <4>4 DEF Comes
      <4> QED
        BY <3>4, <4>5, <4>6
    <3> QED
      BY <3>3, <3>4
  <2> DEFINE X == ToCome(pos, rpos, t)
             Y == ToCome(next, rnext, t)'
  <2>5. Y \subseteq X \ {<<u, kind>>}
    <3> SUFFICES ASSUME NEW x \in Tags, Comes(next, rnext, t, x[1], x[2])'
                 PROVE  Comes(pos, rpos, t, x[1], x[2]) /\ x # <<u, kind>>
      BY DEF ToCome
    <3>1. x[1] \in Threads
      BY Consts DEF Tags
    <3>2. Comes(pos, rpos, t, x[1], x[2]) /\ ~(x[1] = u /\ x[2] = kind)
      BY <2>4, <3>1
    <3> QED
      BY <3>2
  <2>6. IsFiniteSet(X) /\ Cardinality(X) \in Nat
    BY TagCount
  <2>7. n - 1 - pos[t] + Cardinality(X) <= 3 * NPollers + 1
    BY <1>14 DEF Numbering, FewMore
  <2>8. <<u, kind>> \in X
    BY <2>2
  <2> HIDE DEF X, Y
  <2>9. Cardinality(Y) \in Nat /\ Cardinality(Y) <= Cardinality(X) - 1
    BY <2>5, <2>6, <2>8, FewerTags
  <2>10. n - pos[t] + Cardinality(Y) <= 3 * NPollers + 1
    BY <2>6, <2>7, <2>9, <2>0, BridgeAssumption
  <2> QED
    BY <2>9, <2>10 DEF Y
<1>15. n < Q2SB_SZ + Q2SB_SZ
  <2>1. CASE n <= Q2SB_SZ
    BY <1>2, <2>1
  <2>2. CASE n > Q2SB_SZ
    <3>1. Q2SB_SZ \in Q2SB_SZ .. n - 1
      BY <1>2, <2>2
    <3>2. PICK t \in Threads : Filling(t) /\ pos[t] = Q2SB_SZ
      BY <3>1 DEF Numbering, Numbered
    <3>3. PICK c \in Nat : n - Q2SB_SZ + c <= 3 * NPollers + 1
      BY <1>14, <3>2
    <3> QED
      BY <1>2, <3>3, BridgeAssumption
  <2> QED
    BY <1>2, <2>1, <2>2
<1>16. \A i, k : /\ IsKth(i, k)' <=> IsKth(i, k)
                 /\ Holds(i, k)' <=> Holds(i, k)
  BY <1>3 DEF IsKth, Holds
<1>17. Numbered(m, next)'
  <2>1. IsKth(s, n)
    BY <1>1 DEF Numbering, Numbered
  <2>2. IsKth(q2sb_tail', m)
    <3>1. q2sb_tail' = IF s + 1 = Q2SB_SZ THEN 0 ELSE s + 1
      BY <1>2, <1>3, NextSlot
    <3> QED
      BY <1>2, <1>9, <1>15, <2>1, <3>1 DEF IsKth
  <2>3. ASSUME NEW t \in Threads, Filling(t)'
        PROVE  next[t] \in 0 .. m - 1 /\ IsKth(thr'[t].slot, next[t])
    <3>1. CASE t = u
      BY <1>7, <1>9, <1>10, <2>1, <3>1
    <3>2. CASE t # u
      <4>1. Filling(t) /\ thr'[t].slot = thr[t].slot /\ next[t] = pos[t]
        BY <1>7, <1>8, <1>10, <2>3, <3>2
      <4>2. pos[t] \in 0 .. n - 1 /\ IsKth(thr[t].slot, pos[t])
        BY <4>1 DEF Numbering, Numbered
      <4> QED
        BY <1>9, <4>1, <4>2
    <3> QED
      BY <3>1, <3>2
  <2>4. ASSUME NEW t \in Threads, NEW v \in Threads, Filling(t)', Filling(v)', next[t] = next[v]
        PROVE  t = v
    <3>1. \A w \in Threads : Filling(w) => pos[w] # n
      BY <1>13
    <3>2. \A w, x \in Threads : Filling(w) /\ Filling(x) /\ pos[w] = pos[x] => w = x
      BY DEF Numbering, Numbered
    <3> QED
      BY <1>8, <1>10, <2>4, <3>1, <3>2
  <2>5. ASSUME NEW i \in QSlots, NEW k \in QSlots, IsKth(i, k)
        PROVE  q2sb[i].ready <=> k < m /\ ~\E t \in Threads : Filling(t)' /\ next[t] = k
    <3>1. q2sb[i].ready <=> k < n /\ ~\E t \in Threads : Filling(t) /\ pos[t] = k
      BY <2>5 DEF Numbering, Numbered
    <3>2. CASE k = n
      BY <1>8, <1>10, <3>1, <3>2
    <3>3. CASE k # n
      <4>1. k < n <=> k < m
        BY <1>2, <1>9, <3>3
      <4>2. \A t \in Threads : Filling(t)' /\ next[t] = k <=> Filling(t) /\ pos[t] = k
        BY <1>8, <1>10, <3>3
      <4> QED
        BY <3>1, <4>1, <4>2
    <3> QED
      BY <3>2, <3>3
  <2>6. ASSUME NEW k \in Q2SB_SZ .. m - 1 PROVE \E t \in Threads : Filling(t)' /\ next[t] = k
    <3>1. CASE k = n
      BY <1>8, <1>10, <3>1
    <3>2. CASE k # n
      <4>1. k \in Q2SB_SZ .. n - 1
        BY <1>2, <1>9, <3>2
      <4>2. PICK t \in Threads : Filling(t) /\ pos[t] = k
        BY <4>1 DEF Numbering, Numbered
      <4> QED
        BY <1>8, <1>10, <4>2
    <3> QED
      BY <3>1, <3>2
  <2> QED
    BY <1>3, <1>16, <2>2, <2>3, <2>4, <2>5, <2>6 DEF Numbered
<1>18. WaitersIn(next)'
  <2>1. \A w \in Threads : At(w, "wait")' => At(w, "wait") /\ w # u /\ next[w] = pos[w]
    BY <1>7, <1>10 DEF At
  <2> QED
    BY <1>3, <1>16, <2>1 DEF Numbering, WaitersIn
<1>19. ReplyIn(next, rnext)'
  <2>1. CASE type = "MMIO_READ_COMP"
    <3>1. u = Main /\ rnext = next[Main] /\ Filling(Main)'
      BY <1>5, <1>8, <1>10, <1>11, <2>1
    <3>2. Doing(Main, "MMIO_READ_COMP")'
      BY <1>1, <1>3, <1>7, <2>1, <3>1 DEF Doing, Now
    <3> QED
      BY <3>1, <3>2 DEF ReplyIn
  <2>2. CASE type # "MMIO_READ_COMP"
    <3>1. rnext = rpos
      BY <1>11, <2>2
    <3>2. Filling(Main) => Filling(Main)' /\ next[Main] = pos[Main] /\ thr'[Main] = thr[Main]
      BY <1>7, <1>8, <1>10, Consts
    <3>3. Filling(Main) /\ Doing(Main, "MMIO_READ_COMP") =>
            Filling(Main)' /\ Doing(Main, "MMIO_READ_COMP")' /\ next[Main] = pos[Main]
      BY <3>2 DEF Doing, Now
    <3> QED
      BY <1>3, <1>16, <3>1, <3>3 DEF Numbering, ReplyIn
  <2> QED
    BY <2>1, <2>2
<1>20. FewMore(m, next, rnext)'
  <2> SUFFICES ASSUME NEW t \in Threads, Filling(t)'
               PROVE  m - 1 - next[t] + Cardinality(ToCome(next, rnext, t)') <= 3 * NPollers + 1
    BY DEF FewMore
  <2>1. CASE t = u
    <3> DEFINE Y == ToCome(next, rnext, t)'
    <3>1. Y \in SUBSET Tags /\ \A x \in Y : x[1] = t => x[2] = "event"
      BY DEF ToCome, Comes
    <3> HIDE DEF Y
    <3>2. Cardinality(Y) \in 0 .. 3 * NPollers + 1
      BY <3>1, TagsFew
    <3>3. m - 1 - next[t] = 0
      BY <1>9, <1>10, <2>1
    <3>4. m - 1 - next[t] + Cardinality(Y) <= 3 * NPollers + 1
      BY <3>2, <3>3, BridgeAssumption
    <3> QED
      BY <3>4 DEF Y
  <2>2. CASE t # u
    <3>1. Filling(t) /\ next[t] = pos[t]
      BY <1>8, <1>10, <2>2
    <3>2. PICK c \in Nat : c = Cardinality(ToCome(next, rnext, t)') /\ n - pos[t] + c <= 3 * NPollers + 1
      BY <1>14, <3>1
    <3>3. m - 1 - next[t] + c <= 3 * NPollers + 1
      BY <1>9, <3>1, <3>2
    <3> QED
      BY <3>2, <3>3
  <2> QED
    BY <2>1, <2>2
<1> QED
  <2>1. Numbering(m, next, rnext)'
    BY <1>17, <1>18, <1>19, <1>20 DEF Numbering
  <2> QED
    BY <2>1 DEF SlotsNumbered

(* Every step keeps the slots numbered.                                    *)
LEMMA SlotStep ==
  ASSUME AliveInv, OneRead, SlotsNumbered, [Next]_vars
  PROVE  SlotsNumbered'
<1>1. PICK n \in Nat, pos \in [Threads -> Int], rpos \in Int : Numbering(n, pos, rpos)
  BY DEF SlotsNumbered
<1>2. TypeOK
  BY DEF AliveInv
<1>3. ASSUME Numbering(n, pos, rpos)' PROVE SlotsNumbered'
  BY <1>3 DEF SlotsNumbered
<1>4. CASE (\E type \in Access : HostMmio(type)) \/ HostTake \/ MainDone \/ UNCHANGED vars
  <2>1. UNCHANGED <<q2sbVars, thr, event_set>>
    BY <1>4 DEF HostMmio, HostTake, MainDone, vars
  <2> QED
    BY <1>1, <1>2, <1>3, <2>1, QuietNumbering
<1>5. CASE SbStep
  <2>1. CASE SbSend
    BY <1>1, <1>2, <2>1, SendNumbering
  <2>2. CASE ~SbSend
    <3>1. UNCHANGED <<q2sbVars, thr, event_set>>
      BY <1>5, <2>2 DEF SbStep, SbPoll, mmio_post, SbForward, SbNothing, SbCopied
    <3> QED
      BY <1>1, <1>2, <1>3, <3>1, QuietNumbering
  <2> QED
    BY <2>1, <2>2
<1>6. ASSUME NEW t \in Threads, ThreadStep(t) PROVE SlotsNumbered'
  <2>1. CASE sb_op_alloc(t)
    BY <1>1, <1>2, <2>1, AllocNumbering
  <2>2. CASE Fill(t)
    BY <1>1, <1>2, <1>3, <2>2, FillNumbering
  <2>3. CASE DmaReturn(t)
    BY <1>1, <1>3, <2>3, ReturnNumbering
  <2>4. CASE t \in Pollers /\ event_notifier_set(t)
    BY <1>1, <1>2, <1>3, <2>4, NotifyNumbering
  <2> QED
    BY <1>6, <2>1, <2>2, <2>3, <2>4 DEF ThreadStep
<1>7. CASE MainTake \/ \E p \in Pollers : PollerStart(p)
  BY <1>1, <1>2, <1>3, <1>7, StartNumbering
<1>8. CASE MainPoll
  BY <1>1, <1>2, <1>3, <1>8, PollNumbering
<1> QED
  BY <1>4, <1>5, <1>6, <1>7, <1>8, NextSplit

(* No slot is given to two threads at once, however many there are.        *)
THEOREM SlotsAlwaysApart == Spec => []SlotsApart
<1>1. Init => SlotsNumbered
  <2> SUFFICES ASSUME Init PROVE SlotsNumbered
    OBVIOUS
  <2>1. PICK pos : pos = [t \in Threads |-> 0]
    OBVIOUS
  <2>2. pos \in [Threads -> Int] /\ \A t \in Threads : pos[t] = 0
    BY <2>1
  <2>3. /\ \A t \in Threads : ~Filling(t)
        /\ \A i \in QSlots : ~q2sb[i].ready
        /\ IsKth(q2sb_tail, 0)
    BY Consts, Slot DEF Init, Filling, At, QSlots, IsKth
  <2>4. Numbered(0, pos)
    <3>1. \A k \in QSlots : ~(k < 0)
      BY Consts DEF QSlots
    <3>2. Q2SB_SZ .. 0 - 1 = {}
      BY Consts
    <3> QED
      BY <2>3, <3>1, <3>2 DEF Numbered
  <2>5. FewMore(0, pos, 0) /\ WaitersIn(pos) /\ ReplyIn(pos, 0)
    BY <2>2, <2>3 DEF FewMore, WaitersIn, ReplyIn
  <2>6. Numbering(0, pos, 0) /\ 0 \in Nat /\ 0 \in Int
    BY <2>4, <2>5 DEF Numbering
  <2> QED
    BY <2>2, <2>6 DEF SlotsNumbered
<1>2. AliveInv /\ ReadInv /\ SlotsNumbered /\ [Next]_vars => SlotsNumbered'
  BY SlotStep DEF ReadInv
<1>3. ReadInv /\ SlotsNumbered => SlotsApart
  BY NumbersApart DEF ReadInv, SlotsNumbered
<1> QED
  BY <1>1, <1>2, <1>3, AliveInvariance, ReadInvariance, PTL DEF Spec

=============================================================================
