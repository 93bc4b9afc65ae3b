-------------------------- MODULE QueueAdminProofs --------------------------
(***************************************************************************)
(* For every number of queues, set of vectors and bound on the routes: the *)
(* shape of the queues, the exactness of the lists of attached submission  *)
(* queues, the doorbell buffer of every queue while the dataplane runs,    *)
(* and what a reset leaves.                                                *)
(***************************************************************************)
EXTENDS QueueAdmin, SequenceTheorems, TLAPS

SqRecord == [exists : {TRUE}, is_active : BOOLEAN, cqid : Qids, db : BOOLEAN]

CqRecord == [exists : {TRUE}, is_active : BOOLEAN, sq_list : SUBSET Qids,
             db : BOOLEAN, irq_enabled : BOOLEAN, vector : Vectors, virq : Nat]

TypeOK ==
  /\ sq \in [Qids -> SqRecord \cup {NULL}]
  /\ cq \in [Qids -> CqRecord \cup {NULL}]
  /\ admin \in BOOLEAN /\ dbs \in BOOLEAN
  /\ dataplane_started \in BOOLEAN /\ poller_on \in BOOLEAN
  /\ pollers \in Nat
  /\ vector_poll_started \in BOOLEAN
  /\ vints \in Seq([vector : Vectors, en : BOOLEAN])

(* The three properties the runs check, and the types they are about.      *)
IInv ==
  /\ TypeOK
  /\ SqListsExact
  /\ NoQueueUnserved
  /\ ResetLeavesNothing

-----------------------------------------------------------------------------
(* Records of queues *)

(* A queue record is not the missing queue.                                *)
LEMMA RecordExists ==
  /\ \A r \in SqRecord : r # NULL
  /\ \A r \in CqRecord : r # NULL
<1>1. NULL.exists = FALSE
  BY DEF NULL
<1>2. \A r \in SqRecord : r.exists = TRUE
  BY Zenon DEF SqRecord
<1>3. \A r \in CqRecord : r.exists = TRUE
  BY Zenon DEF CqRecord
<1> QED
  BY <1>1, <1>2, <1>3, Zenon

(* Setting db leaves the other fields.                                     *)
LEMMA DbSet ==
  /\ \A r \in SqRecord : LET s == [r EXCEPT !.db = TRUE] IN
       s \in SqRecord /\ s.db = TRUE /\ s.cqid = r.cqid /\ s.is_active = r.is_active
  /\ \A r \in CqRecord : LET s == [r EXCEPT !.db = TRUE] IN
       s \in CqRecord /\ s.db = TRUE /\ s.sq_list = r.sq_list
<1>1. ASSUME NEW r \in SqRecord
      PROVE  LET s == [r EXCEPT !.db = TRUE] IN
             s \in SqRecord /\ s.db = TRUE /\ s.cqid = r.cqid /\ s.is_active = r.is_active
  BY DEF SqRecord
<1>2. ASSUME NEW r \in CqRecord
      PROVE  LET s == [r EXCEPT !.db = TRUE] IN
             s \in CqRecord /\ s.db = TRUE /\ s.sq_list = r.sq_list
  BY DEF CqRecord
<1> QED
  BY <1>1, <1>2, Zenon

(* A function on 1 .. n is a sequence.                                     *)
LEMMA FunctionIsSeq ==
  ASSUME NEW S, NEW n \in Nat, NEW f,
         f = [i \in 1 .. n |-> f[i]],
         \A i \in 1 .. n : f[i] \in S
  PROVE  f \in Seq(S)
BY SeqDef

(* What nvme_setup_virq does to the queues c: at most the virq of queue q  *)
(* changes, and the routes keep their type.                                *)
LEMMA SetupVirq ==
  ASSUME TypeOK, NEW q \in Qids,
         NEW c \in [Qids -> CqRecord \cup {NULL}], c[q] \in CqRecord,
         nvme_setup_virq(c, q)
  PROVE  /\ \E n \in Nat : \/ cq' = c
                           \/ cq' = [c EXCEPT ![q] = [c[q] EXCEPT !.virq = n]]
         /\ vints' \in Seq([vector : Vectors, en : BOOLEAN])
         /\ vector_poll_started' \in BOOLEAN
<1> DEFINE Route == [vector : Vectors, en : BOOLEAN]
           routes == kvm_irqchip_add_msi_route(c[q].vector)
           queues == [c EXCEPT ![q].virq = Len(routes)]
<1>1. CASE ~c[q].irq_enabled \/ "MSIX" \notin devctrl
  BY <1>1 DEF nvme_setup_virq, irqVars, TypeOK
<1>2. CASE ~(~c[q].irq_enabled \/ "MSIX" \notin devctrl)
  <2>1. /\ cq' = queues
        /\ vints' = IF vector_poll_started THEN routes
                    ELSE msix_set_vector_notifiers(queues, routes)
        /\ vector_poll_started' = TRUE
    BY <1>2, Zenon DEF nvme_setup_virq
  <2>2. routes \in Seq(Route)
    <3>1. c[q].vector \in Vectors
      BY DEF CqRecord
    <3>2. vints \in Seq(Route)
      BY DEF TypeOK
    <3> QED
      BY <3>1, <3>2 DEF kvm_irqchip_add_msi_route
  <2>3. Len(routes) \in Nat
    BY <2>2
  <2>4. msix_set_vector_notifiers(queues, routes) \in Seq(Route)
    <3> HIDE DEF routes, queues, Route
    <3> DEFINE flag(i) == \E vec \in Vectors :
                            nvme_vector_unmask(queues, routes, vec)[i].en
               w == [i \in DOMAIN routes |-> [routes[i] EXCEPT !.en = flag(i)]]
    <3>1. \A i \in 1 .. Len(routes) : w[i] \in Route
      <4> SUFFICES ASSUME NEW i \in 1 .. Len(routes) PROVE w[i] \in Route
        OBVIOUS
      <4>1. w[i] = [routes[i] EXCEPT !.en = flag(i)]
        <5>1. i \in DOMAIN routes
          BY <2>2
        <5> QED
          BY <5>1, Zenon
      <4>2. flag(i) \in BOOLEAN
        OBVIOUS
      <4>3. routes[i] \in Route
        BY <2>2
      <4> HIDE DEF flag, w
      <4> QED
        BY <4>1, <4>2, <4>3 DEF Route
    <3>2. w \in Seq(Route)
      <4>1. w = [i \in 1 .. Len(routes) |-> w[i]]
        BY <2>2
      <4> HIDE DEF w
      <4> QED
        BY <3>1, <4>1, <2>3, FunctionIsSeq
    <3> QED
      BY <3>2 DEF msix_set_vector_notifiers
  <2>5. queues = [c EXCEPT ![q] = [c[q] EXCEPT !.virq = Len(routes)]]
    BY Zenon
  <2> QED
    BY <2>1, <2>2, <2>3, <2>4, <2>5
<1> QED
  BY <1>1, <1>2

-----------------------------------------------------------------------------
(* One lemma per action: every action preserves the invariant.             *)

(* The controller starts without I/O queues.                               *)
LEMMA InitInv == Init => IInv
<1> SUFFICES ASSUME Init PROVE IInv
  OBVIOUS
<1>1. TypeOK
  <2>1. vints \in Seq([vector : Vectors, en : BOOLEAN])
    BY DEF Init
  <2>2. /\ sq \in [Qids -> SqRecord \cup {NULL}]
        /\ cq \in [Qids -> CqRecord \cup {NULL}]
    BY Zenon DEF Init
  <2> QED
    BY <2>1, <2>2 DEF Init, TypeOK
<1>2. \A q \in Qids : sq[q] = NULL /\ cq[q] = NULL
  BY DEF Init
<1> QED
  BY <1>1, <1>2
     DEF Init, IInv, SqListsExact, NoQueueUnserved, ResetLeavesNothing

(* A completion queue is created, with or without an interrupt.            *)
LEMMA CreateCq ==
  ASSUME IInv, NEW q \in Qids, NEW vector \in Vectors,
         NEW irq_enabled \in BOOLEAN, nvme_create_cq(q, vector, irq_enabled)
  PROVE  IInv'
<1> DEFINE new == [exists |-> TRUE, is_active |-> TRUE, sq_list |-> {},
                   db |-> dbs, irq_enabled |-> irq_enabled,
                   vector |-> vector, virq |-> 0]
           c == [cq EXCEPT ![q] = new]
<1>1. new \in CqRecord
  BY DEF CqRecord, IInv, TypeOK
<1>2. c \in [Qids -> CqRecord \cup {NULL}] /\ c[q] = new
  BY <1>1 DEF IInv, TypeOK
<1>3. nvme_setup_virq(c, q)
  BY DEF nvme_create_cq
<1> HIDE DEF c
<1>4. /\ \E n \in Nat : \/ cq' = c
                      \/ cq' = [c EXCEPT ![q] = [c[q] EXCEPT !.virq = n]]
      /\ vints' \in Seq([vector : Vectors, en : BOOLEAN])
      /\ vector_poll_started' \in BOOLEAN
  BY <1>1, <1>2, <1>3, SetupVirq, Zenon DEF IInv
<1>5. PICK r \in CqRecord : /\ cq' = [cq EXCEPT ![q] = r]
                            /\ r.sq_list = {} /\ r.db = dbs
  <2>1. CASE cq' = c
    BY <1>1, <2>1 DEF c
  <2>2. ASSUME NEW n \in Nat, cq' = [c EXCEPT ![q] = [c[q] EXCEPT !.virq = n]]
        PROVE  \E r \in CqRecord : /\ cq' = [cq EXCEPT ![q] = r]
                                    /\ r.sq_list = {} /\ r.db = dbs
    <3> DEFINE r == [new EXCEPT !.virq = n]
    <3>1. r \in CqRecord /\ r.sq_list = {} /\ r.db = dbs
      BY <1>1 DEF CqRecord
    <3>2. cq' = [cq EXCEPT ![q] = r]
      BY <2>2, <1>2 DEF c, IInv, TypeOK
    <3> QED
      BY <3>1, <3>2
  <2> QED
    BY <1>4, <2>1, <2>2
<1>6. /\ Serving /\ cq[q] = NULL
      /\ UNCHANGED <<barVars, admin, sq, dbs, dataplane_started, poller_on,
                     pollers, aborted>>
  BY DEF nvme_create_cq, nvme_check_cqid
<1>7. TypeOK'
  BY <1>4, <1>5, <1>6 DEF IInv, TypeOK
<1>8. SqListsExact'
  BY <1>5, <1>6, RecordExists DEF IInv, TypeOK, SqListsExact
<1>9. NoQueueUnserved'
  BY <1>5, <1>6, RecordExists DEF IInv, TypeOK, NoQueueUnserved
<1>10. ResetLeavesNothing'
  BY <1>6 DEF Serving, ResetLeavesNothing
<1> QED
  BY <1>7, <1>8, <1>9, <1>10 DEF IInv

(* A submission queue joins the list of its completion queue.              *)
LEMMA CreateSq ==
  ASSUME IInv, NEW q \in Qids, NEW c \in Qids, nvme_create_sq(q, c)
  PROVE  IInv'
<1> DEFINE new == [exists |-> TRUE, is_active |-> TRUE, cqid |-> c, db |-> dbs]
           list == cq[c].sq_list \cup {q}
           attached == [cq[c] EXCEPT !.sq_list = list]
<1>1. /\ admin /\ cq[c] # NULL /\ sq[q] = NULL
      /\ sq' = [sq EXCEPT ![q] = new]
      /\ cq' = [cq EXCEPT ![c] = attached]
      /\ UNCHANGED <<admin, dbs, dataplane_started, poller_on, pollers,
                     vector_poll_started, vints>>
  BY DEF nvme_create_sq, Serving, nvme_check_cqid, nvme_check_sqid, irqVars
<1>2. new \in SqRecord
  BY DEF SqRecord, IInv, TypeOK
<1>3. cq[c] \in CqRecord
  BY <1>1 DEF IInv, TypeOK
<1>4. /\ attached \in CqRecord /\ attached.sq_list = list
      /\ attached.db = cq[c].db
  BY <1>3 DEF CqRecord
<1>5. new.is_active = TRUE /\ new.cqid = c /\ new.db = dbs
  OBVIOUS
<1> HIDE DEF new, attached
<1>6. TypeOK'
  BY <1>1, <1>2, <1>4 DEF IInv, TypeOK
<1>7. SqListsExact'
  BY <1>1, <1>2, <1>3, <1>4, <1>5, RecordExists DEF IInv, TypeOK, SqListsExact
<1>8. NoQueueUnserved'
  BY <1>1, <1>2, <1>4, <1>5, RecordExists DEF IInv, TypeOK, NoQueueUnserved
<1>9. ResetLeavesNothing'
  BY <1>1 DEF ResetLeavesNothing
<1> QED
  BY <1>6, <1>7, <1>8, <1>9 DEF IInv

(* A submission queue leaves the list it is on.                            *)
LEMMA DelSq ==
  ASSUME IInv, NEW q \in Qids, nvme_del_sq(q)
  PROVE  IInv'
<1>1. /\ sq[q] \in SqRecord /\ sq[q].cqid \in Qids /\ sq[q].is_active
  BY DEF nvme_del_sq, nvme_check_sqid, IInv, TypeOK, NoQueueUnserved, SqRecord
<1> DEFINE c == sq[q].cqid
           list == cq[c].sq_list \ {q}
           detached == [cq[c] EXCEPT !.sq_list = list]
<1>2. cq[c] \in CqRecord
  BY <1>1, RecordExists DEF IInv, TypeOK, SqListsExact
<1>3. /\ detached \in CqRecord /\ detached.sq_list = list
      /\ detached.db = cq[c].db
  BY <1>2 DEF CqRecord
<1>4. /\ sq' = [sq EXCEPT ![q] = NULL]
      /\ cq' = [cq EXCEPT ![c] = detached]
      /\ Serving
      /\ UNCHANGED <<admin, dbs, dataplane_started, poller_on, pollers,
                     vector_poll_started, vints>>
  BY <1>1, <1>2, RecordExists
     DEF nvme_del_sq, nvme_check_cqid, irqVars
<1> HIDE DEF detached
<1>5. TypeOK'
  BY <1>1, <1>3, <1>4 DEF IInv, TypeOK
<1>6. SqListsExact'
  BY <1>1, <1>2, <1>3, <1>4, RecordExists DEF IInv, TypeOK, SqListsExact
<1>7. NoQueueUnserved'
  BY <1>1, <1>2, <1>3, <1>4, RecordExists DEF IInv, TypeOK, NoQueueUnserved
<1>8. ResetLeavesNothing'
  BY <1>4 DEF Serving, ResetLeavesNothing
<1> QED
  BY <1>5, <1>6, <1>7, <1>8 DEF IInv

(* A completion queue without submission queues is deleted.                *)
LEMMA DelCq ==
  ASSUME IInv, NEW q \in Qids, nvme_del_cq(q)
  PROVE  IInv'
<1>1. cq[q] \in CqRecord
  BY DEF nvme_del_cq, nvme_check_cqid, IInv, TypeOK
<1> DEFINE inactive == [cq[q] EXCEPT !.is_active = FALSE]
<1>2. /\ inactive \in CqRecord /\ inactive.sq_list = cq[q].sq_list
      /\ inactive.db = cq[q].db
  BY <1>1 DEF CqRecord
<1>3. /\ Serving
      /\ UNCHANGED <<admin, sq, dbs, dataplane_started, poller_on, pollers,
                     vector_poll_started, vints>>
      /\ \/ cq' = cq
         \/ cq[q].sq_list # {} /\ cq' = [cq EXCEPT ![q] = inactive]
         \/ cq[q].sq_list = {} /\ cq' = [cq EXCEPT ![q] = NULL]
  BY DEF nvme_del_cq, irqVars
<1> HIDE DEF inactive
<1>4. TypeOK'
  BY <1>2, <1>3 DEF IInv, TypeOK
<1>5. SqListsExact'
  BY <1>1, <1>2, <1>3, RecordExists DEF IInv, TypeOK, SqListsExact
<1>6. NoQueueUnserved'
  BY <1>1, <1>2, <1>3, RecordExists DEF IInv, TypeOK, NoQueueUnserved
<1>7. ResetLeavesNothing'
  BY <1>3 DEF Serving, ResetLeavesNothing
<1> QED
  BY <1>4, <1>5, <1>6, <1>7 DEF IInv

(* Giving every queue its place in the doorbell buffer.                    *)
LEMMA SetDbMemory == IInv /\ nvme_set_db_memory => IInv'
<1> SUFFICES ASSUME IInv, nvme_set_db_memory PROVE IInv'
  OBVIOUS
<1>1. /\ Serving /\ dbs' = TRUE
      /\ UNCHANGED <<admin, vector_poll_started, vints>>
      /\ sq' = [q \in Qids |-> IF sq[q] = NULL THEN NULL
                               ELSE [sq[q] EXCEPT !.db = TRUE]]
      /\ cq' = [q \in Qids |-> IF cq[q] = NULL THEN NULL
                               ELSE [cq[q] EXCEPT !.db = TRUE]]
  BY DEF nvme_set_db_memory, irqVars
<1>2. \A q \in Qids : sq[q] # NULL =>
        /\ sq[q] \in SqRecord /\ sq'[q] \in SqRecord
        /\ sq'[q].db = TRUE /\ sq'[q].cqid = sq[q].cqid
        /\ sq'[q].is_active = sq[q].is_active
  <2> SUFFICES ASSUME NEW q \in Qids, sq[q] # NULL
               PROVE  /\ sq[q] \in SqRecord /\ sq'[q] \in SqRecord
                      /\ sq'[q].db = TRUE /\ sq'[q].cqid = sq[q].cqid
                      /\ sq'[q].is_active = sq[q].is_active
    OBVIOUS
  <2>1. sq[q] \in SqRecord
    BY DEF IInv, TypeOK
  <2>2. sq'[q] = [sq[q] EXCEPT !.db = TRUE]
    BY <1>1, Zenon
  <2> QED
    BY <2>1, <2>2, DbSet, Zenon
<1>3. \A q \in Qids : cq[q] # NULL =>
        /\ cq[q] \in CqRecord /\ cq'[q] \in CqRecord
        /\ cq'[q].db = TRUE /\ cq'[q].sq_list = cq[q].sq_list
  <2> SUFFICES ASSUME NEW q \in Qids, cq[q] # NULL
               PROVE  /\ cq[q] \in CqRecord /\ cq'[q] \in CqRecord
                      /\ cq'[q].db = TRUE /\ cq'[q].sq_list = cq[q].sq_list
    OBVIOUS
  <2>1. cq[q] \in CqRecord
    BY DEF IInv, TypeOK
  <2>2. cq'[q] = [cq[q] EXCEPT !.db = TRUE]
    BY <1>1, Zenon
  <2> QED
    BY <2>1, <2>2, DbSet, Zenon
<1>4. /\ \A q \in Qids : sq[q] = NULL <=> sq'[q] = NULL
      /\ \A q \in Qids : cq[q] = NULL <=> cq'[q] = NULL
  BY <1>1, <1>2, <1>3, RecordExists
<1>5. TypeOK'
  <2>1. sq' \in [Qids -> SqRecord \cup {NULL}]
    BY <1>1, <1>2, <1>4
  <2>2. cq' \in [Qids -> CqRecord \cup {NULL}]
    BY <1>1, <1>3, <1>4
  <2>3. /\ dataplane_started' \in BOOLEAN /\ poller_on' \in BOOLEAN
        /\ pollers' \in Nat
    <3>1. \/ UNCHANGED <<dataplane_started, poller_on, pollers>>
          \/ /\ dataplane_started' = TRUE /\ poller_on' = TRUE
             /\ pollers' = pollers \/ pollers' = pollers + 1
      BY Zenon DEF nvme_set_db_memory
    <3>2. dataplane_started' \in BOOLEAN /\ poller_on' \in BOOLEAN
      BY <3>1, Zenon DEF IInv, TypeOK
    <3>3. pollers' = pollers \/ pollers' = pollers + 1
      BY <3>1, Zenon
    <3> QED
      BY <3>2, <3>3 DEF IInv, TypeOK
  <2> QED
    BY <1>1, <2>1, <2>2, <2>3 DEF IInv, TypeOK
<1>6. SqListsExact'
  BY <1>2, <1>3, <1>4 DEF IInv, SqListsExact
<1>7. NoQueueUnserved'
  BY <1>1, <1>2, <1>3, <1>4 DEF nvme_set_db_memory, IInv, TypeOK, NoQueueUnserved
<1>8. ResetLeavesNothing'
  BY <1>1 DEF Serving, ResetLeavesNothing
<1> QED
  BY <1>5, <1>6, <1>7, <1>8 DEF IInv

(* nvme_clear_ctrl, whoever calls it, leaves no queue and stops the        *)
(* dataplane.                                                              *)
LEMMA ClearCtrl ==
  ASSUME IInv, nvme_clear_ctrl, vector_poll_started' \in BOOLEAN,
         UNCHANGED <<poller_on, pollers, vints>>
  PROVE  IInv'
<1>1. TypeOK'
  BY DEF nvme_clear_ctrl, IInv, TypeOK
<1>2. \A q \in Qids : sq'[q] = NULL /\ cq'[q] = NULL
  BY DEF nvme_clear_ctrl
<1> QED
  BY <1>1, <1>2 DEF nvme_clear_ctrl, IInv, SqListsExact, NoQueueUnserved,
                    ResetLeavesNothing

(* Steps that leave the queues, the buffer and the dataplane alone.        *)
LEMMA QueuesUnchanged ==
  ASSUME IInv, admin => admin', admin' \in BOOLEAN,
         UNCHANGED <<sq, cq, dbs, dataplane_started, poller_on, pollers,
                     vector_poll_started, vints>>
  PROVE  IInv'
BY DEF IInv, TypeOK, SqListsExact, NoQueueUnserved, ResetLeavesNothing

(* Every step of the controller preserves the invariant.                   *)
LEMMA StepInv == IInv /\ [Next]_vars => IInv'
<1> SUFFICES ASSUME IInv, [Next]_vars PROVE IInv'
  OBVIOUS
<1> USE DEF barVars, irqVars
<1>1. ASSUME NEW q \in Qids, NEW vector \in Vectors,
             NEW irq_enabled \in BOOLEAN, nvme_create_cq(q, vector, irq_enabled)
      PROVE  IInv'
  BY <1>1, CreateCq
<1>2. ASSUME NEW q \in Qids, nvme_del_cq(q) \/ nvme_del_sq(q) PROVE IInv'
  BY <1>2, DelCq, DelSq
<1>3. ASSUME NEW flags, DevCtrl(flags) PROVE IInv'
  BY <1>3, QueuesUnchanged DEF DevCtrl, IInv, TypeOK
<1>4. ASSUME NEW q \in Qids, NEW c \in Qids, nvme_create_sq(q, c) PROVE IInv'
  BY <1>4, CreateSq
<1>5. CASE nvme_set_db_memory
  BY <1>5, SetDbMemory
<1>6. ASSUME NEW shn \in BOOLEAN, NEW valid \in BOOLEAN, Enable(shn, valid)
      PROVE  IInv'
  BY <1>6, QueuesUnchanged DEF Enable, IInv, TypeOK
<1>7. ASSUME NEW shn \in BOOLEAN, Disable(shn) PROVE IInv'
  BY <1>7, ClearCtrl DEF Disable, IInv, TypeOK
<1>8. CASE Shutdown
  BY <1>8, ClearCtrl, QueuesUnchanged DEF Shutdown, IInv, TypeOK
<1>9. CASE LeaveShutdown
  BY <1>9, QueuesUnchanged DEF LeaveShutdown, IInv, TypeOK
<1>10. CASE UNCHANGED vars
  BY <1>10, QueuesUnchanged DEF vars, IInv, TypeOK
<1> QED
  BY <1>1, <1>2, <1>3, <1>4, <1>5, <1>6, <1>7, <1>8, <1>9, <1>10 DEF Next

-----------------------------------------------------------------------------
(* What follows *)

(* The invariant holds of every reachable state of the controller.         *)
THEOREM Invariance == Spec => []IInv
BY InitInv, StepInv, PTL DEF Spec

(* An SQ is in the list of exactly the CQ it names (nvme_init_sq,          *)
(* nvme_free_sq), which exists as long as the SQ does.                     *)
THEOREM SqListsAlwaysExact == Spec => []SqListsExact
BY Invariance, PTL DEF IInv

(* While the dataplane runs every I/O queue has its place in the doorbell  *)
(* buffer, whatever the order in which nvme_set_db_memory and the creation *)
(* commands came; the pollers are created once across resets.              *)
THEOREM QueuesAlwaysServed == Spec => []NoQueueUnserved
BY Invariance, PTL DEF IInv

(* nvme_clear_ctrl leaves neither queues nor a doorbell buffer nor a       *)
(* running dataplane.                                                      *)
THEOREM ResetAlwaysLeavesNothing == Spec => []ResetLeavesNothing
BY Invariance, PTL DEF IInv

(* assert(sq->is_active == true) in nvme_del_sq never fails: no command    *)
(* clears is_active of a submission queue.                                 *)
THEOREM DelSqFindsActive ==
  Spec => [][\A q \in Qids : nvme_del_sq(q) => aborted' # "nvme_del_sq"]_vars
<1>1. IInv => (\A q \in Qids : nvme_del_sq(q) => aborted' # "nvme_del_sq")
  BY DEF IInv, NoQueueUnserved, nvme_del_sq, nvme_check_sqid, Serving
<1> QED
  BY <1>1, Invariance, PTL

=============================================================================
