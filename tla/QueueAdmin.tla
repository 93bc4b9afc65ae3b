----------------------------- MODULE QueueAdmin -----------------------------
(***************************************************************************)
(* Creation and deletion of I/O queues, the doorbell buffer, and reset and *)
(* shutdown of the controller: the admin commands of femu/nvme-admin.c     *)
(* that change queue state, with nvme_init_{sq,cq} and nvme_free_{sq,cq}   *)
(* of femu/nvme-util.c and the CC register of femu/femu.c. All of it runs  *)
(* in the thread that handles register writes. The host may send any of    *)
(* the commands in any order; queue identifiers are in range, addresses    *)
(* and sizes valid (the early returns on those change no state).           *)
(*                                                                         *)
(* The interrupts of the queues (femu/intr.c) go through routes kept by    *)
(* the KVM calls of qemu-compat/wrapper-qemu.c, a list that only grows.    *)
(*                                                                         *)
(* An assert() that fails and a call that is only a stub end the process:  *)
(* `aborted' names the function.                                           *)
(***************************************************************************)
EXTENDS Naturals, Sequences, FiniteSets

CONSTANTS
  num_io_queues,
  Vectors,          \* interrupt vectors the host uses
  MaxRoutes         \* bound: routes added in a behaviour

Qids == 1 .. num_io_queues

ASSUME QueueAssumption ==
  /\ num_io_queues \in Nat \ {0}
  /\ Vectors \subseteq 0 .. num_io_queues
  /\ MaxRoutes \in Nat

VARIABLES
  cc, csts,            \* EN and SHN; READY, FAILED and SHST_COMPLETE
  admin,               \* n->sq[0] and n->cq[0] are set
  sq, cq,              \* I/O queues: NULL or their relevant fields
  dbs,                 \* n->dbs_addr and n->eis_addr are set
  dataplane_started,   \* the pollers may work
  poller_on, pollers,  \* nvme_create_poller was called; how many times
  devctrl,             \* sb_msi_en, sb_msix_en
  vector_poll_started,
  vints,               \* struct kvm_vint by id: vector and whether en is set
  aborted              \* function that ended the process, or "no"

barVars == <<cc, csts>>
irqVars == <<devctrl, vector_poll_started, vints>>
vars == <<barVars, admin, sq, cq, dbs, dataplane_started, poller_on, pollers,
          irqVars, aborted>>

NULL == [exists |-> FALSE]

\* nvme_check_sqid, nvme_check_cqid: 0 if the queue exists.
nvme_check_sqid(q) == sq[q] # NULL
nvme_check_cqid(q) == cq[q] # NULL

Init ==
  /\ cc = [en |-> FALSE, shn |-> FALSE]
  /\ csts = {}
  /\ admin = FALSE
  /\ sq = [q \in Qids |-> NULL]
  /\ cq = [q \in Qids |-> NULL]
  /\ dbs = FALSE
  /\ dataplane_started = FALSE
  /\ poller_on = FALSE /\ pollers = 0
  /\ devctrl = {} /\ vector_poll_started = FALSE /\ vints = <<>>
  /\ aborted = "no"

-----------------------------------------------------------------------------
(* Interrupts of completion queues *)

\* The list of interrupt routes grows at one end and a route's id is its place.
kvm_irqchip_add_msi_route(vector) ==
  Append(vints, [vector |-> vector, en |-> FALSE])

\* A notifier is put into the route with the given id, if there is one.
kvm_irqchip_add_irqfd_notifier_gsi(v, virq) ==
  IF virq \in DOMAIN v THEN [v EXCEPT ![virq].en = TRUE] ELSE v

\* nvme_vector_unmask of one vector, for the queues c and the routes v: the
\* first queue with the vector has its notifier put into its route. The route
\* of a queue without one (virq 0) is not found.
nvme_vector_unmask(c, v, vector) ==
  LET on    == {q \in Qids : c[q] # NULL /\ c[q].vector = vector}
      first == CHOOSE q \in on : \A r \in on : q <= r
  IN  IF on = {} THEN v
      ELSE kvm_irqchip_add_irqfd_notifier_gsi(v, c[first].virq)

\* msix_set_vector_notifiers: the vectors in turn, each changing routes of
\* its own queues.
msix_set_vector_notifiers(c, v) ==
  [i \in DOMAIN v |->
     [v[i] EXCEPT !.en = \E vec \in Vectors : nvme_vector_unmask(c, v, vec)[i].en]]

\* nvme_setup_virq of queue q among the queues c. Without MSI-X the queue
\* keeps virq 0, and the error is ignored.
nvme_setup_virq(c, q) ==
  IF ~c[q].irq_enabled \/ "MSIX" \notin devctrl
  THEN cq' = c /\ UNCHANGED irqVars
  ELSE LET routes == kvm_irqchip_add_msi_route(c[q].vector)
           queues == [c EXCEPT ![q].virq = Len(routes)]
       IN  /\ Len(vints) < MaxRoutes
           /\ cq' = queues
           /\ vints' = IF vector_poll_started THEN routes
                       ELSE msix_set_vector_notifiers(queues, routes)
           /\ vector_poll_started' = TRUE
           /\ UNCHANGED devctrl

\* nvme_clear_guest_notifier reaches a queue with interrupts before the first
\* missing one: kvm_irqchip_release_virq is a stub that aborts.
ReleasesVirq ==
  \E q \in Qids : /\ \A p \in 1 .. q : cq[p] # NULL
                  /\ cq[q].irq_enabled

\* What nvme_isr_notify_legacy does for queue q.
nvme_isr_notify_legacy(q) ==
  CASE ~cq[q].irq_enabled  -> "none"
    [] "MSIX" \in devctrl  -> "msix_notify"
    [] "MSI" \in devctrl   -> "msi_notify"      \* if INTMS allows
    [] OTHER               -> "pci_irq_pulse"

\* What the poller does to tell the host of completions in queue q: set the
\* notifier, which the main thread polls through the routes, or notify.
nvme_isr_notify_io(q) ==
  IF cq[q].irq_enabled /\ cq[q].virq # 0 THEN "guest_notifier"
  ELSE nvme_isr_notify_legacy(q)

\* The host's DEVCTRL message, taken by the SimBricks thread at any time.
DevCtrl(flags) ==
  /\ aborted = "no"
  /\ devctrl' = flags
  /\ UNCHANGED <<barVars, admin, sq, cq, dbs, dataplane_started, poller_on,
                 pollers, vector_poll_started, vints, aborted>>

-----------------------------------------------------------------------------
(* Admin commands: the admin queues exist and the process is alive. *)

Serving == admin /\ aborted = "no"

nvme_create_cq(q, vector, irq_enabled) ==
  /\ Serving
  /\ ~nvme_check_cqid(q)
  /\ nvme_setup_virq([cq EXCEPT ![q] =
       [exists |-> TRUE, is_active |-> TRUE, sq_list |-> {}, db |-> dbs,
        irq_enabled |-> irq_enabled, vector |-> vector, virq |-> 0]], q)
  /\ UNCHANGED <<barVars, admin, sq, dbs, dataplane_started, poller_on, pollers,
                 aborted>>

\* Mutant: a queue created after the doorbell buffer was set up does not
\* use it.
nvme_create_sq_NoDb(q, c) ==
  /\ Serving
  /\ nvme_check_cqid(c)
  /\ ~nvme_check_sqid(q)
  /\ sq' = [sq EXCEPT ![q] = [exists |-> TRUE, is_active |-> TRUE, cqid |-> c,
                              db |-> FALSE]]
  /\ cq' = [cq EXCEPT ![c].sq_list = @ \cup {q}]
  /\ UNCHANGED <<barVars, admin, dbs, dataplane_started, poller_on, pollers,
                 irqVars, aborted>>

nvme_create_sq(q, c) ==
  /\ Serving
  /\ nvme_check_cqid(c)
  /\ ~nvme_check_sqid(q)
  /\ sq' = [sq EXCEPT ![q] = [exists |-> TRUE, is_active |-> TRUE, cqid |-> c,
                              db |-> dbs]]
  /\ cq' = [cq EXCEPT ![c].sq_list = @ \cup {q}]
  /\ UNCHANGED <<barVars, admin, dbs, dataplane_started, poller_on, pollers,
                 irqVars, aborted>>

\* nvme_post_cqes_io finds cq->req_list empty: nothing fills it.
nvme_del_sq(q) ==
  /\ Serving
  /\ nvme_check_sqid(q)
  /\ IF ~sq[q].is_active
     THEN /\ aborted' = "nvme_del_sq"
          /\ UNCHANGED <<sq, cq>>
     ELSE /\ cq' = IF nvme_check_cqid(sq[q].cqid)
                   THEN [cq EXCEPT ![sq[q].cqid].sq_list = @ \ {q}]
                   ELSE cq
          /\ sq' = [sq EXCEPT ![q] = NULL]
          /\ UNCHANGED aborted
  /\ UNCHANGED <<barVars, admin, dbs, dataplane_started, poller_on, pollers,
                 irqVars>>

\* Mutant: queues still attached do not stop the deletion.
nvme_del_cq_Attached(q) ==
  /\ Serving
  /\ nvme_check_cqid(q)
  /\ cq' = [cq EXCEPT ![q] = NULL]
  /\ UNCHANGED <<barVars, admin, sq, dbs, dataplane_started, poller_on, pollers,
                 irqVars, aborted>>

\* is_active is cleared before the check for attached submission queues.
nvme_del_cq(q) ==
  /\ Serving
  /\ nvme_check_cqid(q)
  /\ IF ~cq[q].is_active
     THEN /\ aborted' = "nvme_del_cq"
          /\ UNCHANGED cq
     ELSE /\ cq' = [cq EXCEPT ![q] =
               IF @.sq_list # {} THEN [@ EXCEPT !.is_active = FALSE] ELSE NULL]
          /\ UNCHANGED aborted
  /\ UNCHANGED <<barVars, admin, sq, dbs, dataplane_started, poller_on, pollers,
                 irqVars>>

nvme_set_db_memory ==
  /\ Serving
  /\ dbs' = TRUE
  /\ sq' = [q \in Qids |-> IF sq[q] = NULL THEN NULL
              ELSE [sq[q] EXCEPT !.db = TRUE]]
  /\ cq' = [q \in Qids |-> IF cq[q] = NULL THEN NULL
              ELSE [cq[q] EXCEPT !.db = TRUE]]
  /\ IF dataplane_started
     THEN /\ aborted' = "nvme_set_db_memory"
          /\ UNCHANGED <<dataplane_started, poller_on, pollers>>
     ELSE /\ dataplane_started' = TRUE
          /\ poller_on' = TRUE
          /\ pollers' = IF poller_on THEN pollers ELSE pollers + 1
          /\ UNCHANGED aborted
  /\ UNCHANGED <<barVars, admin, irqVars>>

-----------------------------------------------------------------------------
(* nvme_write_bar, register CC (0x14). *)

\* Mutant: the dataplane is not stopped.
nvme_clear_ctrl_Running ==
  /\ sq' = [q \in Qids |-> NULL] /\ cq' = [q \in Qids |-> NULL]
  /\ admin' = FALSE
  /\ dbs' = FALSE
  /\ UNCHANGED dataplane_started

nvme_clear_ctrl ==
  /\ dataplane_started' = FALSE
  /\ sq' = [q \in Qids |-> NULL] /\ cq' = [q \in Qids |-> NULL]
  /\ admin' = FALSE
  /\ dbs' = FALSE

\* CC.EN from 0 to 1. nvme_start_ctrl refuses if the admin queues are still
\* there, or for invalid values in the registers (valid = FALSE). CC is
\* stored first, so a CC.SHN set in the same write is not acted upon.
Enable(shn, valid) ==
  LET started == ~admin /\ valid IN
  /\ aborted = "no"
  /\ ~cc.en
  /\ csts' = IF started THEN {"READY"} ELSE {"FAILED"}
  /\ admin' = (admin \/ started)
  /\ cc' = [en |-> TRUE, shn |-> shn]
  /\ UNCHANGED <<sq, cq, dbs, dataplane_started, poller_on, pollers,
                 irqVars, aborted>>

\* CC.EN from 1 to 0, which also clears the stored CC.SHN; a CC.SHN set in
\* the same write then is acted upon (a second nvme_clear_ctrl, which finds
\* no queue left).
Disable(shn) ==
  /\ aborted = "no"
  /\ cc.en
  /\ nvme_clear_ctrl
  /\ cc' = [en |-> FALSE, shn |-> shn]
  /\ csts' = (csts \ {"READY"}) \cup (IF shn THEN {"SHST_COMPLETE"} ELSE {})
  /\ vector_poll_started' = (vector_poll_started /\ ~shn)
  /\ UNCHANGED <<poller_on, pollers, devctrl, vints, aborted>>

\* CC.SHN set, CC.EN as it was.
Shutdown ==
  /\ aborted = "no"
  /\ ~cc.shn
  /\ IF ReleasesVirq
     THEN /\ aborted' = "kvm_irqchip_release_virq"
          /\ UNCHANGED <<barVars, admin, sq, cq, dbs, dataplane_started,
                         vector_poll_started>>
     ELSE /\ nvme_clear_ctrl
          /\ vector_poll_started' = FALSE
          /\ cc' = [cc EXCEPT !.shn = TRUE]
          /\ csts' = csts \cup {"SHST_COMPLETE"}
          /\ UNCHANGED aborted
  /\ UNCHANGED <<poller_on, pollers, devctrl, vints>>

\* CC.SHN back to zero, CC.EN as it was: nothing is started again.
LeaveShutdown ==
  /\ aborted = "no"
  /\ cc.shn
  /\ cc' = [cc EXCEPT !.shn = FALSE]
  /\ csts' = csts \ {"SHST_COMPLETE"}
  /\ UNCHANGED <<admin, sq, cq, dbs, dataplane_started, poller_on, pollers,
                 irqVars, aborted>>

-----------------------------------------------------------------------------

Next ==
  \/ \E q \in Qids, vector \in Vectors, irq_enabled \in BOOLEAN :
       nvme_create_cq(q, vector, irq_enabled)
  \/ \E q \in Qids : nvme_del_cq(q) \/ nvme_del_sq(q)
  \/ \E flags \in {{}, {"MSI"}, {"MSIX"}} : DevCtrl(flags)
  \/ \E q, c \in Qids : nvme_create_sq(q, c)
  \/ nvme_set_db_memory
  \/ \E shn, valid \in BOOLEAN : Enable(shn, valid)
  \/ \E shn \in BOOLEAN : Disable(shn)
  \/ Shutdown \/ LeaveShutdown

Spec == Init /\ [][Next]_vars

-----------------------------------------------------------------------------
(* Correctness *)

(* The lists of attached submission queues hold no dangling pointer and    *)
(* miss none: an SQ is in the list of exactly the CQ it names, and that CQ *)
(* exists as long as it does.                                              *)
SqListsExact ==
  \A q, c \in Qids :
    (sq[q] # NULL /\ sq[q].cqid = c) <=> (cq[c] # NULL /\ q \in cq[c].sq_list)

(* While the dataplane runs, I/O doorbell registers are ignored and the    *)
(* pollers look only at the doorbell buffer: so every I/O queue then has   *)
(* its place in that buffer, whenever and in whichever order queues and    *)
(* buffer were set up, the pollers were created, once across all resets,   *)
(* and no submission queue is left inactive (which nvme_del_sq asserts).   *)
NoQueueUnserved ==
  /\ pollers = IF poller_on THEN 1 ELSE 0
  /\ dataplane_started =>
       /\ dbs /\ poller_on
       /\ \A q \in Qids : (sq[q] # NULL => sq[q].db)
                          /\ (cq[q] # NULL => cq[q].db)
  /\ \A q \in Qids : sq[q] # NULL => sq[q].is_active

(* Nothing outlives a reset: without admin queues there are no I/O queues, *)
(* no doorbell buffer and no running dataplane.                            *)
ResetLeavesNothing ==
  ~admin => /\ \A q \in Qids : sq[q] = NULL /\ cq[q] = NULL
            /\ ~dbs /\ ~dataplane_started

(* assert(cq->is_active == true) in nvme_del_cq never fails.               *)
DelCqFindsActive == aborted # "nvme_del_cq"

(* The notifier that nvme_isr_notify_io sets ("utilize irqfd mechanism") is *)
(* polled: the queue's route holds it, so that the main thread raises the  *)
(* interrupt.                                                              *)
IrqfdBound ==
  \A q \in Qids :
    cq[q] # NULL /\ nvme_isr_notify_io(q) = "guest_notifier" =>
      vints[cq[q].virq] = [vector |-> cq[q].vector, en |-> TRUE]

=============================================================================
