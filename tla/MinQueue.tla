------------------------------ MODULE MinQueue ------------------------------
(***************************************************************************)
(* What the users of the priority queue rely on: a set of entries, each    *)
(* with a priority its owner may change, of which pqueue_peek and          *)
(* pqueue_pop yield one with the least priority (cmppri is `>' in both     *)
(* users, ftl.c and nvme-io.c). This is the queue the FTL module uses for  *)
(* victim lines and the request path for requests waiting to expire.       *)
(***************************************************************************)
EXTENDS Naturals

CONSTANTS Items, Pris, NoItem

VARIABLES
  queued, pri,
  popped        \* what the last operation, if a pop, returned

vars == <<queued, pri, popped>>

Init ==
  /\ queued = {}
  /\ pri \in [Items -> Pris]
  /\ popped = NoItem

\* The owner sets the priority field of an entry and inserts it.
Insert(x, p) ==
  /\ x \notin queued
  /\ queued' = queued \cup {x}
  /\ pri' = [pri EXCEPT ![x] = p]
  /\ popped' = NoItem

ChangePriority(x, p) ==
  /\ x \in queued
  /\ pri' = [pri EXCEPT ![x] = p]
  /\ popped' = NoItem
  /\ UNCHANGED queued

Remove(x) ==
  /\ x \in queued
  /\ queued' = queued \ {x}
  /\ popped' = NoItem
  /\ UNCHANGED pri

Pop(x) ==
  /\ x \in queued
  /\ \A y \in queued : pri[x] <= pri[y]
  /\ queued' = queued \ {x}
  /\ popped' = x
  /\ UNCHANGED pri

Next ==
  \E x \in Items :
    \/ \E p \in Pris : Insert(x, p) \/ ChangePriority(x, p)
    \/ Remove(x)
    \/ Pop(x)

Spec == Init /\ [][Next]_vars

=============================================================================
