-------------------------------- MODULE Fifo --------------------------------
(***************************************************************************)
(* What the threads of FEMU rely on when they pass requests through a      *)
(* ring: a bounded first-in first-out queue. A producer offers some        *)
(* objects, and all of them enter together or the call is refused; a       *)
(* consumer takes objects from the front and is handed exactly those.      *)
(***************************************************************************)
EXTENDS Naturals, Sequences

CONSTANTS Producers, Consumers, Objects, capacity

VARIABLES
  q,       \* the objects in the queue
  call,    \* what each producer is enqueuing, <<>> when it is in no call
  got      \* what each consumer has taken and not yet been handed

vars == <<q, call, got>>

Init ==
  /\ q = <<>>
  /\ call = [p \in Producers |-> <<>>]
  /\ got = [c \in Consumers |-> <<>>]

Offer(p) ==
  /\ call[p] = <<>>
  /\ call'[p] \in Seq(Objects) \ {<<>>}
  /\ call' = [call EXCEPT ![p] = call'[p]]
  /\ UNCHANGED <<q, got>>

Put(p) ==
  /\ call[p] # <<>>
  /\ Len(q) + Len(call[p]) <= capacity
  /\ q' = q \o call[p]
  /\ call' = [call EXCEPT ![p] = <<>>]
  /\ UNCHANGED got

Refuse(p) ==
  /\ call[p] # <<>>
  /\ call' = [call EXCEPT ![p] = <<>>]
  /\ UNCHANGED <<q, got>>

Take(c, n) ==
  /\ got[c] = <<>>
  /\ got' = [got EXCEPT ![c] = SubSeq(q, 1, n)]
  /\ q' = SubSeq(q, n + 1, Len(q))
  /\ UNCHANGED call

Deliver(c) ==
  /\ got[c] # <<>>
  /\ got' = [got EXCEPT ![c] = <<>>]
  /\ UNCHANGED <<q, call>>

Next ==
  \/ \E p \in Producers : Offer(p) \/ Put(p) \/ Refuse(p)
  \/ \E c \in Consumers : (\E n \in 1 .. Len(q) : Take(c, n)) \/ Deliver(c)

Spec == Init /\ [][Next]_vars

=============================================================================
