------------------------------- MODULE PQueue -------------------------------
(***************************************************************************)
(* The binary heap of femu/lib/pqueue.c, as its callers use it: the array  *)
(* d[1 .. size-1], and in every entry the priority and the position the    *)
(* heap keeps there through setpri and setpos. Left out: what slots from   *)
(* size on and the pos of entries outside the heap hold, which the heap    *)
(* never reads before writing; and running out of memory.                  *)
(*                                                                         *)
(* An entry outside the heap may have any priority; its owner sets it      *)
(* before the insertion.                                                   *)
(***************************************************************************)
EXTENDS Naturals, Sequences

CONSTANTS Items, Pris, NoItem

ASSUME PriAssumption == Pris \subseteq Nat    \* pqueue_pri_t is unsigned

VARIABLES
  d,          \* pqueue_t: q->d[1 .. q->size - 1]
  pri, pos,   \* fields of the entries
  popped      \* what the last operation, if a pqueue_pop, returned

vars == <<d, pri, pos, popped>>

left(i)   == 2 * i
parent(i) == i \div 2

cmppri(next, curr) == next > curr

size == Len(d) + 1

Heap == [d |-> d, size |-> size, pri |-> pri, pos |-> pos]

\* Mutant: the position is not recorded.
Place_NoSetpos(q, i, x) == [q EXCEPT !.d[i] = x]

\* q->d[i] = x; q->setpos(x, i)
Place(q, i, x) == [q EXCEPT !.d[i] = x, !.pos[x] = i]

\* One turn of the loop of bubble_up with the hole at slot i of heap q; no
\* change when the loop is over.
UpTurn(q, i, moving) ==
  LET p == parent(i) IN
  IF i > 1 /\ cmppri(q.pri[q.d[p]], q.pri[moving])
  THEN [q |-> Place(q, i, q.d[p]), i |-> p]
  ELSE [q |-> q, i |-> i]

\* Heap and hole after n turns. The hole goes one level up in each, so that
\* `size' turns are more than the loop makes.
bubble_up(q, i) ==
  LET moving == q.d[i]
      turn[n \in 0 .. q.size] ==
        IF n = 0 THEN [q |-> q, i |-> i]
                 ELSE UpTurn(turn[n - 1].q, turn[n - 1].i, moving)
      end == turn[q.size]
  IN  Place(end.q, end.i, moving)

\* The child with the least priority; 0 if i is a leaf.
maxchild(q, i) ==
  LET c == left(i) IN
  IF c >= q.size THEN 0
  ELSE IF c + 1 < q.size /\ cmppri(q.pri[q.d[c]], q.pri[q.d[c + 1]])
       THEN c + 1 ELSE c

DownTurn(q, i, moving) ==
  LET c == maxchild(q, i) IN
  IF c # 0 /\ cmppri(q.pri[moving], q.pri[q.d[c]])
  THEN [q |-> Place(q, i, q.d[c]), i |-> c]
  ELSE [q |-> q, i |-> i]

\* Here the hole goes one level down.
percolate_down(q, i) ==
  LET moving == q.d[i]
      turn[n \in 0 .. q.size] ==
        IF n = 0 THEN [q |-> q, i |-> i]
                 ELSE DownTurn(turn[n - 1].q, turn[n - 1].i, moving)
      end == turn[q.size]
  IN  Place(end.q, end.i, moving)

Queued == {d[i] : i \in 1 .. size - 1}

Become(q) ==
  /\ d' = SubSeq(q.d, 1, q.size - 1)
  /\ pri' = q.pri
  /\ pos' = [x \in Items |->
              IF \E i \in 1 .. q.size - 1 : q.d[i] = x THEN q.pos[x] ELSE 0]

-----------------------------------------------------------------------------

Init ==
  /\ d = <<>>
  /\ pri \in [Items -> Pris]
  /\ pos = [x \in Items |-> 0]
  /\ popped = NoItem

pqueue_insert(x, p) ==
  /\ x \notin Queued
  /\ Become(bubble_up([Heap EXCEPT !.d = Append(d, x), !.size = size + 1,
                                   !.pri[x] = p], size))
  /\ popped' = NoItem

\* Mutant: the two directions swapped.
pqueue_change_priority_Swapped(x, p) ==
  /\ x \in Queued
  /\ LET q == [Heap EXCEPT !.pri[x] = p] IN
     Become(IF cmppri(pri[x], p) THEN percolate_down(q, pos[x])
                                 ELSE bubble_up(q, pos[x]))
  /\ popped' = NoItem

pqueue_change_priority(x, p) ==
  /\ x \in Queued
  /\ LET q == [Heap EXCEPT !.pri[x] = p] IN
     Become(IF cmppri(pri[x], p) THEN bubble_up(q, pos[x])
                                 ELSE percolate_down(q, pos[x]))
  /\ popped' = NoItem

\* No caller in the repository, but part of the interface.
pqueue_remove(x) ==
  /\ x \in Queued
  /\ LET last == d[size - 1]
         q == [Heap EXCEPT !.d[pos[x]] = last, !.size = size - 1]
     IN Become(IF cmppri(pri[x], pri[last]) THEN bubble_up(q, pos[x])
                                            ELSE percolate_down(q, pos[x]))
  /\ popped' = NoItem

pqueue_pop ==
  /\ size > 1
  /\ Become(percolate_down([Heap EXCEPT !.d[1] = d[size - 1],
                                        !.size = size - 1], 1))
  /\ popped' = d[1]

Next ==
  \/ \E x \in Items, p \in Pris :
       pqueue_insert(x, p) \/ pqueue_change_priority(x, p)
  \/ \E x \in Items : pqueue_remove(x)
  \/ pqueue_pop

Spec == Init /\ [][Next]_vars

-----------------------------------------------------------------------------
(* Correctness *)

(* The position recorded in a queued entry is its slot, and no entry is in *)
(* the heap twice. pqueue_change_priority and pqueue_remove rely on it,    *)
(* and so does Ftl, which reads line->pos to tell lines in the heap apart. *)
PositionsExact ==
  \A i \in 1 .. size - 1 : d[i] \in Items /\ pos[d[i]] = i

(* The heap implements the queue its users rely on; in particular          *)
(* pqueue_pop returns an entry of least priority and removes that entry.   *)
Abstract == INSTANCE MinQueue WITH queued <- Queued
ImplementsMinQueue == Abstract!Spec

=============================================================================
