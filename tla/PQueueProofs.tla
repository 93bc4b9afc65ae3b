---------------------------- MODULE PQueueProofs ----------------------------
(***************************************************************************)
(* For any entries and priorities, the heap of pqueue.c keeps in every     *)
(* entry the slot it is in (PositionsAlwaysExact) and is the queue its     *)
(* users rely on (HeapImplementsMinQueue).                                 *)
(*                                                                         *)
(* The loops of bubble_up and percolate_down carry one entry, so that      *)
(* between two turns the array has a hole where the entry would go. Around *)
(* the hole the order may fail in one direction only: towards the parent   *)
(* in bubble_up, towards the children in percolate_down. A turn moves the  *)
(* hole or finds that this direction is right as well, and the hole cannot *)
(* move more often than the heap has entries.                              *)
(***************************************************************************)
EXTENDS PQueue, FiniteSetTheorems, SequenceTheorems, TLAPS

-----------------------------------------------------------------------------
(* Induction, and loops                                                    *)

(* Every set of finite subsets of S has one that is minimal for inclusion. *)
LEMMA MinimalSubset ==
  ASSUME NEW S, NEW T, T \subseteq FiniteSubsetsOf(S), T # {}
  PROVE  \E x \in T : \A y \in T : y \subseteq x => y = x
<1>1. \E x \in T : \A y \in T : <<y, x>> \notin StrictSubsetOrdering(S)
  BY FS_StrictSubsetOrderingWellFounded, WFMin
<1>2. \A x, y \in T : x \in SUBSET S /\ y \in SUBSET S
  BY DEF FiniteSubsetsOf
<1> QED
  BY <1>1, <1>2 DEF StrictSubsetOrdering

(* Every set of natural numbers has a least one.                           *)
LEMMA LeastNat ==
  ASSUME NEW T, T \subseteq Nat, T # {}
  PROVE  \E x \in T : \A y \in T : x <= y
<1> DEFINE I == {1 .. x : x \in T}
<1>1. I \subseteq FiniteSubsetsOf(Nat)
  <2> SUFFICES ASSUME NEW x \in T PROVE 1 .. x \in FiniteSubsetsOf(Nat)
    OBVIOUS
  <2>1. x \in Int /\ 1 \in Int
    OBVIOUS
  <2>2. IsFiniteSet(1 .. x)
    BY <2>1, FS_Interval
  <2>3. 1 .. x \subseteq Nat
    BY <2>1
  <2> QED BY <2>2, <2>3 DEF FiniteSubsetsOf
<1>2. I # {}
  OBVIOUS
<1>3. PICK m \in I : \A y \in I : y \subseteq m => y = m
  <2> HIDE DEF I
  <2> QED BY <1>1, <1>2, MinimalSubset
<1>4. PICK x \in T : m = 1 .. x
  OBVIOUS
<1>5. \A y \in T : x <= y
  <2> SUFFICES ASSUME NEW y \in T, y < x PROVE FALSE
    BY SMT
  <2>1. x \in Nat /\ y \in Nat
    OBVIOUS
  <2>2. 1 .. y \subseteq 1 .. x
    BY <2>1
  <2>3. 1 .. y = 1 .. x
    BY <2>2, <1>3, <1>4, Zenon
  <2>4. x \in 1 .. x /\ x \notin 1 .. y
    BY <2>1
  <2> QED BY <2>3, <2>4
<1> QED
  BY <1>5

(* Induction, with a set in the place of the predicate.                    *)
LEMMA NatSetInduction ==
  ASSUME NEW T, 0 \in T, \A n \in Nat : n \in T => n + 1 \in T
  PROVE  \A n \in Nat : n \in T
<1> SUFFICES ASSUME Nat \ T # {} PROVE FALSE
  OBVIOUS
<1>1. Nat \ T \subseteq Nat
  OBVIOUS
<1>2. PICK x \in Nat \ T : \A y \in Nat \ T : x <= y
  BY LeastNat, <1>1
<1>3. x # 0 /\ x - 1 \in Nat /\ (x - 1) + 1 = x
  BY <1>2
<1>4. x - 1 \in T
  BY <1>2, <1>3
<1> QED
  BY <1>4, <1>3

\* f runs through the values that the step function F on S produces from base.
Runs(f, F, S, base, n) ==
  /\ f \in [0 .. n -> S]
  /\ f[0] = base
  /\ \A k \in 1 .. n : f[k] = F[f[k - 1]]

(* A step function can be iterated: the values a recursion defines exist.  *)
LEMMA RecursionExists ==
  ASSUME NEW n \in Nat, NEW S, NEW base \in S, NEW F \in [S -> S]
  PROVE  \E f : Runs(f, F, S, base, n)
<1> DEFINE T == {m \in Nat : m <= n => \E f : Runs(f, F, S, base, m)}
<1>2. 0 \in T
  <2>1. Runs([k \in 0 .. 0 |-> base], F, S, base, 0)
    BY DEF Runs
  <2> QED BY <2>1
<1>3. \A m \in Nat : m \in T => m + 1 \in T
  <2> SUFFICES ASSUME NEW m \in Nat, m + 1 <= n, NEW f, Runs(f, F, S, base, m)
               PROVE  \E g : Runs(g, F, S, base, m + 1)
    OBVIOUS
  <2> DEFINE g == [k \in 0 .. m + 1 |-> IF k <= m THEN f[k] ELSE F[f[m]]]
  <2>1. f \in [0 .. m -> S] /\ f[0] = base /\ \A k \in 1 .. m : f[k] = F[f[k - 1]]
    BY DEF Runs
  <2>2. f[m] \in S /\ m + 1 \in 1 .. n
    BY <2>1
  <2>3. F[f[m]] \in S
    BY <2>2
  <2>4. g \in [0 .. m + 1 -> S]
    BY <2>1, <2>3
  <2>5. g[0] = base
    BY <2>1
  <2>6. \A k \in 1 .. m + 1 : g[k] = F[g[k - 1]]
    <3> TAKE k \in 1 .. m + 1
    <3>1. CASE k <= m
      <4>1. k \in 1 .. m /\ k \in 0 .. m + 1 /\ k - 1 \in 0 .. m + 1 /\ k - 1 <= m
        BY <3>1
      <4> QED BY <2>1, <4>1
    <3>2. CASE k = m + 1
      <4>1. k \in 0 .. m + 1 /\ ~(k <= m) /\ k - 1 = m /\ m \in 0 .. m + 1
        BY <3>2
      <4> QED BY <4>1, <3>2
    <3> QED BY <3>1, <3>2
  <2>7. Runs(g, F, S, base, m + 1)
    BY <2>4, <2>5, <2>6 DEF Runs
  <2> QED BY <2>7
<1>4. n \in T
  <2> HIDE DEF T
  <2> QED BY <1>2, <1>3, NatSetInduction
<1> QED
  BY <1>4

-----------------------------------------------------------------------------
(* The tree in the array, and a heap with a hole                           *)

\* Heaps with n as their size and P as their priorities; slots up to L.
Heaps(L, n, P) ==
  [d : [1 .. L -> Items], size : {n}, pri : {P}, pos : [Items -> Nat]]

\* A heap of the entries R.
Exact(q)    == \A j \in 1 .. q.size - 1 : q.pos[q.d[j]] = j
Ordered(q)  == \A j \in 2 .. q.size - 1 : q.pri[q.d[parent(j)]] <= q.pri[q.d[j]]
Heaped(q, R) == Exact(q) /\ R = {q.d[j] : j \in 1 .. q.size - 1} /\ Ordered(q)

\* Slot i is a hole for entry m, in which it can be wrong only with its parent
\* (above the hole all is well) or only with its children.
Apart(q, i, m) ==
  \A j \in 1 .. q.size - 1 : j # i => q.pos[q.d[j]] = j /\ q.d[j] # m
OrderAway(q, i) ==
  \A j \in 2 .. q.size - 1 : j # i /\ parent(j) # i => q.pri[q.d[parent(j)]] <= q.pri[q.d[j]]
OrderAcross(q, i) ==
  i > 1 => \A j \in 2 .. q.size - 1 : parent(j) = i => q.pri[q.d[parent(i)]] <= q.pri[q.d[j]]
Rest(q, i) == {q.d[j] : j \in (1 .. q.size - 1) \ {i}}
Hole(q, i, m, R) ==
  /\ i \in 1 .. q.size - 1
  /\ Apart(q, i, m) /\ R = Rest(q, i)
  /\ OrderAway(q, i) /\ OrderAcross(q, i)
OverChildren(q, i, m) ==
  \A j \in 2 .. q.size - 1 : parent(j) = i => q.pri[m] <= q.pri[q.d[j]]
UnderParent(q, i, m) == i > 1 => q.pri[q.d[parent(i)]] <= q.pri[m]

(* Parents and children.                                                   *)
LEMMA Tree ==
  /\ \A j \in Nat : j > 1 =>
       /\ parent(j) \in Nat /\ 1 <= parent(j) /\ parent(j) < j
       /\ j = 2 * parent(j) \/ j = 2 * parent(j) + 1
  /\ \A p \in Nat : parent(2 * p) = p /\ parent(2 * p + 1) = p /\ left(p) = 2 * p
BY DEF parent, left

(* What Place writes.                                                      *)
LEMMA Placing ==
  ASSUME NEW L \in Nat, NEW n \in Nat, NEW P \in [Items -> Pris],
         NEW q \in Heaps(L, n, P), NEW i \in 1 .. L, NEW x \in Items,
         NEW h, h = Place(q, i, x)
  PROVE  /\ h \in Heaps(L, n, P) /\ h.size = n /\ h.pri = P
         /\ h.d[i] = x /\ \A j \in 1 .. L : j # i => h.d[j] = q.d[j]
         /\ h.pos[x] = i /\ \A y \in Items : y # x => h.pos[y] = q.pos[y]
<1>1. /\ q.d \in [1 .. L -> Items] /\ q.pos \in [Items -> Nat] /\ q.size = n /\ q.pri = P
      /\ q = [d |-> q.d, size |-> q.size, pri |-> q.pri, pos |-> q.pos]
  BY DEF Heaps
<1>2. PICK E, Y : E = [q.d EXCEPT ![i] = x] /\ Y = [q.pos EXCEPT ![x] = i]
  OBVIOUS
<1>3. E \in [1 .. L -> Items] /\ Y \in [Items -> Nat]
  BY <1>1, <1>2
<1>4. /\ E[i] = x /\ \A j \in 1 .. L : j # i => E[j] = q.d[j]
      /\ Y[x] = i /\ \A y \in Items : y # x => Y[y] = q.pos[y]
  BY <1>1, <1>2
<1>6. h.d = E /\ h.pos = Y /\ h.size = n /\ h.pri = P
  BY <1>1, <1>2 DEF Place
<1>7. h \in Heaps(L, n, P)
  BY <1>1, <1>2, <1>3 DEF Place, Heaps
<1> QED
  BY <1>4, <1>6, <1>7

(* An entry is put into the hole.                                          *)
LEMMA Filled ==
  ASSUME NEW L \in Nat, NEW n \in Nat, n <= L + 1, NEW P \in [Items -> Pris],
         NEW q \in Heaps(L, n, P), NEW i \in 1 .. L, NEW m \in Items, NEW R,
         Hole(q, i, m, R), OverChildren(q, i, m), UnderParent(q, i, m)
  PROVE  Heaped(Place(q, i, m), R \cup {m})
<1>1. PICK h : h = Place(q, i, m)
  OBVIOUS
<1>2. /\ q.d \in [1 .. L -> Items] /\ q.pos \in [Items -> Nat] /\ q.size = n /\ q.pri = P
      /\ i \in 1 .. n - 1 /\ \A j \in 1 .. n - 1 : j \in 1 .. L
  BY DEF Heaps, Hole
<1>0. /\ h.d[i] = m /\ \A j \in 1 .. L : j # i => h.d[j] = q.d[j]
      /\ h.size = n /\ h.pri = P /\ h.pos[m] = i
      /\ \A x \in Items : x # m => h.pos[x] = q.pos[x]
  BY <1>1, Placing
<1>3. /\ h.size = n /\ h.pri = P
      /\ h.d[i] = m /\ \A j \in 1 .. n - 1 : j # i => h.d[j] = q.d[j]
      /\ h.pos[m] = i /\ \A x \in Items : x # m => h.pos[x] = q.pos[x]
  BY <1>0, <1>2
<1>4. \A j \in 1 .. n - 1 : q.d[j] \in Items
  BY <1>2
<1>5. Exact(h)
  BY <1>2, <1>3, <1>4 DEF Exact, Hole, Apart
<1>6. R \cup {m} = {h.d[j] : j \in 1 .. n - 1}
  <2>1. R = {q.d[j] : j \in (1 .. n - 1) \ {i}}
    BY <1>2 DEF Hole, Rest
  <2>2. R = {h.d[j] : j \in (1 .. n - 1) \ {i}}
    BY <1>3, <2>1
  <2> QED
    BY <1>2, <1>3, <2>2
<1>7. Ordered(h)
  <2> SUFFICES ASSUME NEW j \in 2 .. n - 1 PROVE P[h.d[parent(j)]] <= P[h.d[j]]
    BY <1>3 DEF Ordered
  <2>0. j \in Nat /\ j > 1 /\ j \in 1 .. n - 1
    OBVIOUS
  <2>1. parent(j) \in 1 .. n - 1 /\ parent(j) # j /\ j \in 1 .. n - 1 /\ j > 1
    <3>1. parent(j) \in Nat /\ 1 <= parent(j) /\ parent(j) < j
      BY <2>0, Tree
    <3> QED
      BY <2>0, <3>1
  <2>2. CASE j = i
    <3>1. P[q.d[parent(i)]] <= P[m]
      BY <1>2, <2>1, <2>2 DEF UnderParent
    <3> QED
      BY <1>3, <2>1, <2>2, <3>1
  <2>3. CASE parent(j) = i
    <3>1. P[m] <= P[q.d[j]]
      BY <1>2, <2>3 DEF OverChildren
    <3> QED
      BY <1>3, <2>1, <2>3, <3>1
  <2>4. CASE j # i /\ parent(j) # i
    <3>1. P[q.d[parent(j)]] <= P[q.d[j]]
      BY <1>2, <2>4 DEF Hole, OrderAway
    <3> QED
      BY <1>3, <2>1, <2>4, <3>1
  <2> QED
    BY <2>2, <2>3, <2>4
<1> QED
  BY <1>1, <1>3, <1>5, <1>6, <1>7 DEF Heaped

(* The hole goes from slot i to slot c, next to it in the tree.            *)
LEMMA Shifted ==
  ASSUME NEW L \in Nat, NEW n \in Nat, n <= L + 1, NEW P \in [Items -> Pris],
         NEW q \in Heaps(L, n, P), NEW i \in 1 .. L, NEW m \in Items, NEW R,
         Hole(q, i, m, R), NEW c \in 1 .. n - 1, c # i,
         NEW h, h = Place(q, i, q.d[c])
  PROVE  /\ h \in Heaps(L, n, P) /\ h.size = n /\ h.pri = P
         /\ h.d[i] = q.d[c] /\ \A j \in 1 .. n - 1 : j # i => h.d[j] = q.d[j]
         /\ Apart(h, c, m) /\ R = Rest(h, c)
<1>2. /\ q.d \in [1 .. L -> Items] /\ q.pos \in [Items -> Nat] /\ q.size = n /\ q.pri = P
      /\ i \in 1 .. n - 1 /\ q.d[c] \in Items /\ \A j \in 1 .. n - 1 : j \in 1 .. L
  BY DEF Heaps, Hole
<1>1. PICK e \in Items : e = q.d[c]
  BY <1>2
<1>9. h = Place(q, i, e)
  BY <1>1
<1>0. /\ h.d[i] = e /\ \A j \in 1 .. L : j # i => h.d[j] = q.d[j]
      /\ h.size = n /\ h.pri = P /\ h.pos[e] = i /\ h \in Heaps(L, n, P)
      /\ \A y \in Items : y # e => h.pos[y] = q.pos[y]
  BY <1>9, Placing
<1>3. /\ h \in Heaps(L, n, P) /\ h.size = n /\ h.pri = P
      /\ h.d[i] = q.d[c] /\ \A j \in 1 .. n - 1 : j # i => h.d[j] = q.d[j]
      /\ h.pos[q.d[c]] = i /\ \A x \in Items : x # q.d[c] => h.pos[x] = q.pos[x]
  BY <1>0, <1>1, <1>2
<1>4. \A j \in 1 .. n - 1 : q.d[j] \in Items
  BY <1>2
<1>5. \A j \in 1 .. n - 1 : j # i => q.pos[q.d[j]] = j /\ q.d[j] # m
  BY <1>2 DEF Hole, Apart
<1>6. Apart(h, c, m)
  <2> SUFFICES ASSUME NEW j \in 1 .. n - 1, j # c PROVE h.pos[h.d[j]] = j /\ h.d[j] # m
    BY <1>3 DEF Apart
  <2>1. CASE j = i
    BY <1>3, <1>5, <2>1
  <2>2. CASE j # i
    <3>1. q.d[j] # q.d[c]
      BY <1>5, <2>2
    <3> QED
      BY <1>3, <1>4, <1>5, <2>2, <3>1
  <2> QED
    BY <2>1, <2>2
<1>7. R = {h.d[j] : j \in (1 .. n - 1) \ {c}}
  <2>1. R = {q.d[j] : j \in (1 .. n - 1) \ {i}}
    BY <1>2 DEF Hole, Rest
  <2>2. ASSUME NEW x PROVE (\E j \in (1 .. n - 1) \ {i} : x = q.d[j])
                           <=> (\E j \in (1 .. n - 1) \ {c} : x = h.d[j])
    <3>1. ASSUME NEW j \in (1 .. n - 1) \ {i}, x = q.d[j]
          PROVE  \E k \in (1 .. n - 1) \ {c} : x = h.d[k]
      <4>1. CASE j = c
        BY <1>2, <1>3, <3>1, <4>1
      <4>2. CASE j # c
        BY <1>3, <3>1, <4>2
      <4> QED
        BY <4>1, <4>2
    <3>2. ASSUME NEW j \in (1 .. n - 1) \ {c}, x = h.d[j]
          PROVE  \E k \in (1 .. n - 1) \ {i} : x = q.d[k]
      <4>1. CASE j = i
        BY <1>3, <3>2, <4>1
      <4>2. CASE j # i
        BY <1>3, <3>2, <4>2
      <4> QED
        BY <4>1, <4>2
    <3> QED
      BY <3>1, <3>2
  <2> QED
    BY <2>1, <2>2
<1> QED
  BY <1>3, <1>6, <1>7 DEF Rest

(* The child that maxchild chooses.                                        *)
LEMMA Child ==
  ASSUME NEW L \in Nat, NEW n \in Nat, n <= L + 1, NEW P \in [Items -> Pris],
         NEW q \in Heaps(L, n, P), NEW i \in 1 .. L, NEW c, c = maxchild(q, i)
  PROVE  \/ c = 0 /\ \A j \in 2 .. n - 1 : parent(j) # i
         \/ /\ c \in 2 .. n - 1 /\ parent(c) = i /\ c > i
            /\ \A j \in 2 .. n - 1 : parent(j) = i => P[q.d[c]] <= P[q.d[j]]
<1>1. /\ q.d \in [1 .. L -> Items] /\ q.size = n /\ q.pri = P
      /\ left(i) = 2 * i /\ parent(2 * i) = i /\ parent(2 * i + 1) = i
  <2>1. i \in Nat
    OBVIOUS
  <2> QED
    BY <2>1, Tree DEF Heaps
<1>2. \A j \in 2 .. n - 1 : parent(j) = i => j = 2 * i \/ j = 2 * i + 1
  <2> TAKE j \in 2 .. n - 1
  <2>1. j \in Nat /\ j > 1
    OBVIOUS
  <2> QED
    BY <2>1, Tree
<1>3. \A j \in 1 .. n - 1 : q.d[j] \in Items
  BY <1>1
<1>4. \A x \in Items : P[x] \in Nat
  BY PriAssumption
<1>5. CASE 2 * i >= n
  <2>1. c = 0
    BY <1>1, <1>5 DEF maxchild
  <2> QED
    BY <1>2, <1>5, <2>1
<1>6. CASE 2 * i < n
  <2>1. 2 * i \in 2 .. n - 1 /\ q.d[2 * i] \in Items
    BY <1>3, <1>6
  <2>2. CASE 2 * i + 1 < n
    <3>1. 2 * i + 1 \in 2 .. n - 1 /\ q.d[2 * i + 1] \in Items
      BY <1>3, <2>2
    <3>2. CASE P[q.d[2 * i]] > P[q.d[2 * i + 1]]
      <4>1. c = 2 * i + 1
        BY <1>1, <1>6, <2>2, <3>2 DEF maxchild, cmppri
      <4>2. \A j \in 2 .. n - 1 : parent(j) = i => P[q.d[c]] <= P[q.d[j]]
        BY <1>2, <1>4, <2>1, <3>1, <3>2, <4>1
      <4> QED
        BY <1>1, <3>1, <4>1, <4>2
    <3>3. CASE ~(P[q.d[2 * i]] > P[q.d[2 * i + 1]])
      <4>1. c = 2 * i
        BY <1>1, <1>6, <2>2, <3>3 DEF maxchild, cmppri
      <4>2. \A j \in 2 .. n - 1 : parent(j) = i => P[q.d[c]] <= P[q.d[j]]
        BY <1>2, <1>4, <2>1, <3>1, <3>3, <4>1
      <4> QED
        BY <1>1, <2>1, <4>1, <4>2
    <3> QED
      BY <3>2, <3>3
  <2>3. CASE ~(2 * i + 1 < n)
    <3>1. c = 2 * i
      BY <1>1, <1>6, <2>3 DEF maxchild
    <3>2. \A j \in 2 .. n - 1 : parent(j) = i => P[q.d[c]] <= P[q.d[j]]
      <4> SUFFICES ASSUME NEW j \in 2 .. n - 1, parent(j) = i PROVE P[q.d[c]] <= P[q.d[j]]
        OBVIOUS
      <4>1. j = c
        BY <1>2, <2>3, <3>1
      <4> QED
        BY <1>4, <2>1, <3>1, <4>1
    <3> QED
      BY <1>1, <2>1, <3>1, <3>2
  <2> QED
    BY <2>2, <2>3
<1> QED
  BY <1>5, <1>6

(* One turn of bubble_up: the hole moves up, or there is none to move.     *)
LEMMA UpOnce ==
  ASSUME NEW L \in Nat, NEW n \in Nat, n <= L + 1, NEW P \in [Items -> Pris],
         NEW q \in Heaps(L, n, P), NEW i \in 1 .. L, NEW m \in Items, NEW R,
         Hole(q, i, m, R), OverChildren(q, i, m), NEW t, t = UpTurn(q, i, m)
  PROVE  \/ t = [q |-> q, i |-> i] /\ UnderParent(q, i, m)
         \/ /\ t.q \in Heaps(L, n, P) /\ t.i \in 1 .. L /\ t.i < i
            /\ Hole(t.q, t.i, m, R) /\ OverChildren(t.q, t.i, m)
<1>1. /\ q.d \in [1 .. L -> Items] /\ q.size = n /\ q.pri = P /\ i \in 1 .. n - 1
      /\ i \in Nat
  BY DEF Heaps, Hole
<1>0. \A x \in Items : P[x] \in Nat
  BY PriAssumption
<1>2. PICK p : p = parent(i)
  OBVIOUS
<1>3. CASE ~(i > 1 /\ P[q.d[p]] > P[m])
  <2>1. t = [q |-> q, i |-> i]
    BY <1>1, <1>2, <1>3 DEF UpTurn, cmppri
  <2>2. ASSUME i > 1 PROVE P[q.d[p]] <= P[m]
    <3>0. p \in Nat /\ 1 <= p /\ p < i
      BY <1>1, <1>2, <2>2, Tree
    <3>1. p \in 1 .. L
      BY <1>1, <3>0
    <3>2. q.d[p] \in Items
      BY <1>1, <3>1
    <3> QED
      BY <1>0, <1>3, <2>2, <3>2
  <2> QED
    BY <1>1, <1>2, <2>1, <2>2 DEF UnderParent
<1>4. CASE i > 1 /\ P[q.d[p]] > P[m]
  <2>1. PICK h : h = Place(q, i, q.d[p])
    OBVIOUS
  <2>2. t.q = h /\ t.i = p
    BY <1>1, <1>2, <1>4, <2>1 DEF UpTurn, cmppri
  <2>3. p \in Nat /\ 1 <= p /\ p < i
    BY <1>1, <1>2, <1>4, Tree
  <2>4. p \in 1 .. n - 1 /\ p \in 1 .. L /\ p # i /\ \A j \in 1 .. n - 1 : q.d[j] \in Items
    BY <1>1, <2>3
  <2>5. /\ h \in Heaps(L, n, P) /\ h.size = n /\ h.pri = P
        /\ h.d[i] = q.d[p] /\ \A j \in 1 .. n - 1 : j # i => h.d[j] = q.d[j]
        /\ Apart(h, p, m) /\ R = Rest(h, p)
    BY <2>1, <2>4, Shifted
  <2>6. \A j \in 2 .. n - 1 : /\ j \in 1 .. n - 1 /\ parent(j) \in 1 .. n - 1
                              /\ parent(j) # j /\ q.d[j] \in Items /\ q.d[parent(j)] \in Items
    <3> TAKE j \in 2 .. n - 1
    <3>1. j \in Nat /\ j > 1 /\ j \in 1 .. n - 1
      OBVIOUS
    <3>2. parent(j) \in Nat /\ 1 <= parent(j) /\ parent(j) < j
      BY <3>1, Tree
    <3>3. parent(j) \in 1 .. n - 1 /\ parent(j) # j
      BY <3>1, <3>2
    <3> QED
      BY <2>4, <3>1, <3>3
  <2>7. /\ \A j \in 2 .. n - 1 : j # i /\ parent(j) # i => P[q.d[parent(j)]] <= P[q.d[j]]
        /\ \A j \in 2 .. n - 1 : parent(j) = i => P[q.d[p]] <= P[q.d[j]]
    BY <1>1, <1>2, <1>4 DEF Hole, OrderAway, OrderAcross
  <2>8. OrderAway(h, p)
    <3> SUFFICES ASSUME NEW j \in 2 .. n - 1, j # p, parent(j) # p
                 PROVE  P[h.d[parent(j)]] <= P[h.d[j]]
      BY <2>5 DEF OrderAway
    <3>1. j # i
      BY <1>2
    <3> QED
      BY <2>5, <2>6, <2>7, <3>1
  <2>9. \A j \in 2 .. n - 1 : parent(j) = p => P[q.d[p]] <= P[h.d[j]]
    <3> TAKE j \in 2 .. n - 1
    <3> HAVE parent(j) = p
    <3>1. CASE j = i
      BY <1>0, <2>4, <2>5, <3>1
    <3>2. CASE j # i
      BY <2>4, <2>5, <2>6, <2>7, <3>2
    <3> QED
      BY <3>1, <3>2
  <2>10. OrderAcross(h, p)
    <3> SUFFICES ASSUME p > 1, NEW j \in 2 .. n - 1, parent(j) = p
                 PROVE  P[h.d[parent(p)]] <= P[h.d[j]]
      BY <2>5 DEF OrderAcross
    <3>1. parent(p) \in Nat /\ 1 <= parent(p) /\ parent(p) < p
      BY <2>3, Tree
    <3>2. p \in 2 .. n - 1 /\ parent(p) # i /\ parent(p) \in 1 .. n - 1
      BY <2>3, <2>4, <3>1
    <3>3. P[q.d[parent(p)]] <= P[q.d[p]] /\ h.d[parent(p)] = q.d[parent(p)]
      BY <2>4, <2>5, <2>7, <3>2
    <3>4. P[q.d[p]] <= P[h.d[j]]
      BY <2>9
    <3>5. h.d[j] \in Items /\ q.d[p] \in Items /\ q.d[parent(p)] \in Items
      BY <2>4, <2>5, <2>6, <3>2
    <3>6. P[h.d[j]] \in Nat /\ P[q.d[p]] \in Nat /\ P[q.d[parent(p)]] \in Nat
      BY <1>0, <3>5
    <3> QED
      BY <3>3, <3>4, <3>6
  <2>11. OverChildren(h, p, m)
    <3> SUFFICES ASSUME NEW j \in 2 .. n - 1, parent(j) = p
                 PROVE  P[m] <= P[h.d[j]]
      BY <2>5 DEF OverChildren
    <3>1. P[q.d[p]] <= P[h.d[j]]
      BY <2>9
    <3>2. h.d[j] \in Items
      BY <2>4, <2>5, <2>6
    <3>3. P[h.d[j]] \in Nat /\ P[q.d[p]] \in Nat /\ P[m] \in Nat
      BY <1>0, <2>4, <3>2
    <3> QED
      BY <1>4, <3>1, <3>3
  <2>12. Hole(h, p, m, R)
    BY <2>4, <2>5, <2>8, <2>10 DEF Hole
  <2> QED
    BY <2>2, <2>3, <2>4, <2>5, <2>11, <2>12
<1> QED
  BY <1>3, <1>4

(* One turn of percolate_down: the hole moves down, or there is none to    *)
(* move.                                                                   *)
LEMMA DownOnce ==
  ASSUME NEW L \in Nat, NEW n \in Nat, n <= L + 1, NEW P \in [Items -> Pris],
         NEW q \in Heaps(L, n, P), NEW i \in 1 .. L, NEW m \in Items, NEW R,
         Hole(q, i, m, R), UnderParent(q, i, m), NEW t, t = DownTurn(q, i, m)
  PROVE  \/ t = [q |-> q, i |-> i] /\ OverChildren(q, i, m)
         \/ /\ t.q \in Heaps(L, n, P) /\ t.i \in 1 .. L /\ t.i > i
            /\ Hole(t.q, t.i, m, R) /\ UnderParent(t.q, t.i, m)
<1>1. /\ q.d \in [1 .. L -> Items] /\ q.size = n /\ q.pri = P /\ i \in 1 .. n - 1
      /\ i \in Nat /\ \A j \in 1 .. n - 1 : q.d[j] \in Items
  BY DEF Heaps, Hole
<1>0. \A x \in Items : P[x] \in Nat
  BY PriAssumption
<1>2. PICK c : c = maxchild(q, i)
  OBVIOUS
<1>3. \/ c = 0 /\ \A j \in 2 .. n - 1 : parent(j) # i
      \/ /\ c \in 2 .. n - 1 /\ parent(c) = i /\ c > i
         /\ \A j \in 2 .. n - 1 : parent(j) = i => P[q.d[c]] <= P[q.d[j]]
  BY <1>2, Child
<1>4. CASE ~(c # 0 /\ P[m] > P[q.d[c]])
  <2>1. t = [q |-> q, i |-> i]
    BY <1>1, <1>2, <1>4 DEF DownTurn, cmppri
  <2>2. ASSUME NEW j \in 2 .. n - 1, parent(j) = i PROVE P[m] <= P[q.d[j]]
    <3>1. /\ c \in 2 .. n - 1 /\ P[q.d[c]] <= P[q.d[j]]
          /\ q.d[c] \in Items /\ q.d[j] \in Items
      BY <1>1, <1>3, <2>2
    <3>2. P[q.d[c]] \in Nat /\ P[q.d[j]] \in Nat /\ P[m] \in Nat /\ c # 0
      BY <1>0, <3>1
    <3> QED
      BY <1>4, <3>1, <3>2
  <2> QED
    BY <1>1, <2>1, <2>2 DEF OverChildren
<1>5. CASE c # 0 /\ P[m] > P[q.d[c]]
  <2>1. PICK h : h = Place(q, i, q.d[c])
    OBVIOUS
  <2>2. t.q = h /\ t.i = c
    BY <1>1, <1>2, <1>5, <2>1 DEF DownTurn, cmppri
  <2>3. /\ c \in 2 .. n - 1 /\ c \in 1 .. n - 1 /\ c \in 1 .. L /\ c > i /\ c # i
        /\ parent(c) = i /\ c > 1
        /\ \A j \in 2 .. n - 1 : parent(j) = i => P[q.d[c]] <= P[q.d[j]]
    BY <1>3, <1>5
  <2>5. /\ h \in Heaps(L, n, P) /\ h.size = n /\ h.pri = P
        /\ h.d[i] = q.d[c] /\ \A j \in 1 .. n - 1 : j # i => h.d[j] = q.d[j]
        /\ Apart(h, c, m) /\ R = Rest(h, c)
    BY <2>1, <2>3, Shifted
  <2>6. \A j \in 2 .. n - 1 : /\ j \in 1 .. n - 1 /\ parent(j) \in 1 .. n - 1
                              /\ parent(j) < j
    <3> TAKE j \in 2 .. n - 1
    <3>1. j \in Nat /\ j > 1 /\ j \in 1 .. n - 1
      OBVIOUS
    <3>2. parent(j) \in Nat /\ 1 <= parent(j) /\ parent(j) < j
      BY <3>1, Tree
    <3>3. parent(j) \in 1 .. n - 1
      BY <3>1, <3>2
    <3> QED
      BY <3>1, <3>2, <3>3
  <2>7. /\ \A j \in 2 .. n - 1 : j # i /\ parent(j) # i => P[q.d[parent(j)]] <= P[q.d[j]]
        /\ i > 1 => P[q.d[parent(i)]] <= P[q.d[c]]
    BY <1>1, <2>3 DEF Hole, OrderAway, OrderAcross
  <2>8. OrderAway(h, c)
    <3> SUFFICES ASSUME NEW j \in 2 .. n - 1, j # c, parent(j) # c
                 PROVE  P[h.d[parent(j)]] <= P[h.d[j]]
      BY <2>5 DEF OrderAway
    <3>1. j \in 1 .. n - 1 /\ parent(j) \in 1 .. n - 1 /\ parent(j) # j
      BY <2>6
    <3>2. CASE j = i
      <4>1. h.d[parent(j)] = q.d[parent(i)] /\ h.d[j] = q.d[c] /\ i > 1
        BY <2>5, <3>1, <3>2
      <4> QED
        BY <2>7, <4>1
    <3>3. CASE parent(j) = i
      <4>1. h.d[parent(j)] = q.d[c] /\ h.d[j] = q.d[j]
        BY <2>5, <3>1, <3>3
      <4> QED
        BY <2>3, <3>3, <4>1
    <3>4. CASE j # i /\ parent(j) # i
      <4>1. h.d[parent(j)] = q.d[parent(j)] /\ h.d[j] = q.d[j]
        BY <2>5, <3>1, <3>4
      <4> QED
        BY <2>7, <3>4, <4>1
    <3> QED
      BY <3>2, <3>3, <3>4
  <2>9. OrderAcross(h, c)
    <3> SUFFICES ASSUME NEW j \in 2 .. n - 1, parent(j) = c
                 PROVE  P[h.d[parent(c)]] <= P[h.d[j]]
      BY <2>5 DEF OrderAcross
    <3>1. j \in 1 .. n - 1 /\ j > c
      BY <2>6
    <3>2. j # i /\ parent(j) # i
      BY <1>1, <2>3, <3>1
    <3>3. P[q.d[c]] <= P[q.d[j]]
      BY <2>7, <3>2
    <3> QED
      BY <2>3, <2>5, <3>1, <3>2, <3>3
  <2>10. UnderParent(h, c, m)
    <3>1. q.d[c] \in Items
      BY <1>1, <2>3
    <3>2. P[q.d[c]] \in Nat /\ P[m] \in Nat
      BY <1>0, <3>1
    <3>3. P[q.d[c]] <= P[m]
      BY <1>5, <3>2
    <3> QED
      BY <2>3, <2>5, <3>3 DEF UnderParent
  <2>11. Hole(h, c, m, R)
    BY <2>3, <2>5, <2>8, <2>9 DEF Hole
  <2> QED
    BY <2>2, <2>3, <2>5, <2>10, <2>11
<1> QED
  BY <1>4, <1>5

-----------------------------------------------------------------------------
(* The loops                                                               *)

(* A loop that brings a measure down comes to rest.                        *)
LEMMA LoopEnds ==
  ASSUME NEW n \in Nat, NEW S, NEW base \in S, NEW F \in [S -> S],
         NEW mu \in [S -> Nat], mu[base] <= n,
         \A s \in S : F[s] = s \/ mu[F[s]] < mu[s],
         NEW f, Runs(f, F, S, base, n)
  PROVE  F[f[n]] = f[n]
<1> DEFINE T == {k \in Nat : k <= n => F[f[k]] = f[k] \/ mu[f[k]] + k <= n}
<1>1. f \in [0 .. n -> S] /\ f[0] = base /\ \A k \in 1 .. n : f[k] = F[f[k - 1]]
  BY DEF Runs
<1>2. \A k \in 0 .. n : f[k] \in S /\ mu[f[k]] \in Nat
  BY <1>1
<1>3. 0 \in T
  BY <1>1, <1>2
<1>4. \A k \in Nat : k \in T => k + 1 \in T
  <2> SUFFICES ASSUME NEW k \in Nat, k + 1 <= n, F[f[k]] = f[k] \/ mu[f[k]] + k <= n
               PROVE  F[f[k + 1]] = f[k + 1] \/ mu[f[k + 1]] + (k + 1) <= n
    OBVIOUS
  <2>1. k \in 0 .. n /\ k + 1 \in 1 .. n /\ k + 1 \in 0 .. n /\ (k + 1) - 1 = k
    OBVIOUS
  <2>2. f[k + 1] = F[f[k]] /\ f[k] \in S /\ mu[f[k]] \in Nat /\ mu[f[k + 1]] \in Nat
    BY <1>1, <1>2, <2>1
  <2>3. F[f[k]] = f[k] \/ mu[f[k + 1]] < mu[f[k]]
    BY <2>2
  <2> QED
    BY <2>2, <2>3
<1>5. n \in T
  <2> HIDE DEF T
  <2> QED
    BY <1>3, <1>4, NatSetInduction
<1>6. f[n] \in S /\ mu[f[n]] \in Nat /\ F[f[n]] \in S /\ mu[F[f[n]]] \in Nat
  BY <1>2
<1>7. F[f[n]] = f[n] \/ mu[f[n]] = 0
  BY <1>5, <1>6
<1> QED
  BY <1>6, <1>7

(* bubble_up fills a hole that is right with its children.                 *)
LEMMA UpLoop ==
  ASSUME NEW L \in Nat, NEW n \in Nat, n <= L + 1, NEW P \in [Items -> Pris],
         NEW q \in Heaps(L, n, P), NEW i \in 1 .. L, NEW R,
         Hole(q, i, q.d[i], R), OverChildren(q, i, q.d[i]),
         NEW h, h = bubble_up(q, i)
  PROVE  /\ h \in Heaps(L, n, P)
         /\ Heaped(h, R \cup {q.d[i]})
<1> DEFINE m == q.d[i]
           N == q.size
           S == {s \in [q : Heaps(L, n, P), i : 1 .. L] :
                  Hole(s.q, s.i, m, R) /\ OverChildren(s.q, s.i, m)}
           base == [q |-> q, i |-> i]
           Step(s) == UpTurn(s.q, s.i, m)
           D(f) == [k \in 0 .. N |-> IF k = 0 THEN base ELSE Step(f[k - 1])]
<1>1. m \in Items /\ N = n
  BY DEF Heaps
<1>2. PICK g : g = CHOOSE f : f = D(f)
  OBVIOUS
<1>3. h = Place(g[N].q, g[N].i, m)
  BY <1>2 DEF bubble_up
<1>4. base \in S
  OBVIOUS
<1>5. ASSUME NEW s \in S
      PROVE  /\ Step(s) \in S
             /\ \/ Step(s) = s /\ UnderParent(s.q, s.i, m)
                \/ Step(s).i < s.i
  <2>1. /\ s.q \in Heaps(L, n, P) /\ s.i \in 1 .. L /\ s = [q |-> s.q, i |-> s.i]
        /\ Hole(s.q, s.i, m, R) /\ OverChildren(s.q, s.i, m)
    OBVIOUS
  <2>2. PICK t : t = Step(s)
    OBVIOUS
  <2>3. \/ t = [q |-> s.q, i |-> s.i] /\ UnderParent(s.q, s.i, m)
        \/ /\ t.q \in Heaps(L, n, P) /\ t.i \in 1 .. L /\ t.i < s.i
           /\ Hole(t.q, t.i, m, R) /\ OverChildren(t.q, t.i, m)
    <3> HIDE DEF m
    <3> QED
      BY <1>1, <2>1, <2>2, UpOnce
  <2>4. t = [q |-> t.q, i |-> t.i]
    BY <2>2 DEF UpTurn
  <2>5. CASE t = [q |-> s.q, i |-> s.i] /\ UnderParent(s.q, s.i, m)
    BY <2>1, <2>2, <2>5
  <2>6. CASE /\ t.q \in Heaps(L, n, P) /\ t.i \in 1 .. L /\ t.i < s.i
             /\ Hole(t.q, t.i, m, R) /\ OverChildren(t.q, t.i, m)
    <3>1. t \in [q : Heaps(L, n, P), i : 1 .. L]
      BY <2>4, <2>6
    <3>2. t \in S
      BY <2>6, <3>1
    <3> QED
      BY <2>2, <2>6, <3>2
  <2> QED
    BY <2>3, <2>5, <2>6
<1>6. \A s \in S : s.q \in Heaps(L, n, P) /\ s.i \in 1 .. L /\ s.i \in 1 .. n - 1
                   /\ Hole(s.q, s.i, m, R) /\ OverChildren(s.q, s.i, m)
  <2> SUFFICES ASSUME NEW s \in S PROVE s.i \in 1 .. n - 1
    OBVIOUS
  <2>1. s.q \in Heaps(L, n, P) /\ Hole(s.q, s.i, m, R)
    OBVIOUS
  <2> QED
    BY <2>1 DEF Hole, Heaps
<1>7. base.i = i
  OBVIOUS
<1> HIDE DEF m, N, S, base, Step
<1> DEFINE F == [s \in S |-> Step(s)]
           mu == [s \in S |-> s.i]
<1>8. F \in [S -> S] /\ \A s \in S : F[s] = Step(s)
  BY <1>5
<1>9. /\ mu \in [S -> Nat] /\ mu[base] <= n
      /\ \A s \in S : F[s] = s \/ mu[F[s]] < mu[s]
  <2>1. \A s \in S : s.i \in 1 .. n - 1
    BY <1>6
  <2>2. \A s \in S : Step(s) \in S /\ (Step(s) = s \/ Step(s).i < s.i)
    BY <1>5
  <2> QED
    BY <1>4, <1>7, <2>1, <2>2
<1>10. PICK f : Runs(f, F, S, base, n) /\ F[f[n]] = f[n]
  <2> HIDE DEF F, mu
  <2>1. PICK f : Runs(f, F, S, base, n)
    BY <1>4, <1>8, RecursionExists
  <2>2. F \in [S -> S] /\ mu \in [S -> Nat] /\ mu[base] <= n
    BY <1>8, <1>9
  <2>3. \A s \in S : F[s] = s \/ mu[F[s]] < mu[s]
    BY <1>9
  <2>4. F[f[n]] = f[n]
    <3> HIDE DEF Runs
    <3> QED
      BY <1>4, <2>1, <2>2, <2>3, LoopEnds
  <2> QED
    BY <2>1, <2>4
<1> HIDE DEF mu
<1>11. /\ f \in [0 .. n -> S] /\ f[0] = base /\ \A k \in 1 .. n : f[k] = F[f[k - 1]]
  BY <1>10 DEF Runs
<1>12. f = D(f)
  <2>1. \A k \in 1 .. n : f[k] = Step(f[k - 1])
    <3> TAKE k \in 1 .. n
    <3>1. k - 1 \in 0 .. n
      OBVIOUS
    <3>2. f[k - 1] \in S
      BY <1>11, <3>1
    <3> QED
      BY <1>8, <1>11, <3>2
  <2>2. \A k \in 0 .. n : f[k] = IF k = 0 THEN base ELSE Step(f[k - 1])
    BY <1>11, <2>1
  <2> QED
    BY <1>1, <1>11, <2>2
<1>13. g = D(g)
  <2> HIDE DEF D
  <2> QED
    BY <1>2, <1>12
<1>14. \A k \in Nat : k \in {x \in Nat : x <= n => g[x] = f[x]}
  <2> DEFINE T == {x \in Nat : x <= n => g[x] = f[x]}
  <2>1. \A k \in 0 .. n : /\ g[k] = IF k = 0 THEN base ELSE Step(g[k - 1])
                          /\ f[k] = IF k = 0 THEN base ELSE Step(f[k - 1])
    BY <1>1, <1>12, <1>13
  <2>2. 0 \in T
    BY <2>1
  <2>3. \A x \in Nat : x \in T => x + 1 \in T
    <3> SUFFICES ASSUME NEW x \in Nat, x + 1 <= n, g[x] = f[x] PROVE g[x + 1] = f[x + 1]
      OBVIOUS
    <3>1. x + 1 \in 0 .. n /\ x + 1 # 0 /\ (x + 1) - 1 = x
      OBVIOUS
    <3> QED
      BY <2>1, <3>1
  <2> HIDE DEF T
  <2>4. \A x \in Nat : x \in T
    BY <2>2, <2>3, NatSetInduction
  <2> QED
    BY <2>4 DEF T
<1>15. PICK e \in S : e = f[n] /\ h = Place(e.q, e.i, m)
  <2>1. g[n] = f[n] /\ f[n] \in S
    BY <1>11, <1>14
  <2> QED
    BY <1>1, <1>3, <2>1
<1>16. UnderParent(e.q, e.i, m)
  <2>1. Step(e) = e
    BY <1>8, <1>10, <1>15
  <2>2. e.i \in Nat /\ ~(e.i < e.i)
    BY <1>6
  <2> QED
    BY <1>5, <2>1, <2>2
<1>17. e.q \in Heaps(L, n, P) /\ e.i \in 1 .. L /\ Hole(e.q, e.i, m, R) /\ OverChildren(e.q, e.i, m)
  BY <1>6
<1>18. h \in Heaps(L, n, P)
  BY <1>1, <1>15, <1>17, Placing
<1>19. Heaped(h, R \cup {m})
  BY <1>1, <1>15, <1>16, <1>17, Filled
<1> QED
  BY <1>18, <1>19 DEF m

(* percolate_down fills a hole that is right with its parent.              *)
LEMMA DownLoop ==
  ASSUME NEW L \in Nat, NEW n \in Nat, n <= L + 1, NEW P \in [Items -> Pris],
         NEW q \in Heaps(L, n, P), NEW i \in 1 .. L, NEW R,
         Hole(q, i, q.d[i], R), UnderParent(q, i, q.d[i]),
         NEW h, h = percolate_down(q, i)
  PROVE  /\ h \in Heaps(L, n, P)
         /\ Heaped(h, R \cup {q.d[i]})
<1> DEFINE m == q.d[i]
           N == q.size
           S == {s \in [q : Heaps(L, n, P), i : 1 .. L] :
                  Hole(s.q, s.i, m, R) /\ UnderParent(s.q, s.i, m)}
           base == [q |-> q, i |-> i]
           Step(s) == DownTurn(s.q, s.i, m)
           D(f) == [k \in 0 .. N |-> IF k = 0 THEN base ELSE Step(f[k - 1])]
<1>1. m \in Items /\ N = n
  BY DEF Heaps
<1>2. PICK g : g = CHOOSE f : f = D(f)
  OBVIOUS
<1>3. h = Place(g[N].q, g[N].i, m)
  BY <1>2 DEF percolate_down
<1>4. base \in S
  OBVIOUS
<1>5. ASSUME NEW s \in S
      PROVE  /\ Step(s) \in S
             /\ \/ Step(s) = s /\ OverChildren(s.q, s.i, m)
                \/ Step(s).i > s.i
  <2>1. /\ s.q \in Heaps(L, n, P) /\ s.i \in 1 .. L /\ s = [q |-> s.q, i |-> s.i]
        /\ Hole(s.q, s.i, m, R) /\ UnderParent(s.q, s.i, m)
    OBVIOUS
  <2>2. PICK t : t = Step(s)
    OBVIOUS
  <2>3. \/ t = [q |-> s.q, i |-> s.i] /\ OverChildren(s.q, s.i, m)
        \/ /\ t.q \in Heaps(L, n, P) /\ t.i \in 1 .. L /\ t.i > s.i
           /\ Hole(t.q, t.i, m, R) /\ UnderParent(t.q, t.i, m)
    <3> HIDE DEF m
    <3> QED
      BY <1>1, <2>1, <2>2, DownOnce
  <2>4. t = [q |-> t.q, i |-> t.i]
    BY <2>2 DEF DownTurn
  <2>5. CASE t = [q |-> s.q, i |-> s.i] /\ OverChildren(s.q, s.i, m)
    BY <2>1, <2>2, <2>5
  <2>6. CASE /\ t.q \in Heaps(L, n, P) /\ t.i \in 1 .. L /\ t.i > s.i
             /\ Hole(t.q, t.i, m, R) /\ UnderParent(t.q, t.i, m)
    <3>1. t \in [q : Heaps(L, n, P), i : 1 .. L]
      BY <2>4, <2>6
    <3>2. t \in S
      BY <2>6, <3>1
    <3> QED
      BY <2>2, <2>6, <3>2
  <2> QED
    BY <2>3, <2>5, <2>6
<1>6. \A s \in S : s.q \in Heaps(L, n, P) /\ s.i \in 1 .. L /\ s.i \in 1 .. n - 1
                   /\ Hole(s.q, s.i, m, R) /\ UnderParent(s.q, s.i, m)
  <2> SUFFICES ASSUME NEW s \in S PROVE s.i \in 1 .. n - 1
    OBVIOUS
  <2>1. s.q \in Heaps(L, n, P) /\ Hole(s.q, s.i, m, R)
    OBVIOUS
  <2> QED
    BY <2>1 DEF Hole, Heaps
<1>7. base.i = i
  OBVIOUS
<1> HIDE DEF m, N, S, base, Step
<1> DEFINE F == [s \in S |-> Step(s)]
           mu == [s \in S |-> n - s.i]
<1>8. F \in [S -> S] /\ \A s \in S : F[s] = Step(s)
  BY <1>5
<1>9. /\ mu \in [S -> Nat] /\ mu[base] <= n
      /\ \A s \in S : F[s] = s \/ mu[F[s]] < mu[s]
  <2>1. \A s \in S : s.i \in 1 .. n - 1
    BY <1>6
  <2>2. \A s \in S : Step(s) \in S /\ (Step(s) = s \/ Step(s).i > s.i)
    BY <1>5
  <2> QED
    BY <1>4, <1>7, <2>1, <2>2
<1>10. PICK f : Runs(f, F, S, base, n) /\ F[f[n]] = f[n]
  <2> HIDE DEF F, mu
  <2>1. PICK f : Runs(f, F, S, base, n)
    BY <1>4, <1>8, RecursionExists
  <2>2. F \in [S -> S] /\ mu \in [S -> Nat] /\ mu[base] <= n
    BY <1>8, <1>9
  <2>3. \A s \in S : F[s] = s \/ mu[F[s]] < mu[s]
    BY <1>9
  <2>4. F[f[n]] = f[n]
    <3> HIDE DEF Runs
    <3> QED
      BY <1>4, <2>1, <2>2, <2>3, LoopEnds
  <2> QED
    BY <2>1, <2>4
<1> HIDE DEF mu
<1>11. /\ f \in [0 .. n -> S] /\ f[0] = base /\ \A k \in 1 .. n : f[k] = F[f[k - 1]]
  BY <1>10 DEF Runs
<1>12. f = D(f)
  <2>1. \A k \in 1 .. n : f[k] = Step(f[k - 1])
    <3> TAKE k \in 1 .. n
    <3>1. k - 1 \in 0 .. n
      OBVIOUS
    <3>2. f[k - 1] \in S
      BY <1>11, <3>1
    <3> QED
      BY <1>8, <1>11, <3>2
  <2>2. \A k \in 0 .. n : f[k] = IF k = 0 THEN base ELSE Step(f[k - 1])
    BY <1>11, <2>1
  <2> QED
    BY <1>1, <1>11, <2>2
<1>13. g = D(g)
  <2> HIDE DEF D
  <2> QED
    BY <1>2, <1>12
<1>14. \A k \in Nat : k \in {x \in Nat : x <= n => g[x] = f[x]}
  <2> DEFINE T == {x \in Nat : x <= n => g[x] = f[x]}
  <2>1. \A k \in 0 .. n : /\ g[k] = IF k = 0 THEN base ELSE Step(g[k - 1])
                          /\ f[k] = IF k = 0 THEN base ELSE Step(f[k - 1])
    BY <1>1, <1>12, <1>13
  <2>2. 0 \in T
    BY <2>1
  <2>3. \A x \in Nat : x \in T => x + 1 \in T
    <3> SUFFICES ASSUME NEW x \in Nat, x + 1 <= n, g[x] = f[x] PROVE g[x + 1] = f[x + 1]
      OBVIOUS
    <3>1. x + 1 \in 0 .. n /\ x + 1 # 0 /\ (x + 1) - 1 = x
      OBVIOUS
    <3> QED
      BY <2>1, <3>1
  <2> HIDE DEF T
  <2>4. \A x \in Nat : x \in T
    BY <2>2, <2>3, NatSetInduction
  <2> QED
    BY <2>4 DEF T
<1>15. PICK e \in S : e = f[n] /\ h = Place(e.q, e.i, m)
  <2>1. g[n] = f[n] /\ f[n] \in S
    BY <1>11, <1>14
  <2> QED
    BY <1>1, <1>3, <2>1
<1>16. OverChildren(e.q, e.i, m)
  <2>1. Step(e) = e
    BY <1>8, <1>10, <1>15
  <2>2. e.i \in Nat /\ ~(e.i > e.i)
    BY <1>6
  <2> QED
    BY <1>5, <2>1, <2>2
<1>17. e.q \in Heaps(L, n, P) /\ e.i \in 1 .. L /\ Hole(e.q, e.i, m, R) /\ UnderParent(e.q, e.i, m)
  BY <1>6
<1>18. h \in Heaps(L, n, P)
  BY <1>1, <1>15, <1>17, Placing
<1>19. Heaped(h, R \cup {m})
  BY <1>1, <1>15, <1>16, <1>17, Filled
<1> QED
  BY <1>18, <1>19 DEF m

(* percolate_down from a slot outside the heap only writes that slot.      *)
LEMMA DownOutside ==
  ASSUME NEW L \in Nat, NEW n \in Nat, NEW P \in [Items -> Pris],
         NEW q \in Heaps(L, n, P), NEW i \in 1 .. L, i >= n,
         NEW h, h = percolate_down(q, i)
  PROVE  h = Place(q, i, q.d[i])
<1> DEFINE N == q.size
           base == [q |-> q, i |-> i]
           D(f) == [k \in 0 .. N |-> IF k = 0 THEN base
                                     ELSE DownTurn(f[k - 1].q, f[k - 1].i, q.d[i])]
<1>1. N = n
  BY DEF Heaps
<1>2. PICK g : g = CHOOSE f : f = D(f)
  OBVIOUS
<1>3. h = Place(g[N].q, g[N].i, q.d[i])
  BY <1>2 DEF percolate_down
<1>4. base.q = q /\ base.i = i
  OBVIOUS
<1>5. DownTurn(q, i, q.d[i]) = base
  <2>1. maxchild(q, i) = 0
    BY <1>1 DEF maxchild, left
  <2> QED
    BY <2>1 DEF DownTurn
<1> HIDE DEF N, base
<1>6. [k \in 0 .. N |-> base] = D([k \in 0 .. N |-> base])
  <2> DEFINE f == [k \in 0 .. N |-> base]
  <2>1. \A k \in 0 .. N : f[k] = IF k = 0 THEN base
                                 ELSE DownTurn(f[k - 1].q, f[k - 1].i, q.d[i])
    <3> TAKE k \in 0 .. N
    <3>1. CASE k = 0
      BY <3>1
    <3>2. CASE k # 0
      <4>1. k - 1 \in 0 .. N
        BY <1>1, <3>2
      <4>2. f[k - 1] = base /\ f[k] = base
        BY <4>1
      <4> HIDE DEF f
      <4> QED
        BY <1>4, <1>5, <3>2, <4>2
    <3> QED
      BY <3>1, <3>2
  <2> QED
    BY <2>1
<1>7. g = D(g)
  <2> HIDE DEF D
  <2> QED
    BY <1>2, <1>6
<1>8. g[n] = base
  <2> DEFINE T == {x \in Nat : x <= n => g[x] = base}
  <2>1. \A k \in 0 .. n : g[k] = IF k = 0 THEN base
                                 ELSE DownTurn(g[k - 1].q, g[k - 1].i, q.d[i])
    BY <1>1, <1>7
  <2>2. 0 \in T
    BY <2>1
  <2>3. \A x \in Nat : x \in T => x + 1 \in T
    <3> SUFFICES ASSUME NEW x \in Nat, x + 1 <= n, g[x] = base PROVE g[x + 1] = base
      OBVIOUS
    <3>1. x + 1 \in 0 .. n /\ x + 1 # 0 /\ (x + 1) - 1 = x
      OBVIOUS
    <3> QED
      BY <1>4, <1>5, <2>1, <3>1
  <2> HIDE DEF T
  <2>4. \A x \in Nat : x \in T
    BY <2>2, <2>3, NatSetInduction
  <2> QED
    BY <2>4 DEF T
<1> QED
  BY <1>1, <1>3, <1>4, <1>8

-----------------------------------------------------------------------------
(* The invariant                                                           *)

HeapInv ==
  /\ d \in Seq(Items) /\ pri \in [Items -> Pris] /\ pos \in [Items -> Nat]
  /\ PositionsExact
  /\ \A j \in 2 .. size - 1 : pri[d[parent(j)]] <= pri[d[j]]

(* The invariant over the slots of the sequence.                           *)
LEMMA HeapFacts ==
  ASSUME HeapInv
  PROVE  /\ Len(d) \in Nat /\ size = Len(d) + 1 /\ d \in [1 .. Len(d) -> Items]
         /\ pri \in [Items -> Pris] /\ pos \in [Items -> Nat]
         /\ \A j \in 1 .. Len(d) : d[j] \in Items /\ pos[d[j]] = j
         /\ \A j \in 2 .. Len(d) : pri[d[parent(j)]] <= pri[d[j]]
         /\ Queued = {d[j] : j \in 1 .. Len(d)}
<1>1. Len(d) \in Nat /\ d \in [1 .. Len(d) -> Items]
  BY LenProperties DEF HeapInv
<1>2. size = Len(d) + 1 /\ size - 1 = Len(d)
  BY <1>1 DEF size
<1> QED
  BY <1>1, <1>2 DEF HeapInv, PositionsExact, Queued

(* The heap becomes q, cut at its size.                                    *)
LEMMA Became ==
  ASSUME NEW L \in Nat, NEW n \in Nat, n >= 1, n <= L + 1, NEW P \in [Items -> Pris],
         NEW q \in Heaps(L, n, P), NEW R, Heaped(q, R), Become(q)
  PROVE  HeapInv' /\ Queued' = R /\ pri' = P
<1>1. /\ q.d \in [1 .. L -> Items] /\ q.pos \in [Items -> Nat] /\ q.size = n /\ q.pri = P
  BY DEF Heaps
<1>2. /\ d' = SubSeq(q.d, 1, n - 1) /\ pri' = P
      /\ pos' = [x \in Items |-> IF \E k \in 1 .. n - 1 : q.d[k] = x THEN q.pos[x] ELSE 0]
  BY <1>1 DEF Become
<1>3. \A j \in 1 .. n - 1 : q.d[j] \in Items
  BY <1>1
<1>4. d' \in Seq(Items) /\ Len(d') = n - 1 /\ \A j \in 1 .. n - 1 : d'[j] = q.d[j]
  <2>1. n - 1 \in Int /\ 1 \in Int
    OBVIOUS
  <2>2. /\ d' \in Seq(Items) /\ Len(d') = IF 1 <= n - 1 THEN n - 1 - 1 + 1 ELSE 0
        /\ \A j \in 1 .. n - 1 - 1 + 1 : d'[j] = q.d[1 + j - 1]
    BY <1>2, <1>3, <2>1, SubSeqProperties
  <2>3. \A j \in 1 .. n - 1 : j \in 1 .. n - 1 - 1 + 1 /\ 1 + j - 1 = j
    OBVIOUS
  <2> QED
    BY <2>2, <2>3
<1>5. size' = n
  BY <1>4 DEF size
<1>6. pos' \in [Items -> Nat]
  BY <1>1, <1>2
<1>7. \A j \in 1 .. n - 1 : pos'[d'[j]] = j
  <2> TAKE j \in 1 .. n - 1
  <2>1. q.pos[q.d[j]] = j
    BY <1>1 DEF Heaped, Exact
  <2> QED
    BY <1>2, <1>3, <1>4, <2>1
<1>8. PositionsExact'
  BY <1>3, <1>4, <1>5, <1>7 DEF PositionsExact
<1>9. \A j \in 2 .. n - 1 : pri'[d'[parent(j)]] <= pri'[d'[j]]
  <2> TAKE j \in 2 .. n - 1
  <2>1. P[q.d[parent(j)]] <= P[q.d[j]]
    BY <1>1 DEF Heaped, Ordered
  <2>2. j \in Nat /\ j > 1 /\ j \in 1 .. n - 1
    OBVIOUS
  <2>3. parent(j) \in Nat /\ 1 <= parent(j) /\ parent(j) < j
    BY <2>2, Tree
  <2>4. parent(j) \in 1 .. n - 1
    BY <2>2, <2>3
  <2> QED
    BY <1>2, <1>4, <2>1, <2>2, <2>4
<1>10. HeapInv'
  <2>1. \A j \in 2 .. size' - 1 : pri'[d'[parent(j)]] <= pri'[d'[j]]
    BY <1>5, <1>9
  <2> QED
    BY <1>2, <1>4, <1>6, <1>8, <2>1 DEF HeapInv
<1>11. Queued' = R
  <2>1. Queued' = {d'[j] : j \in 1 .. n - 1}
    BY <1>5 DEF Queued
  <2>2. R = {q.d[j] : j \in 1 .. n - 1}
    BY <1>1 DEF Heaped
  <2> QED
    BY <1>4, <2>1, <2>2
<1> QED
  BY <1>2, <1>10, <1>11

-----------------------------------------------------------------------------
(* The operations                                                          *)

\* Heap q differs from the heap in the code only in slot i.
Kept(q, i) ==
  /\ q.pos = pos
  /\ (i \in 1 .. Len(d) \/ i = q.size - 1)
  /\ \A j \in 1 .. q.size - 1 :
       j # i => j \in 1 .. Len(d) /\ q.d[j] = d[j] /\ q.pri[d[j]] = pri[d[j]]

(* The heap with an entry taken out of slot i or added in the last, and an *)
(* entry written there that is in no other slot, has a hole at i.          *)
LEMMA Opened ==
  ASSUME HeapInv, NEW L \in Nat, NEW n \in Nat, n <= L + 1, NEW P \in [Items -> Pris],
         NEW q \in Heaps(L, n, P), NEW i \in 1 .. n - 1, Kept(q, i),
         NEW R, R = Rest(q, i), q.d[i] \notin R
  PROVE  Hole(q, i, q.d[i], R)
<1>1. /\ q.d \in [1 .. L -> Items] /\ q.pos \in [Items -> Nat] /\ q.size = n /\ q.pri = P
  BY DEF Heaps
<1>2. /\ Len(d) \in Nat /\ \A j \in 1 .. Len(d) : d[j] \in Items /\ pos[d[j]] = j
      /\ \A j \in 2 .. Len(d) : pri[d[parent(j)]] <= pri[d[j]]
      /\ pri \in [Items -> Pris]
  BY HeapFacts
<1>3. /\ q.pos = pos /\ (i \in 1 .. Len(d) \/ i = n - 1)
      /\ \A j \in 1 .. n - 1 : j # i => /\ j \in 1 .. Len(d) /\ q.d[j] = d[j]
                                       /\ P[d[j]] = pri[d[j]]
  BY <1>1 DEF Kept
<1>4. Apart(q, i, q.d[i])
  <2> SUFFICES ASSUME NEW j \in 1 .. n - 1, j # i
               PROVE  q.pos[q.d[j]] = j /\ q.d[j] # q.d[i]
    BY <1>1 DEF Apart
  <2>1. q.d[j] = d[j] /\ pos[d[j]] = j
    BY <1>2, <1>3
  <2>2. q.d[j] \in R
    BY <1>1 DEF Rest
  <2> QED
    BY <1>3, <2>1, <2>2
<1>6. \A j \in 2 .. n - 1 : /\ j \in 1 .. n - 1 /\ parent(j) \in 1 .. n - 1 /\ parent(j) < j
  <2> TAKE j \in 2 .. n - 1
  <2>1. j \in Nat /\ j > 1 /\ j \in 1 .. n - 1
    OBVIOUS
  <2>2. parent(j) \in Nat /\ 1 <= parent(j) /\ parent(j) < j
    BY <2>1, Tree
  <2>3. parent(j) \in 1 .. n - 1
    BY <2>1, <2>2
  <2> QED
    BY <2>1, <2>2, <2>3
<1>7. OrderAway(q, i)
  <2> SUFFICES ASSUME NEW j \in 2 .. n - 1, j # i, parent(j) # i
               PROVE  P[q.d[parent(j)]] <= P[q.d[j]]
    BY <1>1 DEF OrderAway
  <2>1. /\ j \in 1 .. n - 1 /\ parent(j) \in 1 .. n - 1 /\ j \in 2 .. Len(d)
    BY <1>2, <1>3, <1>6
  <2>2. pri[d[parent(j)]] <= pri[d[j]]
    BY <1>2, <2>1
  <2> QED
    BY <1>3, <2>1, <2>2
<1>8. OrderAcross(q, i)
  <2> SUFFICES ASSUME i > 1, NEW j \in 2 .. n - 1, parent(j) = i
               PROVE  P[q.d[parent(i)]] <= P[q.d[j]]
    BY <1>1 DEF OrderAcross
  <2>1. j \in 1 .. n - 1 /\ i < j
    BY <1>6
  <2>2. i \in 2 .. n - 1
    OBVIOUS
  <2>3. parent(i) \in 1 .. n - 1 /\ parent(i) < i
    BY <1>6, <2>2
  <2>4. j \in 2 .. Len(d) /\ i \in 2 .. Len(d) /\ parent(i) \in 1 .. Len(d)
    BY <1>2, <1>3, <2>1, <2>2, <2>3
  <2>5. pri[d[parent(i)]] <= pri[d[i]] /\ pri[d[i]] <= pri[d[j]]
    BY <1>2, <2>4
  <2>6. /\ d[parent(i)] \in Items /\ d[i] \in Items /\ d[j] \in Items
    BY <1>2, <2>4
  <2>7. /\ pri[d[parent(i)]] \in Nat /\ pri[d[i]] \in Nat /\ pri[d[j]] \in Nat
    BY <1>2, <2>6, PriAssumption
  <2>8. /\ q.d[parent(i)] = d[parent(i)] /\ P[d[parent(i)]] = pri[d[parent(i)]]
        /\ q.d[j] = d[j] /\ P[d[j]] = pri[d[j]]
    BY <1>3, <2>1, <2>3
  <2> QED
    BY <2>5, <2>7, <2>8
<1> QED
  BY <1>1, <1>4, <1>7, <1>8 DEF Hole

(* pqueue_insert.                                                          *)
LEMMA InsertStep ==
  ASSUME HeapInv, NEW x \in Items, NEW p \in Pris, pqueue_insert(x, p)
  PROVE  HeapInv' /\ Abstract!Insert(x, p)
<1>1. PICK q : q = [Heap EXCEPT !.d = Append(d, x), !.size = size + 1, !.pri[x] = p]
  OBVIOUS
<1>2. PICK L, n, P, R : L = Len(d) + 1 /\ n = L + 1 /\ P = [pri EXCEPT ![x] = p] /\ R = Queued
  OBVIOUS
<1>3. /\ Len(d) \in Nat /\ size = Len(d) + 1
      /\ pri \in [Items -> Pris] /\ pos \in [Items -> Nat] /\ d \in Seq(Items)
      /\ \A j \in 1 .. Len(d) : d[j] \in Items /\ pos[d[j]] = j
      /\ R = {d[j] : j \in 1 .. Len(d)}
  BY <1>2, HeapFacts DEF HeapInv
<1>4. /\ q.d = Append(d, x) /\ q.size = n /\ q.pri = P /\ q.pos = pos
      /\ q = [d |-> q.d, size |-> q.size, pri |-> q.pri, pos |-> q.pos]
  BY <1>1, <1>2, <1>3 DEF Heap
<1>5. /\ Len(Append(d, x)) = L /\ Append(d, x) \in Seq(Items)
      /\ \A j \in 1 .. Len(d) : Append(d, x)[j] = d[j]
      /\ Append(d, x)[Len(d) + 1] = x
  BY <1>2, <1>3, AppendProperties
<1>6. /\ L \in Nat /\ n \in Nat /\ L \in 1 .. L /\ L \in 1 .. n - 1 /\ n - 1 = L /\ L > 0
      /\ (1 .. n - 1) \ {L} = 1 .. Len(d)
  BY <1>2, <1>3
<1>7. q.d \in [1 .. L -> Items]
  BY <1>4, <1>5, LenProperties
<1>8. P \in [Items -> Pris] /\ q \in Heaps(L, n, P)
  <2>1. P \in [Items -> Pris]
    BY <1>2, <1>3
  <2> QED
    BY <1>3, <1>4, <1>7, <2>1 DEF Heaps
<1>9. x \notin R /\ q.d[L] = x
  BY <1>2, <1>4, <1>5 DEF pqueue_insert
<1>10. \A j \in 1 .. n - 1 : j # L => /\ j \in 1 .. Len(d) /\ q.d[j] = d[j]
                                      /\ P[d[j]] = pri[d[j]]
  <2> TAKE j \in 1 .. n - 1
  <2> HAVE j # L
  <2>1. j \in 1 .. Len(d)
    BY <1>6
  <2>2. d[j] # x /\ d[j] \in Items
    BY <1>3, <1>9, <2>1
  <2> QED
    BY <1>2, <1>3, <1>4, <1>5, <2>1, <2>2
<1>11. R = Rest(q, L)
  <2>1. \A j \in 1 .. Len(d) : q.d[j] = d[j]
    BY <1>4, <1>5
  <2> QED
    BY <1>3, <1>4, <1>6, <2>1 DEF Rest
<1>12. Hole(q, L, q.d[L], R)
  <2>1. n <= L + 1 /\ L = n - 1
    BY <1>2, <1>3
  <2>2. L \in Nat /\ n \in Nat /\ L \in 1 .. n - 1 /\ q.d[L] \notin R
    BY <1>6, <1>9
  <2>3. Kept(q, L)
    BY <1>4, <1>10, <2>1 DEF Kept
  <2> QED
    BY <1>8, <1>11, <2>1, <2>2, <2>3, Opened
<1>13. OverChildren(q, L, q.d[L])
  <2>1. \A j \in 2 .. n - 1 : parent(j) # L
    <3> TAKE j \in 2 .. n - 1
    <3>1. j \in Nat /\ j > 1
      OBVIOUS
    <3>2. parent(j) < j /\ parent(j) \in Nat
      BY <3>1, Tree
    <3> QED
      BY <1>6, <3>2
  <2> QED
    BY <1>4, <2>1 DEF OverChildren
<1>14. PICK h : h = bubble_up(q, L)
  OBVIOUS
<1>15. Become(h)
  BY <1>1, <1>2, <1>3, <1>14 DEF pqueue_insert
<1>16. h \in Heaps(L, n, P) /\ Heaped(h, R \cup {x})
  <2>1. L \in Nat /\ n \in Nat /\ L \in 1 .. L /\ n <= L + 1
    BY <1>2, <1>3, <1>6
  <2>2. h \in Heaps(L, n, P) /\ Heaped(h, R \cup {q.d[L]})
    BY <1>8, <1>12, <1>13, <1>14, <2>1, UpLoop
  <2> QED
    BY <1>9, <2>2
<1>17. HeapInv' /\ Queued' = R \cup {x} /\ pri' = P
  <2>1. L \in Nat /\ n \in Nat /\ n >= 1 /\ n <= L + 1
    BY <1>2, <1>3, <1>6
  <2> QED
    BY <1>8, <1>15, <1>16, <2>1, Became
<1> QED
  BY <1>2, <1>17 DEF pqueue_insert, Abstract!Insert

(* The slot of a queued entry.                                             *)
LEMMA SlotOf ==
  ASSUME HeapInv, NEW x \in Queued
  PROVE  pos[x] \in 1 .. Len(d) /\ d[pos[x]] = x /\ x \in Items
BY HeapFacts

(* pqueue_change_priority.                                                 *)
LEMMA ChangeStep ==
  ASSUME HeapInv, NEW x \in Items, NEW p \in Pris, pqueue_change_priority(x, p)
  PROVE  HeapInv' /\ Abstract!ChangePriority(x, p)
<1>1. PICK q : q = [Heap EXCEPT !.pri[x] = p]
  OBVIOUS
<1>2. PICK L, n, P, i : L = Len(d) /\ n = L + 1 /\ P = [pri EXCEPT ![x] = p] /\ i = pos[x]
  OBVIOUS
<1>3. /\ L \in Nat /\ size = n
      /\ pri \in [Items -> Pris] /\ pos \in [Items -> Nat] /\ d \in [1 .. L -> Items]
      /\ \A j \in 1 .. L : d[j] \in Items /\ pos[d[j]] = j
      /\ \A j \in 2 .. L : pri[d[parent(j)]] <= pri[d[j]]
      /\ Queued = {d[j] : j \in 1 .. L}
  BY <1>2, HeapFacts
<1>4. i \in 1 .. L /\ d[i] = x /\ x \in Queued
  BY <1>2, SlotOf DEF pqueue_change_priority
<1>5. /\ q.d = d /\ q.size = n /\ q.pri = P /\ q.pos = pos
      /\ q = [d |-> q.d, size |-> q.size, pri |-> q.pri, pos |-> q.pos]
  BY <1>1, <1>2, <1>3 DEF Heap
<1>6. n \in Nat /\ n >= 1 /\ n <= L + 1 /\ n - 1 = L /\ i \in 1 .. n - 1 /\ i \in Nat
  BY <1>2, <1>3, <1>4
<1>7. P \in [Items -> Pris] /\ q \in Heaps(L, n, P)
  <2>1. P \in [Items -> Pris]
    BY <1>2, <1>3
  <2> QED
    BY <1>3, <1>5, <2>1 DEF Heaps
<1>8. \A j \in 1 .. L : j # i => d[j] # x /\ P[d[j]] = pri[d[j]]
  BY <1>2, <1>3, <1>4
<1>9. PICK R : R = Rest(q, i)
  OBVIOUS
<1>10. R = {d[j] : j \in (1 .. L) \ {i}}
  BY <1>5, <1>6, <1>9 DEF Rest
<1>11. x \notin R /\ R \cup {x} = Queued
  BY <1>3, <1>4, <1>8, <1>10
<1>12. Hole(q, i, x, R)
  <2>1. Kept(q, i)
    BY <1>2, <1>4, <1>5, <1>6, <1>8 DEF Kept
  <2>2. q.d[i] = x /\ q.d[i] \notin R
    BY <1>4, <1>5, <1>11
  <2>3. Hole(q, i, q.d[i], R)
    BY <1>3, <1>6, <1>7, <1>9, <2>1, <2>2, Opened
  <2> QED
    BY <2>2, <2>3
<1>13. P[x] = p /\ pri[x] \in Nat /\ p \in Nat /\ \A y \in Items : pri[y] \in Nat
  BY <1>2, <1>3, PriAssumption
<1>14. PICK h : h = IF cmppri(pri[x], p) THEN bubble_up(q, i) ELSE percolate_down(q, i)
  OBVIOUS
<1>15. Become(h)
  BY <1>1, <1>2, <1>14 DEF pqueue_change_priority
<1>16. q.d[i] = x
  BY <1>4, <1>5
<1>17. h \in Heaps(L, n, P) /\ Heaped(h, R \cup {x})
  <2>1. CASE pri[x] > p
    <3>1. h = bubble_up(q, i)
      BY <1>14, <2>1 DEF cmppri
    <3>2. OverChildren(q, i, x)
      <4> SUFFICES ASSUME NEW j \in 2 .. L, parent(j) = i PROVE P[x] <= P[d[j]]
        BY <1>5, <1>6 DEF OverChildren
      <4>1. j \in 1 .. L /\ j > 1 /\ j \in Nat
        OBVIOUS
      <4>2. j # i
        BY <4>1, Tree
      <4>3. pri[x] <= pri[d[j]] /\ P[d[j]] = pri[d[j]] /\ pri[d[j]] \in Nat
        BY <1>3, <1>4, <1>8, <1>13, <4>1, <4>2
      <4> QED
        BY <1>13, <2>1, <4>3
    <3> QED
      BY <1>3, <1>6, <1>7, <1>12, <1>16, <3>1, <3>2, UpLoop
  <2>2. CASE ~(pri[x] > p)
    <3>1. h = percolate_down(q, i)
      BY <1>14, <2>2 DEF cmppri
    <3>2. UnderParent(q, i, x)
      <4> SUFFICES ASSUME i > 1 PROVE P[d[parent(i)]] <= P[x]
        BY <1>5 DEF UnderParent
      <4>1. parent(i) \in Nat /\ 1 <= parent(i) /\ parent(i) < i
        BY <1>6, Tree
      <4>2. parent(i) \in 1 .. L /\ parent(i) # i /\ i \in 2 .. L
        BY <1>3, <1>4, <1>6, <4>1
      <4>3. /\ pri[d[parent(i)]] <= pri[x] /\ P[d[parent(i)]] = pri[d[parent(i)]]
            /\ pri[d[parent(i)]] \in Nat
        BY <1>3, <1>4, <1>8, <1>13, <4>2
      <4> QED
        BY <1>13, <2>2, <4>3
    <3> QED
      BY <1>3, <1>6, <1>7, <1>12, <1>16, <3>1, <3>2, DownLoop
  <2> QED
    BY <2>1, <2>2
<1>18. HeapInv' /\ Queued' = R \cup {x} /\ pri' = P
  BY <1>3, <1>6, <1>7, <1>15, <1>17, Became
<1> QED
  BY <1>2, <1>4, <1>11, <1>18 DEF pqueue_change_priority, Abstract!ChangePriority

\* The last entry is written into slot i, whose entry leaves.
Cut(i) == [Heap EXCEPT !.d[i] = d[size - 1], !.size = size - 1]

(* It leaves a heap with a hole, unless slot i was the last one.           *)
LEMMA Freed ==
  ASSUME HeapInv, NEW L, L = Len(d), NEW i \in 1 .. L, NEW P, P = pri,
         NEW q, q = Cut(i)
  PROVE  /\ L \in Nat /\ L >= 1 /\ P \in [Items -> Pris] /\ q \in Heaps(L, L, P)
         /\ q.d[i] = d[L] /\ q.size = L /\ q.pri = P
         /\ \A j \in 1 .. L : j # i => q.d[j] = d[j]
         /\ i < L => /\ Hole(q, i, q.d[i], Rest(q, i))
                     /\ Rest(q, i) \cup {q.d[i]} = Queued \ {d[i]}
<1>1. /\ L \in Nat /\ size = L + 1 /\ size - 1 = L
      /\ pri \in [Items -> Pris] /\ pos \in [Items -> Nat] /\ d \in [1 .. L -> Items]
      /\ \A j \in 1 .. L : d[j] \in Items /\ pos[d[j]] = j
      /\ Queued = {d[j] : j \in 1 .. L}
  BY HeapFacts
<1>2. i \in Nat /\ L >= 1 /\ L \in 1 .. L /\ i <= L
  BY <1>1
<1>3. /\ q.d = [d EXCEPT ![i] = d[L]] /\ q.size = L /\ q.pri = P /\ q.pos = pos
      /\ q = [d |-> q.d, size |-> q.size, pri |-> q.pri, pos |-> q.pos]
  BY <1>1 DEF Cut, Heap
<1>4. q.d \in [1 .. L -> Items] /\ q.d[i] = d[L] /\ \A j \in 1 .. L : j # i => q.d[j] = d[j]
  <2>1. PICK D, x : D = d /\ x = d[L]
    OBVIOUS
  <2>2. D \in [1 .. L -> Items] /\ x \in Items /\ q.d = [D EXCEPT ![i] = x]
    BY <1>1, <1>2, <1>3, <2>1
  <2>3. q.d \in [1 .. L -> Items] /\ q.d[i] = x /\ \A j \in 1 .. L : j # i => q.d[j] = D[j]
    BY <2>2
  <2> QED
    BY <2>1, <2>3
<1>5. P \in [Items -> Pris] /\ q \in Heaps(L, L, P)
  BY <1>1, <1>3, <1>4 DEF Heaps
<1>6. ASSUME i < L
      PROVE  /\ Hole(q, i, q.d[i], Rest(q, i))
             /\ Rest(q, i) \cup {q.d[i]} = Queued \ {d[i]}
  <2>1. i \in 1 .. L - 1 /\ L <= L + 1 /\ \A j \in 1 .. L - 1 : j \in 1 .. L /\ j # L
    BY <1>1, <1>2, <1>6
  <2>2. PICK R : R = Rest(q, i)
    OBVIOUS
  <2>3. R = {d[j] : j \in (1 .. L - 1) \ {i}}
    BY <1>3, <1>4, <2>1, <2>2 DEF Rest
  <2>4. q.d[i] \notin R
    <3>1. \A j \in (1 .. L - 1) \ {i} : d[j] # d[L]
      BY <1>1, <1>2, <2>1
    <3> QED
      BY <1>4, <2>3, <3>1
  <2>5. Kept(q, i)
    BY <1>3, <1>4, <2>1 DEF Kept
  <2>6. Hole(q, i, q.d[i], R)
    <3>1. L \in Nat
      BY <1>1
    <3> QED
      BY <1>5, <2>1, <2>2, <2>4, <2>5, <3>1, Opened
  <2>7. R \cup {d[L]} = Queued \ {d[i]}
    <3>1. \A j \in 1 .. L : j = L \/ j \in 1 .. L - 1
      BY <1>1
    <3>2. \A j \in 1 .. L : j # i => d[j] # d[i]
      BY <1>1
    <3>3. Queued \ {d[i]} = {d[j] : j \in (1 .. L) \ {i}}
      BY <1>1, <3>2
    <3> QED
      BY <1>2, <1>6, <2>1, <2>3, <3>1, <3>3
  <2> QED
    BY <1>4, <2>2, <2>6, <2>7
<1> QED
  BY <1>1, <1>2, <1>3, <1>4, <1>5, <1>6

(* The heap has an entry of least priority at its root.                    *)
LEMMA RootLeast ==
  ASSUME HeapInv
  PROVE  \A j \in 1 .. Len(d) : pri[d[1]] <= pri[d[j]]
<1>1. /\ Len(d) \in Nat /\ pri \in [Items -> Pris]
      /\ \A j \in 1 .. Len(d) : d[j] \in Items
      /\ \A j \in 2 .. Len(d) : pri[d[parent(j)]] <= pri[d[j]]
  BY HeapFacts
<1>2. \A j \in 1 .. Len(d) : pri[d[j]] \in Nat
  BY <1>1, PriAssumption
<1> DEFINE T == {j \in 1 .. Len(d) : ~(pri[d[1]] <= pri[d[j]])}
<1> SUFFICES ASSUME T # {} PROVE FALSE
  OBVIOUS
<1>3. T \subseteq Nat /\ \A j \in T : j \in 1 .. Len(d) /\ ~(pri[d[1]] <= pri[d[j]])
  OBVIOUS
<1>4. PICK j \in T : \A k \in T : j <= k
  <2> HIDE DEF T
  <2> QED
    BY <1>3, LeastNat
<1>5. j \in Nat /\ j \in 1 .. Len(d) /\ ~(pri[d[1]] <= pri[d[j]])
  BY <1>3
<1>6. j > 1
  <2> SUFFICES ASSUME j = 1 PROVE FALSE
    BY <1>5
  <2>1. pri[d[j]] \in Nat /\ ~(pri[d[j]] <= pri[d[j]])
    BY <1>2, <1>5
  <2> QED
    BY <2>1
<1>7. PICK p : p = parent(j)
  OBVIOUS
<1>8. p \in Nat /\ 1 <= p /\ p < j
  BY <1>5, <1>6, <1>7, Tree
<1>9. p \in 1 .. Len(d) /\ 1 \in 1 .. Len(d) /\ p \notin T /\ j \in 2 .. Len(d)
  <2>1. p \in 1 .. Len(d) /\ 1 \in 1 .. Len(d) /\ j \in 2 .. Len(d)
    BY <1>1, <1>5, <1>6, <1>8
  <2>2. p \notin T
    BY <1>4, <1>5, <1>8
  <2> QED
    BY <2>1, <2>2
<1>10. pri[d[1]] <= pri[d[p]] /\ pri[d[p]] <= pri[d[j]]
  BY <1>1, <1>7, <1>9
<1>11. pri[d[1]] \in Nat /\ pri[d[p]] \in Nat /\ pri[d[j]] \in Nat
  BY <1>2, <1>5, <1>9
<1> QED
  BY <1>5, <1>10, <1>11

(* percolate_down from the slot of a leaving entry that was not above the  *)
(* last one.                                                               *)
LEMMA FreedDown ==
  ASSUME HeapInv, NEW L, L = Len(d), NEW i \in 1 .. L, NEW P, P = pri,
         i > 1 => pri[d[parent(i)]] <= pri[d[L]],
         NEW h, h = percolate_down(Cut(i), i), Become(h)
  PROVE  HeapInv' /\ Queued' = Queued \ {d[i]} /\ pri' = pri
<1>1. PICK q : q = Cut(i)
  OBVIOUS
<1>2. /\ L \in Nat /\ L >= 1 /\ P \in [Items -> Pris] /\ q \in Heaps(L, L, P)
      /\ q.d[i] = d[L] /\ q.size = L /\ q.pri = P
      /\ \A j \in 1 .. L : j # i => q.d[j] = d[j]
      /\ i < L => /\ Hole(q, i, q.d[i], Rest(q, i))
                  /\ Rest(q, i) \cup {q.d[i]} = Queued \ {d[i]}
  BY <1>1, Freed
<1>3. /\ \A j \in 1 .. L : d[j] \in Items /\ pos[d[j]] = j
      /\ Queued = {d[j] : j \in 1 .. L}
  BY HeapFacts
<1>4. i \in Nat /\ L \in 1 .. L /\ L <= L + 1 /\ h = percolate_down(q, i)
  BY <1>1, <1>2
<1>5. PICK Q : Q = Queued \ {d[i]}
  OBVIOUS
<1>6. h \in Heaps(L, L, P) /\ Heaped(h, Q)
  <2>1. CASE i < L
    <3>1. UnderParent(q, i, q.d[i])
      <4> SUFFICES ASSUME i > 1 PROVE pri[q.d[parent(i)]] <= pri[q.d[i]]
        BY <1>2 DEF UnderParent
      <4>1. parent(i) \in Nat /\ 1 <= parent(i) /\ parent(i) < i
        BY <1>4, Tree
      <4>2. parent(i) \in 1 .. L /\ parent(i) # i
        BY <1>2, <4>1
      <4> QED
        BY <1>2, <4>2
    <3>2. PICK R : R = Rest(q, i)
      OBVIOUS
    <3>3. h \in Heaps(L, L, P) /\ Heaped(h, R \cup {q.d[i]})
      <4>1. L \in Nat /\ P \in [Items -> Pris] /\ q \in Heaps(L, L, P) /\ Hole(q, i, q.d[i], R)
        BY <1>2, <2>1, <3>2
      <4> QED
        BY <1>4, <3>1, <4>1, DownLoop
    <3> QED
      BY <1>2, <1>5, <2>1, <3>2, <3>3
  <2>2. CASE ~(i < L)
    <3>1. i = L
      BY <1>2, <1>4, <2>2
    <3>2. h = Place(q, i, q.d[i]) /\ q.d[i] \in Items
      <4>1. i >= L /\ L \in Nat /\ P \in [Items -> Pris] /\ q \in Heaps(L, L, P)
        BY <1>2, <3>1
      <4> QED
        BY <1>2, <1>3, <1>4, <4>1, DownOutside
    <3>3. /\ h \in Heaps(L, L, P) /\ h.size = L /\ h.pri = P
          /\ \A j \in 1 .. L : j # i => h.d[j] = q.d[j]
          /\ \A y \in Items : y # q.d[i] => h.pos[y] = q.pos[y]
      <4>1. L \in Nat /\ P \in [Items -> Pris] /\ q \in Heaps(L, L, P)
        BY <1>2
      <4> QED
        BY <3>2, <4>1, Placing
    <3>4. \A j \in 1 .. L - 1 : /\ j \in 1 .. L /\ j # i /\ h.d[j] = d[j] /\ d[j] \in Items
                                /\ d[j] # d[i] /\ pos[d[j]] = j
      BY <1>2, <1>3, <3>1, <3>3
    <3>5. q.pos = pos
      <4>1. size - 1 = L
        BY HeapFacts
      <4> QED
        BY <1>1 DEF Cut, Heap
    <3>6. Exact(h)
      <4> SUFFICES ASSUME NEW j \in 1 .. L - 1 PROVE h.pos[h.d[j]] = j
        BY <3>3 DEF Exact
      <4>1. h.d[j] = d[j] /\ d[j] \in Items /\ d[j] # q.d[i] /\ pos[d[j]] = j
        BY <1>2, <3>1, <3>4
      <4>2. h.pos[d[j]] = q.pos[d[j]]
        BY <3>3, <4>1
      <4> QED
        BY <3>5, <4>1, <4>2
    <3>7. Q = {h.d[j] : j \in 1 .. L - 1}
      <4>1. \A j \in 1 .. L : j = i \/ j \in 1 .. L - 1
        BY <1>2, <3>1
      <4>2. Q = {d[j] : j \in 1 .. L - 1}
        BY <1>3, <1>5, <3>4, <4>1
      <4> QED
        BY <3>4, <4>2
    <3>8. Ordered(h)
      <4> SUFFICES ASSUME NEW j \in 2 .. L - 1 PROVE P[h.d[parent(j)]] <= P[h.d[j]]
        BY <3>3 DEF Ordered
      <4>1. j \in Nat /\ j > 1 /\ j \in 1 .. L - 1 /\ j \in 2 .. L
        BY <1>2
      <4>2. parent(j) \in Nat /\ 1 <= parent(j) /\ parent(j) < j
        BY <4>1, Tree
      <4>3. parent(j) \in 1 .. L - 1
        BY <1>2, <4>1, <4>2
      <4>4. pri[d[parent(j)]] <= pri[d[j]]
        BY <4>1, HeapFacts
      <4> QED
        BY <3>4, <4>1, <4>3, <4>4
    <3> QED
      BY <3>3, <3>6, <3>7, <3>8 DEF Heaped
  <2> QED
    BY <2>1, <2>2
<1>7. HeapInv' /\ Queued' = Q /\ pri' = P
  <2>1. L \in Nat /\ L >= 1 /\ L <= L + 1 /\ P \in [Items -> Pris]
    BY <1>2, <1>4
  <2> QED
    BY <1>6, <2>1, Became
<1> QED
  BY <1>5, <1>7

(* bubble_up from the slot of a leaving entry that was above the last one. *)
LEMMA FreedUp ==
  ASSUME HeapInv, NEW L, L = Len(d), NEW i \in 1 .. L, NEW P, P = pri,
         pri[d[i]] > pri[d[L]],
         NEW h, h = bubble_up(Cut(i), i), Become(h)
  PROVE  HeapInv' /\ Queued' = Queued \ {d[i]} /\ pri' = pri
<1>1. PICK q : q = Cut(i)
  OBVIOUS
<1>2. /\ L \in Nat /\ L >= 1 /\ P \in [Items -> Pris] /\ q \in Heaps(L, L, P)
      /\ q.d[i] = d[L] /\ q.size = L /\ q.pri = P
      /\ \A j \in 1 .. L : j # i => q.d[j] = d[j]
      /\ i < L => /\ Hole(q, i, q.d[i], Rest(q, i))
                  /\ Rest(q, i) \cup {q.d[i]} = Queued \ {d[i]}
  BY <1>1, Freed
<1>3. \A j \in 1 .. L : d[j] \in Items /\ pri[d[j]] \in Nat
  BY HeapFacts, PriAssumption
<1>4. i \in Nat /\ L \in 1 .. L /\ L <= L + 1 /\ h = bubble_up(q, i)
  BY <1>1, <1>2
<1>5. i < L
  <2>1. i # L
    BY <1>3, <1>4
  <2> QED
    BY <1>2, <1>4, <2>1
<1>6. OverChildren(q, i, q.d[i])
  <2> SUFFICES ASSUME NEW j \in 2 .. L - 1, parent(j) = i PROVE pri[q.d[i]] <= pri[q.d[j]]
    BY <1>2 DEF OverChildren
  <2>1. j \in Nat /\ j > 1 /\ j \in 1 .. L /\ j \in 2 .. L
    BY <1>2
  <2>2. j # i
    <3>1. parent(j) \in Nat /\ parent(j) < j
      BY <2>1, Tree
    <3> QED
      BY <2>1, <3>1
  <2>3. pri[d[i]] <= pri[d[j]]
    BY <2>1, HeapFacts
  <2> QED
    BY <1>2, <1>3, <1>4, <2>1, <2>2, <2>3
<1>7. PICK R, Q : R = Rest(q, i) /\ Q = Queued \ {d[i]}
  OBVIOUS
<1>8. h \in Heaps(L, L, P) /\ Heaped(h, R \cup {q.d[i]})
  <2>1. L \in Nat /\ P \in [Items -> Pris] /\ q \in Heaps(L, L, P) /\ Hole(q, i, q.d[i], R)
    BY <1>2, <1>5, <1>7
  <2> QED
    BY <1>4, <1>6, <2>1, UpLoop
<1>9. h \in Heaps(L, L, P) /\ Heaped(h, Q)
  BY <1>2, <1>5, <1>7, <1>8
<1>10. HeapInv' /\ Queued' = Q /\ pri' = P
  <2>1. L \in Nat /\ L >= 1 /\ L <= L + 1 /\ P \in [Items -> Pris]
    BY <1>2, <1>4
  <2> QED
    BY <1>9, <2>1, Became
<1> QED
  BY <1>7, <1>10

(* pqueue_remove.                                                          *)
LEMMA RemoveStep ==
  ASSUME HeapInv, NEW x \in Items, pqueue_remove(x)
  PROVE  HeapInv' /\ Abstract!Remove(x)
<1>1. PICK L, i, P : L = Len(d) /\ i = pos[x] /\ P = pri
  OBVIOUS
<1>2. /\ L \in Nat /\ size - 1 = L /\ \A j \in 1 .. L : d[j] \in Items
      /\ \A j \in 2 .. L : pri[d[parent(j)]] <= pri[d[j]]
      /\ pri \in [Items -> Pris] /\ x \in Queued
  BY <1>1, HeapFacts DEF pqueue_remove
<1>3. i \in 1 .. L /\ d[i] = x
  BY <1>1, <1>2, SlotOf
<1>4. /\ cmppri(pri[x], pri[d[L]]) => Become(bubble_up(Cut(i), i))
      /\ ~cmppri(pri[x], pri[d[L]]) => Become(percolate_down(Cut(i), i))
  <2>1. Cut(i) = [Heap EXCEPT !.d[pos[x]] = d[size - 1], !.size = size - 1]
    BY <1>1 DEF Cut
  <2> QED
    BY <1>1, <1>2, <2>1 DEF pqueue_remove
<1>5. HeapInv' /\ Queued' = Queued \ {d[i]} /\ pri' = pri
  <2>1. CASE pri[x] > pri[d[L]]
    <3>1. PICK h : h = bubble_up(Cut(i), i)
      OBVIOUS
    <3>2. Become(h) /\ pri[d[i]] > pri[d[L]]
      BY <1>3, <1>4, <2>1, <3>1 DEF cmppri
    <3> QED
      BY <1>1, <1>3, <3>1, <3>2, FreedUp
  <2>2. CASE ~(pri[x] > pri[d[L]])
    <3>1. PICK h : h = percolate_down(Cut(i), i)
      OBVIOUS
    <3>2. Become(h)
      BY <1>4, <2>2, <3>1 DEF cmppri
    <3>3. i > 1 => pri[d[parent(i)]] <= pri[d[L]]
      <4> SUFFICES ASSUME i > 1 PROVE pri[d[parent(i)]] <= pri[d[L]]
        OBVIOUS
      <4>1. i \in 2 .. L /\ i \in Nat /\ L \in 1 .. L
        BY <1>2, <1>3
      <4>2. parent(i) \in Nat /\ 1 <= parent(i) /\ parent(i) < i
        BY <4>1, Tree
      <4>3. parent(i) \in 1 .. L
        BY <4>1, <4>2
      <4>4. d[parent(i)] \in Items /\ d[L] \in Items
        BY <1>2, <4>1, <4>3
      <4>5. pri[d[parent(i)]] \in Nat /\ pri[d[L]] \in Nat /\ pri[x] \in Nat
        BY <1>2, <4>4, PriAssumption
      <4>6. pri[d[parent(i)]] <= pri[x]
        BY <1>2, <1>3, <4>1
      <4> QED
        BY <2>2, <4>5, <4>6
    <3> QED
      BY <1>1, <1>3, <3>1, <3>2, <3>3, FreedDown
  <2> QED
    BY <2>1, <2>2
<1> QED
  BY <1>2, <1>3, <1>5 DEF pqueue_remove, Abstract!Remove

(* pqueue_pop.                                                             *)
LEMMA PopStep ==
  ASSUME HeapInv, pqueue_pop
  PROVE  HeapInv' /\ \E x \in Items : Abstract!Pop(x)
<1>1. PICK L, i, P : L = Len(d) /\ i = 1 /\ P = pri
  OBVIOUS
<1>2. /\ L \in Nat /\ size = L + 1 /\ \A j \in 1 .. L : d[j] \in Items
      /\ Queued = {d[j] : j \in 1 .. L}
  BY <1>1, HeapFacts
<1>3. L >= 1 /\ i \in 1 .. L
  BY <1>1, <1>2 DEF pqueue_pop
<1>4. PICK h : h = percolate_down(Cut(i), i)
  OBVIOUS
<1>5. Become(h)
  BY <1>1, <1>4 DEF pqueue_pop, Cut
<1>6. HeapInv' /\ Queued' = Queued \ {d[i]} /\ pri' = pri
  <2>1. i > 1 => pri[d[parent(i)]] <= pri[d[L]]
    BY <1>1
  <2> QED
    BY <1>1, <1>3, <1>4, <1>5, <2>1, FreedDown
<1>7. d[1] \in Items /\ d[1] \in Queued /\ \A y \in Queued : pri[d[1]] <= pri[y]
  BY <1>1, <1>2, <1>3, RootLeast
<1>8. Abstract!Pop(d[1])
  BY <1>1, <1>6, <1>7 DEF pqueue_pop, Abstract!Pop
<1> QED
  BY <1>6, <1>7, <1>8

-----------------------------------------------------------------------------
(* The invariant and the refinement                                        *)

(* The empty heap is the empty queue.                                      *)
LEMMA HeapInit == Init => HeapInv /\ Abstract!Init
<1> SUFFICES ASSUME Init PROVE HeapInv /\ Abstract!Init
  OBVIOUS
<1>1. d \in Seq(Items) /\ Len(d) = 0 /\ size = 1
  BY DEF Init, size
<1> QED
  BY <1>1 DEF Init, HeapInv, PositionsExact, Queued, Abstract!Init

(* Every operation keeps the invariant and is one of the queue.            *)
LEMMA HeapNext == HeapInv /\ [Next]_vars => HeapInv' /\ [Abstract!Next]_(Abstract!vars)
<1> SUFFICES ASSUME HeapInv, [Next]_vars PROVE HeapInv' /\ [Abstract!Next]_(Abstract!vars)
  OBVIOUS
<1>1. ASSUME NEW x \in Items, NEW p \in Pris, pqueue_insert(x, p)
      PROVE  HeapInv' /\ Abstract!Next
  BY <1>1, InsertStep DEF Abstract!Next
<1>2. ASSUME NEW x \in Items, NEW p \in Pris, pqueue_change_priority(x, p)
      PROVE  HeapInv' /\ Abstract!Next
  BY <1>2, ChangeStep DEF Abstract!Next
<1>3. ASSUME NEW x \in Items, pqueue_remove(x)
      PROVE  HeapInv' /\ Abstract!Next
  BY <1>3, RemoveStep DEF Abstract!Next
<1>4. ASSUME pqueue_pop
      PROVE  HeapInv' /\ Abstract!Next
  BY <1>4, PopStep DEF Abstract!Next
<1>5. ASSUME UNCHANGED vars
      PROVE  HeapInv' /\ UNCHANGED Abstract!vars
  BY <1>5 DEF vars, HeapInv, PositionsExact, size, Queued, parent, Abstract!vars
<1> QED
  BY <1>1, <1>2, <1>3, <1>4, <1>5 DEF Next

(* After every call the array is a heap in the order of cmppri, with the   *)
(* position of every entry recorded.                                       *)
THEOREM HeapInvariant == Spec => []HeapInv
BY HeapInit, HeapNext, PTL DEF Spec

(* The recorded position of every queued entry is its slot (setpos in      *)
(* bubble_up and percolate_down), whatever the calls.                      *)
THEOREM PositionsAlwaysExact == Spec => []PositionsExact
<1>1. HeapInv => PositionsExact
  BY DEF HeapInv
<1> QED
  BY <1>1, HeapInvariant, PTL

(* Every operation of the heap is the operation of the abstract queue: in  *)
(* particular pqueue_pop yields an entry of least priority.                *)
THEOREM HeapImplementsMinQueue == Spec => ImplementsMinQueue
BY HeapInit, HeapNext, HeapInvariant, PTL DEF Spec, ImplementsMinQueue, Abstract!Spec

=============================================================================
