------------------------------ MODULE ZnsProofs -----------------------------
(***************************************************************************)
(* For every namespace, zone size and capacity, limits, and length of a    *)
(* command: the lists of zones and the counts of open and active zones     *)
(* are exact, the limits are kept, what the device reports of a zone is    *)
(* what it acts on, and a report lists the zones it is asked for.          *)
(*                                                                         *)
(* The code moves a zone by separate statements on its list, its state and *)
(* the counts. Lemmas say what each statement does to a controller state   *)
(* s whose counts are off by so much, and a command adds these up to zero. *)
(***************************************************************************)
EXTENDS Zns, FiniteSetTheorems, SequenceTheorems, TLAPS

Zone == [zs : States, za : BOOLEAN, wp : Nat, w_ptr : Nat]

\* Controller states with the zones Z.
Ctrl(Z) == [num_zones : Nat, zone : [Z -> Zone], list : [ListStates -> Seq(Z)],
            max_open : Nat, max_active : Nat, nr_open : Int, nr_active : Int]

InState(Z, s, S) == {z \in Z : s.zone[z].zs \in S}

\* The four lists of s are exact.
Exact(Z, s) ==
  \A st \in ListStates : /\ ToSet(s.list[st]) = {z \in Z : s.zone[z].zs = st}
                         /\ IsInjective(s.list[st])

\* The counts of s are ahead of the zones by o and a.
Books(Z, s, o, a) ==
  /\ s.nr_open = IF s.max_open # 0
                 THEN Cardinality(InState(Z, s, OpenStates)) + o ELSE 0
  /\ s.nr_active = IF s.max_active # 0
                   THEN Cardinality(InState(Z, s, ActiveStates)) + a ELSE 0

Within(s) ==
  /\ s.max_open   # 0 => s.nr_open <= s.max_open
  /\ s.max_active # 0 => s.nr_active <= s.max_active

Good(Z, s) == s \in Ctrl(Z) /\ Exact(Z, s) /\ Books(Z, s, 0, 0) /\ Within(s)

SameLimits(s, t) ==
  t.num_zones = s.num_zones /\ t.max_open = s.max_open /\ t.max_active = s.max_active

SameCounts(s, t) == t.nr_open = s.nr_open /\ t.nr_active = s.nr_active

\* Zones other than z are as they were.
Others(Z, s, t, z) == \A y \in Z \ {z} : t.zone[y] = s.zone[y]

SamePointers(s, t, z) == t.zone[z].wp = s.zone[z].wp /\ t.zone[z].w_ptr = s.zone[z].w_ptr

-----------------------------------------------------------------------------
(* Lists *)

(* Taking an element out of a list in which it occurs once.                *)
LEMMA RemoveOnce ==
  ASSUME NEW S, NEW s \in Seq(S), IsInjective(s), NEW e
  PROVE  /\ RemoveFirst(s, e) \in Seq(S) /\ IsInjective(RemoveFirst(s, e))
         /\ ToSet(RemoveFirst(s, e)) = ToSet(s) \ {e}
<1>1. Len(s) \in Nat /\ DOMAIN s = 1 .. Len(s) /\ \A i \in 1 .. Len(s) : s[i] \in S
  OBVIOUS
<1>2. CASE \A i \in 1 .. Len(s) : s[i] # e
  BY <1>1, <1>2 DEF RemoveFirst, ToSet
<1>3. CASE \E i \in 1 .. Len(s) : s[i] = e
  <2>1. PICK k \in 1 .. Len(s) : s[k] = e
    BY <1>3
  <2>2. \A i \in 1 .. Len(s) : s[i] = e => i = k
    BY <1>1, <2>1 DEF IsInjective
  <2> DEFINE I == {i \in 1 .. Len(s) : s[i] = e}
             f == SubSeq(s, 1, k - 1)
             g == SubSeq(s, k + 1, Len(s))
             t == f \o g
  <2>3. I = {k}
    BY <2>1, <2>2
  <2>4. Min(I) = k
    BY <1>1, <2>3 DEF Min
  <2>5. RemoveFirst(s, e) = t
    BY <1>3, <2>3, <2>4 DEF RemoveFirst, SelectInSeq, RemoveAt
  <2>6. /\ f \in Seq(S) /\ Len(f) = k - 1 /\ \A i \in 1 .. k - 1 : f[i] = s[i]
        /\ g \in Seq(S) /\ Len(g) = Len(s) - k
        /\ \A i \in 1 .. Len(s) - k : g[i] = s[k + i]
    <3>1. /\ f \in Seq(S) /\ Len(f) = (IF 1 <= k - 1 THEN k - 1 - 1 + 1 ELSE 0)
          /\ \A i \in 1 .. k - 1 - 1 + 1 : f[i] = s[1 + i - 1]
      BY <1>1, SubSeqProperties
    <3>2. /\ g \in Seq(S)
          /\ Len(g) = IF k + 1 <= Len(s) THEN Len(s) - (k + 1) + 1 ELSE 0
          /\ \A i \in 1 .. Len(s) - (k + 1) + 1 : g[i] = s[k + 1 + i - 1]
      BY <1>1, SubSeqProperties
    <3> HIDE DEF f, g
    <3>3. Len(f) = k - 1 /\ \A i \in 1 .. k - 1 : f[i] = s[i]
      <4>1. k \in Nat /\ k >= 1 /\ k - 1 - 1 + 1 = k - 1
        BY <1>1
      <4>2. \A i \in 1 .. k - 1 : 1 + i - 1 = i
        BY <4>1
      <4> QED
        BY <3>1, <4>1, <4>2
    <3>4. Len(g) = Len(s) - k /\ \A i \in 1 .. Len(s) - k : g[i] = s[k + i]
      <4>1. k \in Nat /\ k <= Len(s) /\ Len(s) - (k + 1) + 1 = Len(s) - k
        BY <1>1
      <4>2. \A i \in 1 .. Len(s) - k : k + 1 + i - 1 = k + i
        BY <1>1, <4>1
      <4>3. Len(g) = Len(s) - k
        <5>1. \A a \in Nat : \A b \in 1 .. a :
                (IF b + 1 <= a THEN a - (b + 1) + 1 ELSE 0) = a - b
          OBVIOUS
        <5> QED
          BY <1>1, <3>2, <5>1
      <4> QED
        BY <3>2, <4>1, <4>2, <4>3
    <3> QED
      BY <3>1, <3>2, <3>3, <3>4
  <2> HIDE DEF f, g
  <2>7. /\ t \in Seq(S) /\ Len(t) = Len(s) - 1 /\ DOMAIN t = 1 .. Len(s) - 1
        /\ \A i \in 1 .. Len(s) - 1 : t[i] = IF i < k THEN s[i] ELSE s[i + 1]
    <3>1. t \in Seq(S) /\ Len(t) = Len(s) - 1 /\ DOMAIN t = 1 .. Len(s) - 1
      <4>1. t \in Seq(S)
        BY <2>6
      <4>2. Len(t) = Len(f) + Len(g)
        BY <2>6, ConcatProperties
      <4>3. Len(t) = Len(s) - 1
        BY <1>1, <2>6, <4>2
      <4> QED
        BY <4>1, <4>3
    <3>2. ASSUME NEW i \in 1 .. Len(s) - 1 PROVE t[i] = IF i < k THEN s[i] ELSE s[i + 1]
      <4>1. CASE i < k
        BY <1>1, <2>6, <4>1
      <4>2. CASE ~(i < k)
        <5>1. i - (k - 1) \in 1 .. Len(s) - k /\ k + (i - (k - 1)) = i + 1
          BY <1>1, <4>2
        <5>2. t[i] = g[i - (k - 1)]
          BY <1>1, <2>6, <4>2
        <5> QED
          BY <2>6, <4>2, <5>1, <5>2
      <4> QED
        BY <4>1, <4>2
    <3> QED
      BY <3>1, <3>2
  <2> HIDE DEF t
  <2>8. IsInjective(t)
    <3> SUFFICES ASSUME NEW i \in 1 .. Len(s) - 1, NEW j \in 1 .. Len(s) - 1, t[i] = t[j]
                 PROVE  i = j
      BY <2>7 DEF IsInjective
    <3> DEFINE at(x) == IF x < k THEN x ELSE x + 1
    <3>1. at(i) \in 1 .. Len(s) /\ at(j) \in 1 .. Len(s) /\ s[at(i)] = s[at(j)]
      BY <1>1, <2>7
    <3>2. at(i) = at(j)
      BY <1>1, <3>1 DEF IsInjective
    <3> QED
      BY <1>1, <3>2
  <2>9. ToSet(t) = ToSet(s) \ {e}
    <3>1. ASSUME NEW x \in ToSet(t) PROVE x \in ToSet(s) /\ x # e
      <4>1. PICK i \in 1 .. Len(s) - 1 : x = t[i]
        BY <2>7, <3>1 DEF ToSet
      <4>2. CASE i < k
        BY <1>1, <2>2, <2>7, <4>1, <4>2 DEF ToSet
      <4>3. CASE ~(i < k)
        <5>1. i + 1 \in 1 .. Len(s) /\ i + 1 # k /\ x = s[i + 1]
          BY <1>1, <2>7, <4>1, <4>3
        <5> QED
          BY <1>1, <2>2, <5>1 DEF ToSet
      <4> QED
        BY <4>2, <4>3
    <3>2. ASSUME NEW x \in ToSet(s), x # e PROVE x \in ToSet(t)
      <4>1. PICK i \in 1 .. Len(s) : x = s[i]
        BY <1>1, <3>2 DEF ToSet
      <4>2. CASE i < k
        <5>1. i \in 1 .. Len(s) - 1 /\ t[i] = x
          BY <1>1, <2>7, <4>1, <4>2
        <5> QED
          BY <2>7, <5>1 DEF ToSet
      <4>3. CASE i > k
        <5>1. i - 1 \in 1 .. Len(s) - 1 /\ t[i - 1] = x
          BY <1>1, <2>7, <4>1, <4>3
        <5> QED
          BY <2>7, <5>1 DEF ToSet
      <4> QED
        BY <1>1, <2>1, <3>2, <4>1, <4>2, <4>3
    <3> QED
      BY <3>1, <3>2
  <2> QED
    BY <2>5, <2>7, <2>8, <2>9
<1> QED
  BY <1>2, <1>3

(* Appending an element that is not in the list.                           *)
LEMMA AppendNew ==
  ASSUME NEW S, NEW s \in Seq(S), IsInjective(s), NEW e \in S, e \notin ToSet(s)
  PROVE  /\ Append(s, e) \in Seq(S) /\ IsInjective(Append(s, e))
         /\ ToSet(Append(s, e)) = ToSet(s) \cup {e}
<1> DEFINE t == Append(s, e)
<1>1. /\ Len(s) \in Nat /\ DOMAIN s = 1 .. Len(s) /\ t \in Seq(S)
      /\ DOMAIN t = 1 .. Len(s) + 1 /\ t[Len(s) + 1] = e
      /\ \A i \in 1 .. Len(s) : t[i] = s[i]
  OBVIOUS
<1> HIDE DEF t
<1>2. \A i \in 1 .. Len(s) : s[i] # e
  BY <1>1 DEF ToSet
<1>3. IsInjective(t)
  BY <1>1, <1>2 DEF IsInjective
<1>4. ToSet(t) = ToSet(s) \cup {e}
  <2>1. \A i \in 1 .. Len(s) + 1 : i \in 1 .. Len(s) \/ i = Len(s) + 1
    BY <1>1
  <2>2. Len(s) + 1 \in DOMAIN t /\ \A i \in 1 .. Len(s) : i \in DOMAIN t
    BY <1>1
  <2>3. ASSUME NEW x \in ToSet(t) PROVE x \in ToSet(s) \cup {e}
    BY <1>1, <2>1 DEF ToSet
  <2>4. ASSUME NEW x \in ToSet(s) \cup {e} PROVE x \in ToSet(t)
    BY <1>1, <2>2 DEF ToSet
  <2> QED
    BY <2>3, <2>4
<1> QED
  BY <1>1, <1>3, <1>4 DEF t
-----------------------------------------------------------------------------
(* One zone moves to another state *)

(* Replacing one field, or one component of one, of a controller state.    *)
LEMMA SetList ==
  ASSUME NEW Z, NEW s \in Ctrl(Z), NEW st \in ListStates, NEW l \in Seq(Z)
  PROVE  LET u == [s EXCEPT !.list[st] = l] IN
         /\ u \in Ctrl(Z) /\ u.zone = s.zone
         /\ SameLimits(s, u) /\ SameCounts(s, u)
         /\ u.list[st] = l /\ \A x \in ListStates \ {st} : u.list[x] = s.list[x]
BY DEF Ctrl, SameLimits, SameCounts

(* The same of the fields of one zone.                                     *)
LEMMA SetZone ==
  ASSUME NEW Z, NEW s \in Ctrl(Z), NEW z \in Z, NEW d \in Zone
  PROVE  LET u == [s EXCEPT !.zone[z] = d] IN
         /\ u \in Ctrl(Z) /\ u.list = s.list
         /\ SameLimits(s, u) /\ SameCounts(s, u)
         /\ u.zone[z] = d /\ Others(Z, s, u, z)
BY DEF Ctrl, SameLimits, SameCounts, Others

(* QTAILQ_REMOVE takes the zone off the list of its state, if it has one.  *)
LEMMA Unlinked ==
  ASSUME NEW Z, NEW s \in Ctrl(Z), Exact(Z, s), NEW z \in Z
  PROVE  LET u == Unlink(s, z) IN
         /\ u \in Ctrl(Z) /\ u.zone = s.zone
         /\ SameLimits(s, u) /\ SameCounts(s, u)
         /\ \A st \in ListStates : /\ ToSet(u.list[st]) = ToSet(s.list[st]) \ {z}
                                   /\ IsInjective(u.list[st])
<1> DEFINE st == s.zone[z].zs
           l  == RemoveFirst(s.list[st], z)
           u  == [s EXCEPT !.list[st] = l]
<1>1. /\ s.list \in [ListStates -> Seq(Z)] /\ s.zone \in [Z -> Zone]
  BY DEF Ctrl
<1>2. \A x \in ListStates : x # st => z \notin ToSet(s.list[x])
  BY DEF Exact
<1>3. CASE st \in ListStates
  <2>1. Unlink(s, z) = u
    BY <1>3 DEF Unlink
  <2>2. s.list[st] \in Seq(Z) /\ IsInjective(s.list[st])
    BY <1>1, <1>3 DEF Exact
  <2>3. l \in Seq(Z) /\ IsInjective(l) /\ ToSet(l) = ToSet(s.list[st]) \ {z}
    BY <2>2, RemoveOnce
  <2> HIDE DEF l
  <2>4. /\ u \in Ctrl(Z) /\ u.zone = s.zone /\ SameLimits(s, u) /\ SameCounts(s, u)
        /\ u.list[st] = l /\ \A x \in ListStates \ {st} : u.list[x] = s.list[x]
    <3> HIDE DEF st
    <3> QED
      BY <1>3, <2>3 DEF Ctrl, SameLimits, SameCounts
  <2> HIDE DEF u, st
  <2>5. ASSUME NEW x \in ListStates
        PROVE  ToSet(u.list[x]) = ToSet(s.list[x]) \ {z} /\ IsInjective(u.list[x])
    <3>1. CASE x = st
      BY <2>3, <2>4, <3>1
    <3>2. CASE x # st
      BY <1>2, <2>4, <3>2 DEF Exact
    <3> QED
      BY <3>1, <3>2
  <2> QED
    BY <2>1, <2>4, <2>5
<1>4. CASE st \notin ListStates
  BY <1>2, <1>4 DEF Unlink, Exact, SameLimits, SameCounts
<1> QED
  BY <1>3, <1>4

\* From s to t zone z got the state st and kept its pointers.
Assigned(Z, s, t, z, st) ==
  /\ t \in Ctrl(Z) /\ Exact(Z, t) /\ SameLimits(s, t) /\ SameCounts(s, t)
  /\ t.zone[z].zs = st /\ SamePointers(s, t, z) /\ Others(Z, s, t, z)

(* zns_assign_zone_state keeps lists exact.                                *)
LEMMA AssignState ==
  ASSUME NEW Z, NEW s \in Ctrl(Z), Exact(Z, s), NEW z \in Z, NEW st \in States
  PROVE  Assigned(Z, s, zns_assign_zone_state(s, z, st), z, st)
<1> DEFINE u == Unlink(s, z)
<1>1. /\ u \in Ctrl(Z) /\ u.zone = s.zone
      /\ SameLimits(s, u) /\ SameCounts(s, u)
      /\ \A x \in ListStates : /\ ToSet(u.list[x]) = ToSet(s.list[x]) \ {z}
                               /\ IsInjective(u.list[x])
  BY Unlinked
<1>2. /\ s.zone \in [Z -> Zone] /\ u.list \in [ListStates -> Seq(Z)]
      /\ s.zone[z] \in Zone
  BY <1>1 DEF Ctrl
<1> HIDE DEF u
<1>3. CASE st \in ListStates
  <2> DEFINE d == [s.zone[z] EXCEPT !.zs = st]
             v == [u EXCEPT !.zone[z] = d]
             l == Append(u.list[st], z)
             t == [v EXCEPT !.list[st] = l]
  <2>1. zns_assign_zone_state(s, z, st) = t
    <3>1. zns_assign_zone_state(s, z, st)
            = [u EXCEPT !.zone[z].zs = st, !.list[st] = Append(@, z)]
      BY <1>3 DEF zns_assign_zone_state, u
    <3>2. [u EXCEPT !.zone[z].zs = st, !.list[st] = Append(@, z)] = t
      BY <1>1, <1>2, <1>3 DEF Ctrl
    <3> QED
      BY <3>1, <3>2
  <2>2. d \in Zone /\ d.zs = st /\ d.wp = s.zone[z].wp /\ d.w_ptr = s.zone[z].w_ptr
    BY <1>2 DEF Zone
  <2> HIDE DEF d
  <2>3. /\ v \in Ctrl(Z) /\ v.list = u.list /\ SameLimits(u, v) /\ SameCounts(u, v)
        /\ v.zone[z] = d /\ Others(Z, u, v, z)
    BY <1>1, <2>2, SetZone
  <2>4. /\ l \in Seq(Z) /\ IsInjective(l) /\ ToSet(l) = ToSet(u.list[st]) \cup {z}
    <3>1. z \notin ToSet(u.list[st]) /\ u.list[st] \in Seq(Z) /\ IsInjective(u.list[st])
      BY <1>1, <1>2, <1>3
    <3> QED
      BY <3>1, AppendNew
  <2> HIDE DEF v, l
  <2>5. /\ t \in Ctrl(Z) /\ t.zone = v.zone /\ SameLimits(v, t) /\ SameCounts(v, t)
        /\ t.list[st] = l /\ \A x \in ListStates \ {st} : t.list[x] = v.list[x]
    BY <1>3, <2>3, <2>4, SetList
  <2> HIDE DEF t
  <2>6. /\ t.zone[z].zs = st /\ SamePointers(s, t, z) /\ Others(Z, s, t, z)
        /\ SameLimits(s, t) /\ SameCounts(s, t)
    BY <1>1, <2>2, <2>3, <2>5 DEF SamePointers, Others, SameLimits, SameCounts
  <2>7. Exact(Z, t)
    <3> SUFFICES ASSUME NEW x \in ListStates
                 PROVE  /\ ToSet(t.list[x]) = {y \in Z : t.zone[y].zs = x}
                        /\ IsInjective(t.list[x])
      BY DEF Exact
    <3>1. ToSet(s.list[x]) = {y \in Z : s.zone[y].zs = x}
      BY DEF Exact
    <3>2. CASE x = st
      BY <1>1, <2>4, <2>5, <2>6, <3>1, <3>2 DEF Others
    <3>3. CASE x # st
      BY <1>1, <2>3, <2>5, <2>6, <3>1, <3>3 DEF Others
    <3> QED
      BY <3>2, <3>3
  <2> QED
    BY <2>1, <2>5, <2>6, <2>7 DEF Assigned
<1>4. CASE st \notin ListStates
  <2> DEFINE d == [s.zone[z] EXCEPT !.zs = st, !.za = FALSE]
             t == [u EXCEPT !.zone[z] = d]
  <2>1. zns_assign_zone_state(s, z, st) = t
    <3>1. zns_assign_zone_state(s, z, st)
            = [u EXCEPT !.zone[z].zs = st, !.zone[z].za = FALSE]
      BY <1>4 DEF zns_assign_zone_state, u
    <3>2. [u EXCEPT !.zone[z].zs = st, !.zone[z].za = FALSE] = t
      BY <1>1, <1>2 DEF Ctrl
    <3> QED
      BY <3>1, <3>2
  <2>2. d \in Zone /\ d.zs = st /\ d.wp = s.zone[z].wp /\ d.w_ptr = s.zone[z].w_ptr
    BY <1>2 DEF Zone
  <2> HIDE DEF d
  <2>3. /\ t \in Ctrl(Z) /\ t.list = u.list /\ SameLimits(u, t) /\ SameCounts(u, t)
        /\ t.zone[z] = d /\ Others(Z, u, t, z)
    BY <1>1, <2>2, SetZone
  <2> HIDE DEF t
  <2>4. /\ t.zone[z].zs = st /\ SamePointers(s, t, z) /\ Others(Z, s, t, z)
        /\ SameLimits(s, t) /\ SameCounts(s, t)
    BY <1>1, <2>2, <2>3 DEF SamePointers, Others, SameLimits, SameCounts
  <2>5. Exact(Z, t)
    BY <1>1, <1>4, <2>3, <2>4 DEF Exact, Others
  <2> QED
    BY <2>1, <2>3, <2>4, <2>5 DEF Assigned
<1> QED
  BY <1>3, <1>4

-----------------------------------------------------------------------------
(* Counts of open and active zones *)

One(b) == IF b THEN 1 ELSE 0

SameStates(Z, s, t, z) == \A y \in Z \ {z} : t.zone[y].zs = s.zone[y].zs

(* When zone z changes, the zones in the states S change by z alone.       *)
LEMMA CountMove ==
  ASSUME NEW Z, IsFiniteSet(Z), NEW s, NEW t, NEW z \in Z, NEW S,
         SameStates(Z, s, t, z)
  PROVE  /\ Cardinality(InState(Z, s, S)) \in Nat
         /\ Cardinality(InState(Z, t, S))
              = Cardinality(InState(Z, s, S)) + One(t.zone[z].zs \in S)
                                              - One(s.zone[z].zs \in S)
<1> DEFINE P == InState(Z, s, S)
           Q == InState(Z, t, S)
<1>1. IsFiniteSet(P) /\ IsFiniteSet(Q)
  BY FS_Subset DEF InState
<1>2. Cardinality(P) \in Nat /\ Cardinality(Q) \in Nat
  BY <1>1, FS_CardinalityType
<1>3. (z \in P <=> s.zone[z].zs \in S) /\ (z \in Q <=> t.zone[z].zs \in S)
  BY DEF InState
<1>4. P \ {z} = Q \ {z}
  BY DEF InState, SameStates
<1> HIDE DEF P, Q
<1>5. CASE z \in P /\ z \in Q
  <2>1. P = Q
    BY <1>4, <1>5
  <2> QED
    BY <1>2, <1>3, <1>5, <2>1 DEF One, P, Q
<1>6. CASE z \in P /\ z \notin Q
  <2>1. Q = P \ {z}
    BY <1>4, <1>6
  <2>2. Cardinality(Q) = Cardinality(P) - 1
    BY <1>1, <1>6, <2>1, FS_RemoveElement
  <2> QED
    BY <1>2, <1>3, <1>6, <2>2 DEF One, P, Q
<1>7. CASE z \notin P /\ z \in Q
  <2>1. Q = P \cup {z}
    BY <1>4, <1>7
  <2>2. Cardinality(Q) = Cardinality(P) + 1
    BY <1>1, <1>7, <2>1, FS_AddElement
  <2> QED
    BY <1>2, <1>3, <1>7, <2>2 DEF One, P, Q
<1>8. CASE z \notin P /\ z \notin Q
  <2>1. P = Q
    BY <1>4, <1>8
  <2> QED
    BY <1>2, <1>3, <1>8, <2>1 DEF One, P, Q
<1> QED
  BY <1>5, <1>6, <1>7, <1>8

\* From s to t the counts in force moved by o and a.
Shift(s, t, o, a) ==
  /\ t.nr_open = s.nr_open + (IF s.max_open # 0 THEN o ELSE 0)
  /\ t.nr_active = s.nr_active + (IF s.max_active # 0 THEN a ELSE 0)

\* From s to t no zone changed its state, and only z its pointers.
Kept(Z, s, t, z) ==
  /\ t \in Ctrl(Z) /\ t.list = s.list /\ SameLimits(s, t)
  /\ t.zone[z].zs = s.zone[z].zs /\ Others(Z, s, t, z)

(* The four functions that count.                                          *)
LEMMA CountOpen ==
  ASSUME NEW Z, NEW s \in Ctrl(Z), NEW z \in Z
  PROVE  /\ Kept(Z, s, zns_aor_inc_open(s), z) /\ Shift(s, zns_aor_inc_open(s), 1, 0)
         /\ zns_aor_inc_open(s).zone = s.zone
         /\ Kept(Z, s, zns_aor_dec_open(s), z) /\ Shift(s, zns_aor_dec_open(s), -1, 0)
         /\ zns_aor_dec_open(s).zone = s.zone
BY DEF Ctrl, Kept, Shift, SameLimits, Others, zns_aor_inc_open, zns_aor_dec_open

(* The two that count active zones.                                        *)
LEMMA CountActive ==
  ASSUME NEW Z, NEW s \in Ctrl(Z), NEW z \in Z
  PROVE  /\ Kept(Z, s, zns_aor_inc_active(s), z) /\ Shift(s, zns_aor_inc_active(s), 0, 1)
         /\ zns_aor_inc_active(s).zone = s.zone
         /\ Kept(Z, s, zns_aor_dec_active(s), z) /\ Shift(s, zns_aor_dec_active(s), 0, -1)
         /\ zns_aor_dec_active(s).zone = s.zone
<1>1. /\ Kept(Z, s, zns_aor_inc_active(s), z) /\ Shift(s, zns_aor_inc_active(s), 0, 1)
      /\ zns_aor_inc_active(s).zone = s.zone
  BY DEF Ctrl, Kept, Shift, SameLimits, Others, zns_aor_inc_active
<1>2. /\ Kept(Z, s, zns_aor_dec_active(s), z) /\ Shift(s, zns_aor_dec_active(s), 0, -1)
      /\ zns_aor_dec_active(s).zone = s.zone
  BY DEF Ctrl, Kept, Shift, SameLimits, Others, zns_aor_dec_active
<1> QED
  BY <1>1, <1>2

(* Two steps that move no zone, and the counts they move together.         *)
LEMMA KeptTwice ==
  ASSUME NEW Z, NEW s \in Ctrl(Z), NEW z \in Z, NEW t \in Ctrl(Z), NEW u,
         Kept(Z, s, t, z), Kept(Z, t, u, z),
         NEW o \in Int, NEW a \in Int, NEW p \in Int, NEW b \in Int,
         Shift(s, t, o, a), Shift(t, u, p, b)
  PROVE  Kept(Z, s, u, z) /\ Shift(s, u, o + p, a + b)
<1>1. s.nr_open \in Int /\ s.nr_active \in Int
  BY DEF Ctrl
<1> QED
  BY <1>1 DEF Kept, Shift, SameLimits, Others

(* The resources zone z gives back.                                        *)
LEMMA Released ==
  ASSUME NEW Z, NEW s \in Ctrl(Z), NEW z \in Z
  PROVE  LET t == ReleaseZone(s, z) IN
         /\ Kept(Z, s, t, z) /\ t.zone = s.zone
         /\ Shift(s, t, -One(s.zone[z].zs \in OpenStates),
                        -One(s.zone[z].zs \in ActiveStates))
<1> DEFINE st == s.zone[z].zs
           o  == IF st \in OpenStates THEN zns_aor_dec_open(s) ELSE s
           t  == IF st \in ActiveStates THEN zns_aor_dec_active(o) ELSE o
<1>1. ReleaseZone(s, z) = t
  BY DEF ReleaseZone
<1>2. s.nr_open \in Int /\ s.nr_active \in Int
  BY DEF Ctrl
<1>3. Kept(Z, s, s, z) /\ Shift(s, s, 0, 0)
  BY <1>2 DEF Kept, Shift, SameLimits, Others
<1>4. Kept(Z, s, o, z) /\ Shift(s, o, -One(st \in OpenStates), 0) /\ o.zone = s.zone
  BY <1>3, CountOpen DEF One
<1>5. o \in Ctrl(Z)
  BY <1>4 DEF Kept
<1> HIDE DEF o
<1>6. /\ Kept(Z, o, t, z) /\ Shift(o, t, 0, -One(st \in ActiveStates))
      /\ t.zone = s.zone
  <2>1. CASE st \in ActiveStates
    BY <1>4, <1>5, <2>1, CountActive DEF One
  <2>2. CASE st \notin ActiveStates
    <3>1. o.nr_open \in Int /\ o.nr_active \in Int
      BY <1>5 DEF Ctrl
    <3> QED
      BY <1>4, <1>5, <2>2, <3>1 DEF Kept, Shift, SameLimits, Others, One
  <2> QED
    BY <2>1, <2>2
<1> HIDE DEF t
<1> DEFINE x == -One(st \in OpenStates)
           y == -One(st \in ActiveStates)
<1>7. x \in Int /\ y \in Int /\ x + 0 = x /\ 0 + y = y
  BY DEF One
<1> HIDE DEF x, y
<1>8. Kept(Z, s, t, z) /\ Shift(s, t, x + 0, 0 + y)
  BY <1>4, <1>5, <1>6, <1>7, KeptTwice DEF x, y
<1> QED
  BY <1>1, <1>6, <1>7, <1>8 DEF x, y

(* A command moves zone z to state st after it has counted the difference: *)
(* the counts are exact again.                                             *)
LEMMA Settled ==
  ASSUME NEW Z, IsFiniteSet(Z), NEW s, Good(Z, s), NEW z \in Z, NEW st \in States,
         NEW b, Kept(Z, s, b, z), Within(b),
         Shift(s, b, One(st \in OpenStates) - One(s.zone[z].zs \in OpenStates),
                     One(st \in ActiveStates) - One(s.zone[z].zs \in ActiveStates))
  PROVE  LET t == zns_assign_zone_state(b, z, st) IN
         /\ Good(Z, t) /\ SameLimits(s, t)
         /\ t.zone[z].zs = st /\ SamePointers(b, t, z) /\ Others(Z, s, t, z)
<1> DEFINE t == zns_assign_zone_state(b, z, st)
<1>1. s \in Ctrl(Z) /\ b \in Ctrl(Z) /\ Books(Z, s, 0, 0)
  BY DEF Good, Kept
<1>2. Exact(Z, b)
  <2>1. \A y \in Z : b.zone[y].zs = s.zone[y].zs
    BY DEF Kept, Others
  <2> QED
    BY <2>1 DEF Good, Exact, Kept
<1>3. Assigned(Z, b, t, z, st)
  BY <1>1, <1>2, AssignState
<1> HIDE DEF t
<1>4. /\ SameLimits(s, t) /\ Others(Z, s, t, z) /\ Within(t)
      /\ t.nr_open = b.nr_open /\ t.nr_active = b.nr_active
  BY <1>3 DEF Assigned, Kept, SameLimits, SameCounts, Others, Within
<1>5. SameStates(Z, s, t, z)
  BY <1>4 DEF Others, SameStates
<1>6. t.zone[z].zs = st
  BY <1>3 DEF Assigned
<1>7. ASSUME NEW S
      PROVE  /\ Cardinality(InState(Z, s, S)) \in Nat
             /\ Cardinality(InState(Z, t, S))
                  = Cardinality(InState(Z, s, S)) + One(st \in S) - One(s.zone[z].zs \in S)
  <2>1. /\ Cardinality(InState(Z, s, S)) \in Nat
        /\ Cardinality(InState(Z, t, S))
             = Cardinality(InState(Z, s, S)) + One(t.zone[z].zs \in S)
                                             - One(s.zone[z].zs \in S)
    BY <1>5, CountMove
  <2> QED
    BY <1>6, <2>1
<1>8. Books(Z, t, 0, 0)
  <2> DEFINE co == Cardinality(InState(Z, s, OpenStates))
             ca == Cardinality(InState(Z, s, ActiveStates))
             do == Cardinality(InState(Z, t, OpenStates))
             da == Cardinality(InState(Z, t, ActiveStates))
             o1 == One(st \in OpenStates)
             o2 == One(s.zone[z].zs \in OpenStates)
             a1 == One(st \in ActiveStates)
             a2 == One(s.zone[z].zs \in ActiveStates)
  <2>1. o1 \in Int /\ o2 \in Int /\ a1 \in Int /\ a2 \in Int
    BY DEF One
  <2>2. /\ co \in Nat /\ ca \in Nat /\ do = co + o1 - o2 /\ da = ca + a1 - a2
    BY <1>7
  <2>3. /\ s.nr_open = IF s.max_open # 0 THEN co + 0 ELSE 0
        /\ s.nr_active = IF s.max_active # 0 THEN ca + 0 ELSE 0
    BY <1>1 DEF Books
  <2>4. /\ t.nr_open = s.nr_open + (IF s.max_open # 0 THEN o1 - o2 ELSE 0)
        /\ t.nr_active = s.nr_active + (IF s.max_active # 0 THEN a1 - a2 ELSE 0)
    BY <1>4 DEF Shift
  <2>5. t.max_open = s.max_open /\ t.max_active = s.max_active
    BY <1>4 DEF SameLimits
  <2> HIDE DEF co, ca, do, da, o1, o2, a1, a2
  <2>6. t.nr_open = IF t.max_open # 0 THEN do + 0 ELSE 0
    BY <2>1, <2>2, <2>3, <2>4, <2>5
  <2>7. t.nr_active = IF t.max_active # 0 THEN da + 0 ELSE 0
    BY <2>1, <2>2, <2>3, <2>4, <2>5
  <2> QED
    BY <2>6, <2>7 DEF Books, do, da
<1> QED
  BY <1>3, <1>4, <1>6, <1>8 DEF Good, Assigned, t

-----------------------------------------------------------------------------
(* Handlers of zone management *)

\* The handler moved zone z to state st and kept its pointers.
Moved(Z, s, t, z, st) ==
  /\ Good(Z, t) /\ SameLimits(s, t) /\ Others(Z, s, t, z)
  /\ t.zone[z].zs = st /\ SamePointers(s, t, z)

\* The handler changed no zone.
Unmoved(Z, s, t) == Good(Z, t) /\ SameLimits(s, t) /\ t.zone = s.zone

(* A state from which no zone moved, with the counts it had.               *)
LEMMA NothingCounted ==
  ASSUME NEW Z, NEW s, Good(Z, s), NEW z \in Z, NEW t,
         Kept(Z, s, t, z), Shift(s, t, 0, 0), t.zone = s.zone
  PROVE  Unmoved(Z, s, t)
<1>1. t.nr_open = s.nr_open /\ t.nr_active = s.nr_active
  BY DEF Good, Ctrl, Shift
<1> QED
  BY <1>1 DEF Good, Kept, Exact, Books, Within, SameLimits, Unmoved, InState

(* A handler that only counts and assigns.                                 *)
LEMMA MovedBy ==
  ASSUME NEW Z, IsFiniteSet(Z), NEW s, Good(Z, s), NEW z \in Z, NEW st \in States,
         NEW b, Kept(Z, s, b, z), Within(b), b.zone = s.zone,
         Shift(s, b, One(st \in OpenStates) - One(s.zone[z].zs \in OpenStates),
                     One(st \in ActiveStates) - One(s.zone[z].zs \in ActiveStates))
  PROVE  Moved(Z, s, zns_assign_zone_state(b, z, st), z, st)
<1> DEFINE t == zns_assign_zone_state(b, z, st)
<1>1. /\ Good(Z, t) /\ SameLimits(s, t)
      /\ t.zone[z].zs = st /\ SamePointers(b, t, z) /\ Others(Z, s, t, z)
  BY Settled
<1> HIDE DEF t
<1> QED
  BY <1>1 DEF Moved, SamePointers, t

(* The state itself.                                                       *)
LEMMA KeptItself ==
  ASSUME NEW Z, NEW s, Good(Z, s), NEW z \in Z
  PROVE  Kept(Z, s, s, z) /\ Shift(s, s, 0, 0) /\ Within(s) /\ s \in Ctrl(Z)
BY DEF Good, Ctrl, Kept, Shift, SameLimits, Others

(* Counts that go down stay within the limits.                             *)
LEMMA WithinBelow ==
  ASSUME NEW Z, NEW s, Good(Z, s), NEW z \in Z, NEW b, Kept(Z, s, b, z),
         NEW o \in Int, NEW a \in Int, o <= 0, a <= 0, Shift(s, b, o, a)
  PROVE  Within(b)
<1>1. /\ s.nr_open \in Int /\ s.nr_active \in Int /\ s.max_open \in Nat
      /\ s.max_active \in Nat /\ Within(s)
      /\ b.max_open = s.max_open /\ b.max_active = s.max_active
  BY DEF Good, Ctrl, Kept, SameLimits
<1>2. s.max_open # 0 => b.nr_open <= s.max_open
  BY <1>1 DEF Shift, Within
<1>3. s.max_active # 0 => b.nr_active <= s.max_active
  BY <1>1 DEF Shift, Within
<1> QED
  BY <1>1, <1>2, <1>3 DEF Within

(* zns_open_zone opens a zone, or leaves it when a limit is reached.       *)
LEMMA OpenZone ==
  ASSUME NEW Z, IsFiniteSet(Z), NEW s, Good(Z, s), NEW z \in Z
  PROVE  LET t == zns_open_zone(s, z) IN
         \/ Unmoved(Z, s, t)
         \/ Moved(Z, s, t, z, "EXPLICITLY_OPEN")
              /\ s.zone[z].zs \in {"EMPTY", "CLOSED", "IMPLICITLY_OPEN"}
<1> DEFINE st == s.zone[z].zs
           a  == zns_aor_inc_active(s)
           c  == zns_aor_inc_open(a)
           o  == zns_aor_inc_open(s)
           X  == "EXPLICITLY_OPEN"
<1>1. Kept(Z, s, s, z) /\ Shift(s, s, 0, 0) /\ Within(s) /\ s \in Ctrl(Z)
  BY KeptItself
<1>2. st \in States
  BY <1>1 DEF Ctrl, Zone
<1>3. /\ X \in States /\ One(X \in OpenStates) = 1 /\ One(X \in ActiveStates) = 1
  BY DEF States, ListStates, OpenStates, ActiveStates, One
<1>4. /\ s.nr_open \in Int /\ s.nr_active \in Int /\ s.max_open \in Nat
      /\ s.max_active \in Nat
  BY <1>1 DEF Ctrl
<1>5. Kept(Z, s, a, z) /\ Shift(s, a, 0, 1) /\ a.zone = s.zone /\ a \in Ctrl(Z)
  BY <1>1, CountActive DEF Kept
<1>6. Kept(Z, s, o, z) /\ Shift(s, o, 1, 0) /\ o.zone = s.zone
  BY <1>1, CountOpen
<1>7. Kept(Z, s, c, z) /\ Shift(s, c, 1, 1) /\ c.zone = s.zone
  <2>1. Kept(Z, a, c, z) /\ Shift(a, c, 1, 0) /\ c.zone = a.zone
    BY <1>5, CountOpen
  <2> HIDE DEF a, c
  <2>2. Kept(Z, s, c, z) /\ Shift(s, c, 0 + 1, 1 + 0)
    BY <1>1, <1>5, <2>1, KeptTwice
  <2> QED
    BY <1>5, <2>1, <2>2
<1>8. CASE st = "EMPTY" /\ ~zns_aor_check(s, 1, 0)
  <2>1. zns_open_zone(s, z) = s
    BY <1>8 DEF zns_open_zone
  <2> QED
    BY <2>1 DEF Unmoved, SameLimits
<1>9. CASE st = "EMPTY" /\ zns_aor_check(s, 1, 0) /\ ~zns_aor_check(a, 0, 1)
  <2> DEFINE d == zns_aor_dec_active(a)
  <2>1. zns_open_zone(s, z) = d
    BY <1>9 DEF zns_open_zone
  <2>2. Kept(Z, a, d, z) /\ Shift(a, d, 0, -1) /\ d.zone = a.zone
    BY <1>5, CountActive
  <2> HIDE DEF a, d
  <2>3. Kept(Z, s, d, z) /\ Shift(s, d, 0 + 0, 1 + (-1))
    BY <1>1, <1>5, <2>2, KeptTwice
  <2>4. Shift(s, d, 0, 0) /\ d.zone = s.zone
    BY <1>5, <2>2, <2>3
  <2>5. Unmoved(Z, s, d)
    BY <2>3, <2>4, NothingCounted
  <2> QED
    BY <2>1, <2>5
<1>10. CASE st = "EMPTY" /\ zns_aor_check(s, 1, 0) /\ zns_aor_check(a, 0, 1)
  <2>1. zns_open_zone(s, z) = zns_assign_zone_state(c, z, X)
    BY <1>10 DEF zns_open_zone
  <2>2. One(st \in OpenStates) = 0 /\ One(st \in ActiveStates) = 0
    BY <1>10 DEF OpenStates, ActiveStates, One
  <2>3. Within(c)
    <3> HIDE DEF a, c
    <3> QED
      BY <1>4, <1>5, <1>7, <1>10 DEF Within, zns_aor_check, Shift, Kept, SameLimits
  <2> HIDE DEF c, a
  <2>4. Shift(s, c, One(X \in OpenStates) - One(st \in OpenStates),
                    One(X \in ActiveStates) - One(st \in ActiveStates))
    BY <1>3, <1>7, <2>2
  <2>5. Moved(Z, s, zns_assign_zone_state(c, z, X), z, X)
    BY <1>3, <1>7, <2>3, <2>4, MovedBy
  <2> QED
    BY <1>10, <2>1, <2>5
<1>11. CASE st = "CLOSED" /\ ~zns_aor_check(s, 0, 1)
  <2>1. zns_open_zone(s, z) = s
    BY <1>11 DEF zns_open_zone
  <2> QED
    BY <2>1 DEF Unmoved, SameLimits
<1>12. CASE st = "CLOSED" /\ zns_aor_check(s, 0, 1)
  <2>1. zns_open_zone(s, z) = zns_assign_zone_state(o, z, X)
    BY <1>12 DEF zns_open_zone
  <2>2. One(st \in OpenStates) = 0 /\ One(st \in ActiveStates) = 1
    BY <1>12 DEF OpenStates, ActiveStates, One
  <2> HIDE DEF o
  <2>3. Within(o)
    BY <1>1, <1>4, <1>6, <1>12 DEF Within, zns_aor_check, Shift, Kept, SameLimits
  <2>4. Shift(s, o, One(X \in OpenStates) - One(st \in OpenStates),
                    One(X \in ActiveStates) - One(st \in ActiveStates))
    BY <1>3, <1>6, <2>2
  <2>5. Moved(Z, s, zns_assign_zone_state(o, z, X), z, X)
    BY <1>3, <1>6, <2>3, <2>4, MovedBy
  <2> QED
    BY <1>12, <2>1, <2>5
<1>13. CASE st = "IMPLICITLY_OPEN"
  <2>1. zns_open_zone(s, z) = zns_assign_zone_state(s, z, X)
    BY <1>13 DEF zns_open_zone
  <2>2. One(st \in OpenStates) = 1 /\ One(st \in ActiveStates) = 1
    BY <1>13 DEF OpenStates, ActiveStates, One
  <2>3. Shift(s, s, One(X \in OpenStates) - One(st \in OpenStates),
                    One(X \in ActiveStates) - One(st \in ActiveStates))
    BY <1>1, <1>3, <2>2
  <2>4. Moved(Z, s, zns_assign_zone_state(s, z, X), z, X)
    BY <1>1, <1>3, <2>3, MovedBy
  <2> QED
    BY <1>13, <2>1, <2>4
<1>14. CASE st \in {"EXPLICITLY_OPEN", "FULL"}
  <2>1. zns_open_zone(s, z) = s
    BY <1>14 DEF zns_open_zone
  <2> QED
    BY <2>1 DEF Unmoved, SameLimits
<1> QED
  BY <1>2, <1>8, <1>9, <1>10, <1>11, <1>12, <1>13, <1>14
     DEF States, ListStates, ActiveStates, OpenStates

(* zns_close_zone closes an open zone.                                     *)
LEMMA CloseZone ==
  ASSUME NEW Z, IsFiniteSet(Z), NEW s, Good(Z, s), NEW z \in Z
  PROVE  LET t == zns_close_zone(s, z) IN
         \/ Unmoved(Z, s, t)
         \/ Moved(Z, s, t, z, "CLOSED") /\ s.zone[z].zs \in OpenStates
<1> DEFINE st == s.zone[z].zs
           b  == zns_aor_dec_open(s)
<1>1. CASE st \in OpenStates
  <2>1. zns_close_zone(s, z) = zns_assign_zone_state(b, z, "CLOSED")
    BY <1>1 DEF zns_close_zone
  <2>2. /\ "CLOSED" \in States /\ One("CLOSED" \in OpenStates) = 0
        /\ One("CLOSED" \in ActiveStates) = 1
        /\ One(st \in OpenStates) = 1 /\ One(st \in ActiveStates) = 1
    BY <1>1 DEF States, ListStates, OpenStates, ActiveStates, One
  <2>3. Kept(Z, s, b, z) /\ Shift(s, b, -1, 0) /\ b.zone = s.zone
    BY CountOpen DEF Good
  <2> HIDE DEF b
  <2>4. Within(b)
    BY <2>3, WithinBelow
  <2>5. Shift(s, b, One("CLOSED" \in OpenStates) - One(st \in OpenStates),
                    One("CLOSED" \in ActiveStates) - One(st \in ActiveStates))
    BY <2>2, <2>3
  <2>6. Moved(Z, s, zns_assign_zone_state(b, z, "CLOSED"), z, "CLOSED")
    BY <2>2, <2>3, <2>4, <2>5, MovedBy
  <2> QED
    BY <1>1, <2>1, <2>6
<1>2. CASE st \notin OpenStates
  BY <1>2 DEF zns_close_zone, Unmoved, SameLimits
<1> QED
  BY <1>1, <1>2

\* The handler moved zone z to state st and set its pointers.
MovedTo(Z, s, t, z, st, wp, w_ptr) ==
  /\ Good(Z, t) /\ SameLimits(s, t) /\ Others(Z, s, t, z)
  /\ t.zone[z].zs = st /\ t.zone[z].wp = wp /\ t.zone[z].w_ptr = w_ptr

\* Zone z of s with these pointers.
Pointing(s, z, wp, w_ptr) ==
  [s EXCEPT !.zone[z] = [s.zone[z] EXCEPT !.wp = wp, !.w_ptr = w_ptr]]

(* A change of the pointers of a zone.                                     *)
LEMMA SetZonePointers ==
  ASSUME NEW Z, NEW s \in Ctrl(Z), NEW z \in Z, NEW wp \in Nat, NEW w_ptr \in Nat
  PROVE  LET t == Pointing(s, z, wp, w_ptr) IN
         /\ Kept(Z, s, t, z) /\ Shift(s, t, 0, 0) /\ t \in Ctrl(Z)
         /\ t.zone[z].wp = wp /\ t.zone[z].w_ptr = w_ptr
<1> DEFINE t == Pointing(s, z, wp, w_ptr)
           d == [s.zone[z] EXCEPT !.wp = wp, !.w_ptr = w_ptr]
<1>1. s.zone[z] \in Zone /\ s.nr_open \in Int /\ s.nr_active \in Int
  BY DEF Ctrl
<1>2. d \in Zone /\ d.zs = s.zone[z].zs /\ d.wp = wp /\ d.w_ptr = w_ptr
  BY <1>1 DEF Zone
<1>3. t = [s EXCEPT !.zone[z] = d]
  BY DEF Pointing
<1> HIDE DEF d, t
<1>4. /\ t \in Ctrl(Z) /\ t.list = s.list /\ SameLimits(s, t) /\ SameCounts(s, t)
      /\ t.zone[z] = d /\ Others(Z, s, t, z)
  BY <1>2, <1>3 DEF Ctrl, SameLimits, SameCounts, Others
<1>5. /\ Kept(Z, s, t, z) /\ Shift(s, t, 0, 0) /\ t \in Ctrl(Z)
      /\ t.zone[z].wp = wp /\ t.zone[z].w_ptr = w_ptr
  BY <1>1, <1>2, <1>4 DEF Kept, Shift, SameCounts
<1> QED
  BY <1>5 DEF t

(* The resources are given back, and zone z moves with its pointers.       *)
LEMMA ReleasedAndMoved ==
  ASSUME NEW Z, IsFiniteSet(Z), NEW s, Good(Z, s), NEW z \in Z,
         NEW st \in {"FULL", "EMPTY"}, NEW wp \in Nat, NEW w_ptr \in Nat, NEW b,
         Kept(Z, s, b, z), b.zone[z].wp = wp, b.zone[z].w_ptr = w_ptr,
         Shift(s, b, -One(s.zone[z].zs \in OpenStates),
                     -One(s.zone[z].zs \in ActiveStates))
  PROVE  MovedTo(Z, s, zns_assign_zone_state(b, z, st), z, st, wp, w_ptr)
<1> DEFINE o == One(s.zone[z].zs \in OpenStates)
           a == One(s.zone[z].zs \in ActiveStates)
           t == zns_assign_zone_state(b, z, st)
<1>1. /\ st \in States /\ One(st \in OpenStates) = 0 /\ One(st \in ActiveStates) = 0
      /\ o \in Nat /\ a \in Nat
  BY DEF States, ListStates, ActiveStates, OpenStates, One
<1> HIDE DEF o, a
<1>2. -o \in Int /\ -a \in Int /\ -o <= 0 /\ -a <= 0 /\ 0 - o = -o /\ 0 - a = -a
  BY <1>1
<1>3. Shift(s, b, -o, -a)
  BY DEF o, a
<1>4. Within(b)
  BY <1>2, <1>3, WithinBelow
<1>5. Shift(s, b, One(st \in OpenStates) - o, One(st \in ActiveStates) - a)
  BY <1>1, <1>2, <1>3
<1>6. /\ Good(Z, t) /\ SameLimits(s, t)
      /\ t.zone[z].zs = st /\ SamePointers(b, t, z) /\ Others(Z, s, t, z)
  BY <1>1, <1>4, <1>5, Settled DEF o, a
<1> HIDE DEF t
<1> QED
  BY <1>6 DEF MovedTo, SamePointers, t

(* Release and then set the pointers.                                      *)
LEMMA ReleasedAndSet ==
  ASSUME NEW Z, IsFiniteSet(Z), NEW s, Good(Z, s), NEW z \in Z,
         NEW st \in {"FULL", "EMPTY"}, NEW lba \in Nat
  PROVE  LET t == zns_assign_zone_state(SetPointers(ReleaseZone(s, z), z, lba), z, st)
         IN  MovedTo(Z, s, t, z, st, lba, lba)
<1> DEFINE r == ReleaseZone(s, z)
           b == SetPointers(r, z, lba)
           o == -One(s.zone[z].zs \in OpenStates)
           a == -One(s.zone[z].zs \in ActiveStates)
<1>1. Kept(Z, s, r, z) /\ r.zone = s.zone /\ Shift(s, r, o, a) /\ s \in Ctrl(Z)
  BY Released DEF Good
<1>2. r \in Ctrl(Z) /\ o \in Int /\ a \in Int
  BY <1>1 DEF Kept, One
<1> HIDE DEF r, o, a
<1>3. b = Pointing(r, z, lba, lba)
  <2>1. r.zone \in [Z -> Zone] /\ r.zone[z] \in Zone
    BY <1>2 DEF Ctrl
  <2>2. [r.zone[z] EXCEPT !.w_ptr = lba, !.wp = lba]
          = [r.zone[z] EXCEPT !.wp = lba, !.w_ptr = lba]
    BY <2>1 DEF Zone
  <2> QED
    BY <1>2, <2>1, <2>2 DEF SetPointers, Ctrl, Pointing
<1>4. /\ Kept(Z, r, b, z) /\ Shift(r, b, 0, 0)
      /\ b.zone[z].wp = lba /\ b.zone[z].w_ptr = lba
  <2> HIDE DEF b
  <2> QED
    BY <1>2, <1>3, SetZonePointers
<1> HIDE DEF b
<1>5. Kept(Z, s, b, z) /\ Shift(s, b, o + 0, a + 0)
  BY <1>1, <1>2, <1>4, KeptTwice
<1>6. Shift(s, b, o, a)
  BY <1>2, <1>5
<1>7. MovedTo(Z, s, zns_assign_zone_state(b, z, st), z, st, lba, lba)
  BY <1>4, <1>5, <1>6, ReleasedAndMoved DEF o, a
<1> QED
  BY <1>7 DEF b, r

(* zns_finish_zone fills a zone that is not full.                          *)
LEMMA FinishZone ==
  ASSUME NEW Z, IsFiniteSet(Z), NEW s, Good(Z, s), NEW z \in Z,
         zns_zone_wr_boundary(z) \in Nat
  PROVE  LET t == zns_finish_zone(s, z)
             b == zns_zone_wr_boundary(z)
         IN  IF s.zone[z].zs = "FULL" THEN Unmoved(Z, s, t)
                                      ELSE MovedTo(Z, s, t, z, "FULL", b, b)
<1>1. CASE s.zone[z].zs = "FULL"
  BY <1>1 DEF zns_finish_zone, Unmoved, SameLimits
<1>2. CASE s.zone[z].zs # "FULL"
  BY <1>2, ReleasedAndSet DEF zns_finish_zone
<1> QED
  BY <1>1, <1>2

(* zns_reset_zone empties a zone that is not empty.                        *)
LEMMA ResetZone ==
  ASSUME NEW Z, IsFiniteSet(Z), NEW s, Good(Z, s), NEW z \in Z, zslba(z) \in Nat
  PROVE  LET t == zns_reset_zone(s, z) IN
         IF s.zone[z].zs = "EMPTY" THEN Unmoved(Z, s, t)
                                   ELSE MovedTo(Z, s, t, z, "EMPTY", zslba(z), zslba(z))
<1>1. CASE s.zone[z].zs = "EMPTY"
  BY <1>1 DEF zns_reset_zone, Unmoved, SameLimits
<1>2. CASE s.zone[z].zs # "EMPTY"
  BY <1>2, ReleasedAndSet DEF zns_reset_zone
<1> QED
  BY <1>1, <1>2

(* zns_set_zd_ext moves an empty zone, or nothing.                         *)
LEMMA SetExtension ==
  ASSUME NEW Z, IsFiniteSet(Z), NEW s, Good(Z, s), NEW z \in Z
  PROVE  LET t == zns_set_zd_ext(s, z) IN
         \/ Unmoved(Z, s, t)
         \/ Moved(Z, s, t, z, "CLOSED") /\ s.zone[z].zs = "EMPTY"
<1> DEFINE st == s.zone[z].zs
           a  == zns_aor_inc_active(s)
           b  == [a EXCEPT !.zone[z].za = TRUE]
           t  == zns_assign_zone_state(b, z, "CLOSED")
<1>1. CASE st = "EMPTY" /\ zns_aor_check(s, 1, 0)
  <2>1. zns_set_zd_ext(s, z) = t
    BY <1>1 DEF zns_set_zd_ext
  <2>2. /\ "CLOSED" \in States /\ One("CLOSED" \in OpenStates) = 0
        /\ One("CLOSED" \in ActiveStates) = 1
        /\ One(st \in OpenStates) = 0 /\ One(st \in ActiveStates) = 0
    BY <1>1 DEF States, ListStates, OpenStates, ActiveStates, One
  <2>3. Kept(Z, s, a, z) /\ Shift(s, a, 0, 1) /\ a.zone = s.zone
    BY CountActive DEF Good
  <2>4. /\ s.nr_open \in Int /\ s.nr_active \in Int /\ s.max_open \in Nat
        /\ s.max_active \in Nat /\ Within(s)
    BY DEF Good, Ctrl
  <2> HIDE DEF a
  <2>5. a \in Ctrl(Z)
    BY <2>3 DEF Kept
  <2>6. /\ b \in Ctrl(Z) /\ b.list = a.list /\ SameLimits(a, b) /\ SameCounts(a, b)
        /\ Others(Z, a, b, z) /\ b.zone[z].zs = a.zone[z].zs /\ SamePointers(a, b, z)
    BY <2>5 DEF Ctrl, Zone, SameLimits, SameCounts, Others, SamePointers
  <2> HIDE DEF b
  <2>7. Kept(Z, s, b, z) /\ Shift(s, b, 0, 1) /\ SamePointers(s, b, z)
    BY <2>3, <2>6 DEF Kept, Shift, SameLimits, SameCounts, Others, SamePointers
  <2>8. Within(b)
    BY <1>1, <2>4, <2>7 DEF Within, zns_aor_check, Shift, Kept, SameLimits
  <2>9. Shift(s, b, One("CLOSED" \in OpenStates) - One(st \in OpenStates),
                    One("CLOSED" \in ActiveStates) - One(st \in ActiveStates))
    BY <2>2, <2>7
  <2>10. /\ Good(Z, t) /\ SameLimits(s, t)
         /\ t.zone[z].zs = "CLOSED" /\ SamePointers(b, t, z) /\ Others(Z, s, t, z)
    BY <2>2, <2>7, <2>8, <2>9, Settled
  <2> HIDE DEF t
  <2>11. Moved(Z, s, t, z, "CLOSED")
    BY <2>7, <2>10 DEF Moved, SamePointers
  <2> QED
    BY <1>1, <2>1, <2>11
<1>2. CASE ~(st = "EMPTY" /\ zns_aor_check(s, 1, 0))
  BY <1>2 DEF zns_set_zd_ext, Unmoved, SameLimits
<1> QED
  BY <1>1, <1>2

-----------------------------------------------------------------------------
(* Writes *)

(* zns_auto_transition_zone closes an implicitly open zone, or nothing.    *)
LEMMA AutoTransition ==
  ASSUME NEW Z, IsFiniteSet(Z), NEW s, Good(Z, s)
  PROVE  LET t == zns_auto_transition_zone(s) IN
         \/ t = s
         \/ \E h \in Z : s.zone[h].zs = "IMPLICITLY_OPEN" /\ Moved(Z, s, t, h, "CLOSED")
<1> DEFINE l == s.list["IMPLICITLY_OPEN"]
           h == Head(l)
           b == zns_aor_dec_open(s)
           t == zns_assign_zone_state(b, h, "CLOSED")
<1>1. CASE s.max_open # 0 /\ s.nr_open = s.max_open /\ l # <<>>
  <2>1. zns_auto_transition_zone(s) = t
    BY <1>1 DEF zns_auto_transition_zone
  <2>2. "IMPLICITLY_OPEN" \in ListStates
    BY DEF ListStates, ActiveStates, OpenStates
  <2>3. /\ l \in Seq(Z)
        /\ ToSet(l) = {y \in Z : s.zone[y].zs = "IMPLICITLY_OPEN"}
    BY <2>2 DEF Good, Ctrl, Exact
  <2>4. h \in ToSet(l)
    BY <1>1, <2>3 DEF ToSet
  <2> HIDE DEF h
  <2>5. h \in Z /\ s.zone[h].zs = "IMPLICITLY_OPEN"
    BY <2>3, <2>4
  <2>6. /\ "CLOSED" \in States /\ One("CLOSED" \in OpenStates) = 0
        /\ One("CLOSED" \in ActiveStates) = 1
        /\ One(s.zone[h].zs \in OpenStates) = 1 /\ One(s.zone[h].zs \in ActiveStates) = 1
    BY <2>5 DEF States, ListStates, OpenStates, ActiveStates, One
  <2>7. Kept(Z, s, b, h) /\ Shift(s, b, -1, 0) /\ b.zone = s.zone
    BY <2>5, CountOpen DEF Good
  <2> HIDE DEF b
  <2>8. Within(b)
    BY <2>5, <2>7, WithinBelow
  <2>9. Shift(s, b, One("CLOSED" \in OpenStates) - One(s.zone[h].zs \in OpenStates),
                    One("CLOSED" \in ActiveStates) - One(s.zone[h].zs \in ActiveStates))
    BY <2>6, <2>7
  <2>10. Moved(Z, s, t, h, "CLOSED")
    BY <2>5, <2>6, <2>7, <2>8, <2>9, MovedBy
  <2> QED
    BY <2>1, <2>5, <2>10
<1>2. CASE ~(s.max_open # 0 /\ s.nr_open = s.max_open /\ l # <<>>)
  BY <1>2 DEF zns_auto_transition_zone
<1> QED
  BY <1>1, <1>2

(* A zone whose pointers alone were changed: still a good state.           *)
LEMMA PointersOnly ==
  ASSUME NEW Z, NEW s, Good(Z, s), NEW z \in Z, NEW b,
         Kept(Z, s, b, z), Shift(s, b, 0, 0)
  PROVE  Good(Z, b)
<1>1. b.nr_open = s.nr_open /\ b.nr_active = s.nr_active
  BY DEF Good, Ctrl, Shift
<1>2. \A y \in Z : b.zone[y].zs = s.zone[y].zs
  BY DEF Kept, Others
<1>3. Exact(Z, b) /\ \A S : InState(Z, b, S) = InState(Z, s, S)
  BY <1>2 DEF Good, Exact, Kept, InState
<1> QED
  BY <1>1, <1>3 DEF Good, Kept, Books, Within, SameLimits

(* zns_advance_zone_wp opens the zone unless the write fills it.           *)
LEMMA AdvanceWp ==
  ASSUME NEW Z, IsFiniteSet(Z), NEW s, Good(Z, s), NEW z \in Z, NEW nlb \in Nat,
         s.zone[z].zs \in {"EMPTY", "CLOSED"} =>
           zns_aor_check(s, IF s.zone[z].zs = "EMPTY" THEN 1 ELSE 0, 1)
  PROVE  LET t == zns_advance_zone_wp(s, z, nlb)
             w == s.zone[z].w_ptr + nlb
             x == IF w < zns_zone_wr_boundary(z) /\ s.zone[z].zs \in {"EMPTY", "CLOSED"}
                  THEN "IMPLICITLY_OPEN" ELSE s.zone[z].zs
         IN  MovedTo(Z, s, t, z, x, s.zone[z].wp, w)
<1> DEFINE st == s.zone[z].zs
           w  == s.zone[z].w_ptr + nlb
           a  == Pointing(s, z, s.zone[z].wp, w)
           c  == IF st = "EMPTY" THEN zns_aor_inc_active(a) ELSE a
           o  == zns_aor_inc_open(c)
           I  == "IMPLICITLY_OPEN"
           t  == zns_assign_zone_state(o, z, I)
           opens == w < zns_zone_wr_boundary(z) /\ st \in {"EMPTY", "CLOSED"}
<1>1. /\ s \in Ctrl(Z) /\ s.zone \in [Z -> Zone] /\ s.zone[z] \in Zone
      /\ s.zone[z].wp \in Nat /\ s.zone[z].w_ptr \in Nat /\ w \in Nat
      /\ s.nr_open \in Int /\ s.nr_active \in Int /\ s.max_open \in Nat
      /\ s.max_active \in Nat /\ Within(s)
  BY DEF Good, Ctrl, Zone
<1>2. [s EXCEPT !.zone[z].w_ptr = @ + nlb] = a
  BY <1>1 DEF Pointing, Ctrl, Zone
<1>3. /\ Kept(Z, s, a, z) /\ Shift(s, a, 0, 0) /\ a \in Ctrl(Z)
      /\ a.zone[z].wp = s.zone[z].wp /\ a.zone[z].w_ptr = w /\ a.zone[z].zs = st
  <2> DEFINE p == s.zone[z].wp
  <2>0. s \in Ctrl(Z) /\ p \in Nat /\ w \in Nat /\ a = Pointing(s, z, p, w)
    BY <1>1
  <2> HIDE DEF w, p, a
  <2>1. /\ Kept(Z, s, a, z) /\ Shift(s, a, 0, 0) /\ a \in Ctrl(Z)
        /\ a.zone[z].wp = p /\ a.zone[z].w_ptr = w
    BY <2>0, SetZonePointers
  <2> QED
    BY <2>1 DEF Kept, p
<1>4. zns_advance_zone_wp(s, z, nlb) = IF opens THEN t ELSE a
  <2> HIDE DEF w, a
  <2> QED
    BY <1>2, <1>3 DEF zns_advance_zone_wp
<1> HIDE DEF a, w
<1>5. CASE opens
  <2> DEFINE e == IF st = "EMPTY" THEN 1 ELSE 0
  <2>1. Kept(Z, a, c, z) /\ Shift(a, c, 0, e) /\ c.zone = a.zone
    <3>1. CASE st = "EMPTY"
      BY <1>3, <3>1, CountActive
    <3>2. CASE st # "EMPTY"
      <4>1. a.nr_open \in Int /\ a.nr_active \in Int
        BY <1>3 DEF Ctrl
      <4> QED
        BY <1>3, <3>2, <4>1 DEF Kept, Shift, SameLimits, Others
    <3> QED
      BY <3>1, <3>2
  <2>2. e \in Int /\ c \in Ctrl(Z)
    BY <2>1 DEF Kept
  <2> HIDE DEF c, e
  <2>3. Kept(Z, c, o, z) /\ Shift(c, o, 1, 0) /\ o.zone = c.zone
    BY <2>2, CountOpen
  <2> HIDE DEF o
  <2>4. Kept(Z, s, c, z) /\ Shift(s, c, 0 + 0, 0 + e)
    BY <1>1, <1>3, <2>1, <2>2, KeptTwice
  <2>5. Kept(Z, s, c, z) /\ Shift(s, c, 0, e)
    BY <2>2, <2>4
  <2>6. Kept(Z, s, o, z) /\ Shift(s, o, 0 + 1, e + 0)
    BY <1>1, <2>2, <2>3, <2>5, KeptTwice
  <2>7. Kept(Z, s, o, z) /\ Shift(s, o, 1, e)
    BY <2>2, <2>6
  <2>8. Within(o)
    <3>1. zns_aor_check(s, e, 1)
      BY <1>5 DEF e
    <3> QED
      BY <1>1, <2>2, <2>7, <3>1 DEF Within, zns_aor_check, Shift, Kept, SameLimits
  <2>9. /\ I \in States /\ One(I \in OpenStates) = 1 /\ One(I \in ActiveStates) = 1
        /\ One(st \in OpenStates) = 0 /\ One(st \in ActiveStates) = 1 - e
    BY <1>5 DEF States, ListStates, OpenStates, ActiveStates, One, e
  <2>10. Shift(s, o, One(I \in OpenStates) - One(st \in OpenStates),
                     One(I \in ActiveStates) - One(st \in ActiveStates))
    <3>1. 1 - 0 = 1 /\ 1 - (1 - e) = e
      BY <2>2
    <3> QED
      BY <2>7, <2>9, <3>1
  <2>11. /\ Good(Z, t) /\ SameLimits(s, t)
         /\ t.zone[z].zs = I /\ SamePointers(o, t, z) /\ Others(Z, s, t, z)
    BY <2>7, <2>8, <2>9, <2>10, Settled
  <2> HIDE DEF t
  <2>12. MovedTo(Z, s, t, z, I, s.zone[z].wp, w)
    BY <1>3, <2>1, <2>3, <2>11 DEF MovedTo, SamePointers
  <2> QED
    BY <1>4, <1>5, <2>12 DEF w
<1>6. CASE ~opens
  <2>1. Good(Z, a)
    BY <1>3, PointersOnly
  <2>2. MovedTo(Z, s, a, z, st, s.zone[z].wp, w)
    BY <1>3, <2>1 DEF MovedTo, Kept
  <2> QED
    BY <1>4, <1>6, <2>2 DEF w
<1> QED
  BY <1>5, <1>6

(* zns_finalize_zoned_write makes the zone full when it is.                *)
LEMMA FinalizeWrite ==
  ASSUME NEW Z, IsFiniteSet(Z), NEW s, Good(Z, s), NEW z \in Z, NEW nlb \in Nat,
         s.zone[z].zs # "FULL"
  PROVE  LET t == zns_finalize_zoned_write(s, z, nlb)
             w == s.zone[z].wp + nlb
             x == IF w = zns_zone_wr_boundary(z) THEN "FULL" ELSE s.zone[z].zs
         IN  MovedTo(Z, s, t, z, x, w, s.zone[z].w_ptr)
<1> DEFINE st == s.zone[z].zs
           w  == s.zone[z].wp + nlb
           a  == Pointing(s, z, w, s.zone[z].w_ptr)
           r  == ReleaseZone(a, z)
           t  == zns_assign_zone_state(r, z, "FULL")
           o  == -One(st \in OpenStates)
           b  == -One(st \in ActiveStates)
<1>1. /\ s \in Ctrl(Z) /\ s.zone \in [Z -> Zone] /\ s.zone[z] \in Zone
      /\ s.zone[z].wp \in Nat /\ s.zone[z].w_ptr \in Nat /\ w \in Nat
  BY DEF Good, Ctrl, Zone
<1>2. [s EXCEPT !.zone[z].wp = @ + nlb] = a
  BY <1>1 DEF Pointing, Ctrl, Zone
<1>3. /\ Kept(Z, s, a, z) /\ Shift(s, a, 0, 0) /\ a \in Ctrl(Z)
      /\ a.zone[z].wp = w /\ a.zone[z].w_ptr = s.zone[z].w_ptr /\ a.zone[z].zs = st
  <2> DEFINE p == s.zone[z].w_ptr
  <2>0. s \in Ctrl(Z) /\ p \in Nat /\ w \in Nat /\ a = Pointing(s, z, w, p)
    BY <1>1
  <2> HIDE DEF w, p, a
  <2>1. /\ Kept(Z, s, a, z) /\ Shift(s, a, 0, 0) /\ a \in Ctrl(Z)
        /\ a.zone[z].wp = w /\ a.zone[z].w_ptr = p
    BY <2>0, SetZonePointers
  <2> QED
    BY <2>1 DEF Kept, p
<1>4. zns_finalize_zoned_write(s, z, nlb) = IF w = zns_zone_wr_boundary(z) THEN t ELSE a
  <2> HIDE DEF w, a
  <2> QED
    BY <1>2, <1>3 DEF zns_finalize_zoned_write
<1> HIDE DEF a, w
<1>5. CASE w = zns_zone_wr_boundary(z)
  <2>1. Kept(Z, a, r, z) /\ r.zone = a.zone /\ Shift(a, r, o, b)
    BY <1>3, Released
  <2> HIDE DEF r
  <2>2. o \in Int /\ b \in Int /\ 0 + o = o /\ 0 + b = b
    BY DEF One
  <2> HIDE DEF o, b
  <2>3. Kept(Z, s, r, z) /\ Shift(s, r, 0 + o, 0 + b)
    BY <1>1, <1>3, <2>1, <2>2, KeptTwice
  <2>4. MovedTo(Z, s, t, z, "FULL", w, s.zone[z].w_ptr)
    <3>1. r.zone[z].wp = w /\ r.zone[z].w_ptr = s.zone[z].w_ptr
      BY <1>3, <2>1
    <3>2. Shift(s, r, -One(st \in OpenStates), -One(st \in ActiveStates))
      BY <2>2, <2>3 DEF o, b
    <3> QED
      BY <1>1, <2>3, <3>1, <3>2, ReleasedAndMoved
  <2> QED
    BY <1>4, <1>5, <2>4 DEF w
<1>6. CASE w # zns_zone_wr_boundary(z)
  <2>1. Good(Z, a)
    BY <1>3, PointersOnly
  <2>2. MovedTo(Z, s, a, z, st, w, s.zone[z].w_ptr)
    BY <1>3, <2>1 DEF MovedTo, Kept
  <2> QED
    BY <1>4, <1>6, <2>2 DEF w
<1> QED
  BY <1>5, <1>6


-----------------------------------------------------------------------------
(* The invariant *)

\* What the device reports of zone z, with fields d, is what it acts on; of a
\* parted zone, only that it is full when its reported pointer says so.
Reported(z, d, parted) ==
  /\ (d.zs = "FULL") <=> (d.wp = zns_zone_wr_boundary(z))
  /\ d.wp <= d.w_ptr
  /\ ~parted => /\ d.wp = d.w_ptr
                /\ zslba(z) <= d.wp /\ d.wp <= zns_zone_wr_boundary(z)
                /\ d.zs = "EMPTY" => d.wp = zslba(z)
                /\ d.zs = "IMPLICITLY_OPEN" => d.wp # zslba(z)

Reporting(Z, s, parted) == \A z \in Z : Reported(z, s.zone[z], z \in parted)

BulkOK == \/ bulk = Idle
          \/ bulk \in [op : ZoneOps, rest : Seq(Zones)] /\ bulk.rest # <<>>

IInv == num_zones \in Nat \ {0} /\ Good(Zones, n) /\ Reporting(Zones, n, spoiled) /\ BulkOK

(* Where zones lie, and the zone of a block.                               *)
LEMMA Blocks ==
  ASSUME NEW z \in Nat
  PROVE  /\ zslba(z) \in Nat /\ zns_zone_wr_boundary(z) \in Nat
         /\ zslba(z) < zns_zone_wr_boundary(z)
<1>1. zslba(z) \in Nat
  BY ZnsAssumption DEF zslba
<1> QED
  BY <1>1, ZnsAssumption DEF zns_zone_wr_boundary

(* Dividing a number below a multiple of m.                                *)
LEMMA Quotient ==
  ASSUME NEW k \in Nat, NEW m \in Nat \ {0}, NEW x \in 0 .. k * m - 1
  PROVE  x \div m \in 0 .. k - 1
<1> DEFINE q == x \div m
<1>1. k * m \in Nat /\ x \in Nat /\ x < k * m
  OBVIOUS
<1>2. q \in Int /\ m * q <= x /\ x < m * q + m
  BY <1>1
<1> HIDE DEF q
<1>3. ASSUME q >= k PROVE FALSE
  <2>1. m * (q - k) \in Nat /\ m * (q - k) = m * q - k * m
    BY <1>2, <1>3
  <2> QED
    BY <1>1, <1>2, <2>1
<1>4. ASSUME q < 0 PROVE FALSE
  <2>1. m * (-1 - q) \in Nat /\ m * (-1 - q) = -m - m * q
    BY <1>2, <1>4
  <2> QED
    BY <1>1, <1>2, <2>1
<1> QED
  BY <1>2, <1>3, <1>4 DEF q

(* zns_zone_idx of a block of the namespace is a zone of it.               *)
LEMMA BlockZone ==
  ASSUME num_zones \in Nat, NEW lba \in 0 .. nsze - 1
  PROVE  zns_zone_idx(lba) \in Zones
<1>1. zone_size \in Nat \ {0}
  BY ZnsAssumption
<1> QED
  BY <1>1, Quotient DEF nsze, zns_zone_idx, Zones

(* Up to four lists of zones, one after the other.                         *)
LEMMA Flattened ==
  ASSUME NEW Z, NEW N \in 1 .. 4, NEW ss \in [1 .. N -> Seq(Z)]
  PROVE  FlattenSeq(ss) \in Seq(Z)
<1> DEFINE R(f) == f = [i \in 1 .. N |-> IF i = 1 THEN ss[i] ELSE f[i - 1] \o ss[i]]
           c    == CHOOSE f : R(f)
           g1   == ss[1]
           g2   == g1 \o ss[2]
           g3   == g2 \o ss[3]
           g4   == g3 \o ss[4]
           g    == [i \in 1 .. N |-> IF i = 1 THEN g1 ELSE IF i = 2 THEN g2
                                     ELSE IF i = 3 THEN g3 ELSE g4]
<1>1. Len(ss) = N /\ N # 0 /\ \A i \in 1 .. N : ss[i] \in Seq(Z)
  OBVIOUS
<1>2. FlattenSeq(ss) = c[N]
  BY <1>1 DEF FlattenSeq
<1>3. R(g)
  <2>1. \A i \in 1 .. N : i = 1 \/ i = 2 \/ i = 3 \/ i = 4
    OBVIOUS
  <2>2. \A i \in 1 .. N : i # 1 => i - 1 \in 1 .. N
    OBVIOUS
  <2> HIDE DEF g1
  <2>3. \A i \in 1 .. N : g[i] = IF i = 1 THEN ss[i] ELSE g[i - 1] \o ss[i]
    BY <2>1, <2>2 DEF g1
  <2> QED
    BY <2>3
<1> HIDE DEF g
<1>4. R(c)
  BY <1>3
<1> HIDE DEF c
<1>5. c[1] \in Seq(Z)
  BY <1>1, <1>4
<1>6. \A i \in 1 .. N : i # 1 => c[i] = c[i - 1] \o ss[i]
  BY <1>4
<1>7. \A i \in 1 .. N : i # 1 /\ c[i - 1] \in Seq(Z) => c[i] \in Seq(Z)
  <2>1. \A a, b \in Seq(Z) : a \o b \in Seq(Z)
    OBVIOUS
  <2> QED
    BY <1>1, <1>6, <2>1
<1>8. N = 1 \/ N = 2 \/ N = 3 \/ N = 4
  OBVIOUS
<1>9. N >= 2 => c[2] \in Seq(Z)
  BY <1>5, <1>7
<1>10. N >= 3 => c[3] \in Seq(Z)
  BY <1>7, <1>9
<1>11. N >= 4 => c[4] \in Seq(Z)
  BY <1>7, <1>10
<1> QED
  BY <1>2, <1>5, <1>8, <1>9, <1>10, <1>11

(* Every zone empty, and nothing counted.                                  *)
LEMMA Initially == Init => IInv
<1> SUFFICES ASSUME Init PROVE IInv
  OBVIOUS
<1>1. PICK ns \in Namespaces :
        n = [num_zones |-> ns[1],
             zone |-> [z \in 0 .. ns[1] - 1 |-> [zs |-> "EMPTY", za |-> FALSE,
                                        wp |-> zslba(z), w_ptr |-> zslba(z)]],
             list |-> [s \in ListStates |-> <<>>],
             max_open |-> ns[2], max_active |-> ns[3],
             nr_open |-> 0, nr_active |-> 0]
  BY DEF Init
<1>2. ns[1] \in Nat \ {0} /\ ns[2] \in Nat /\ ns[3] \in Nat
  BY ZnsAssumption
<1>3. /\ n.num_zones = ns[1] /\ num_zones = ns[1] /\ Zones = 0 .. ns[1] - 1
      /\ n.max_open = ns[2] /\ n.max_active = ns[3]
      /\ n.nr_open = 0 /\ n.nr_active = 0
      /\ n.list = [s \in ListStates |-> <<>>]
      /\ n.zone = [z \in Zones |-> [zs |-> "EMPTY", za |-> FALSE,
                                    wp |-> zslba(z), w_ptr |-> zslba(z)]]
  BY <1>1 DEF num_zones, Zones
<1>4. \A z \in Zones : z \in Nat
  BY <1>2, <1>3
<1>5. n \in Ctrl(Zones)
  <2>1. n.list \in [ListStates -> Seq(Zones)]
    BY <1>3
  <2>2. n.zone \in [Zones -> Zone]
    BY <1>3, <1>4, Blocks DEF Zone, States
  <2>3. n = [num_zones |-> n.num_zones, zone |-> n.zone, list |-> n.list,
             max_open |-> n.max_open, max_active |-> n.max_active,
             nr_open |-> n.nr_open, nr_active |-> n.nr_active]
    BY <1>1
  <2>4. /\ n.num_zones \in Nat /\ n.max_open \in Nat /\ n.max_active \in Nat
        /\ n.nr_open \in Int /\ n.nr_active \in Int
    BY <1>2, <1>3
  <2> QED
    BY <2>1, <2>2, <2>3, <2>4 DEF Ctrl
<1>6. \A z \in Zones : n.zone[z].zs = "EMPTY"
  BY <1>3
<1>7. Exact(Zones, n)
  <2>1. "EMPTY" \notin ListStates
    BY DEF ListStates, ActiveStates, OpenStates
  <2> QED
    BY <1>3, <1>6, <2>1 DEF Exact, ToSet, IsInjective
<1>8. Books(Zones, n, 0, 0)
  <2>1. InState(Zones, n, OpenStates) = {} /\ InState(Zones, n, ActiveStates) = {}
    BY <1>6 DEF InState, OpenStates, ActiveStates
  <2>2. Cardinality(InState(Zones, n, OpenStates)) = 0
    BY <2>1, FS_EmptySet
  <2>3. Cardinality(InState(Zones, n, ActiveStates)) = 0
    BY <2>1, FS_EmptySet
  <2>4. n.nr_open = 0 /\ n.nr_active = 0 /\ 0 + 0 = 0
    BY <1>3
  <2> QED
    BY <2>2, <2>3, <2>4 DEF Books
<1>9. Within(n)
  BY <1>2, <1>3 DEF Within
<1>10. Reporting(Zones, n, spoiled)
  <2> SUFFICES ASSUME NEW z \in Zones PROVE Reported(z, n.zone[z], z \in spoiled)
    BY DEF Reporting
  <2>1. /\ n.zone[z].zs = "EMPTY" /\ n.zone[z].wp = zslba(z)
        /\ n.zone[z].w_ptr = zslba(z)
    BY <1>3
  <2> QED
    BY <1>4, <2>1, Blocks DEF Reported
<1> QED
  BY <1>2, <1>3, <1>5, <1>7, <1>8, <1>9, <1>10 DEF IInv, Good, BulkOK, Init

-----------------------------------------------------------------------------
(* Steps *)

\* From s, with the parted zones p, to t, with q.
Result(Z, s, p, t, q) == Good(Z, t) /\ SameLimits(s, t) /\ Reporting(Z, t, q)

\* A zone the host opened was closed.
Loses(s, t, y) == s.zone[y].zs = "EXPLICITLY_OPEN" /\ t.zone[y].zs = "CLOSED"

(* Where one zone alone changed, the report of that zone is what matters.  *)
LEMMA ReportOfOne ==
  ASSUME NEW Z, NEW s, NEW p, Reporting(Z, s, p), NEW t, NEW q, NEW z \in Z,
         Others(Z, s, t, z), \A y \in Z \ {z} : y \in q <=> y \in p,
         Reported(z, t.zone[z], z \in q)
  PROVE  Reporting(Z, t, q)
<1> SUFFICES ASSUME NEW y \in Z PROVE Reported(y, t.zone[y], y \in q)
  BY DEF Reporting
<1>1. CASE y = z
  BY <1>1
<1>2. CASE y # z
  <2>1. t.zone[y] = s.zone[y] /\ (y \in q) = (y \in p)
    BY <1>2 DEF Others
  <2>2. Reported(y, s.zone[y], y \in p)
    BY DEF Reporting
  <2> QED
    BY <2>1, <2>2
<1> QED
  BY <1>1, <1>2

(* Nothing changed.                                                        *)
LEMMA UnmovedResult ==
  ASSUME NEW Z, NEW s, NEW p, Reporting(Z, s, p), NEW t, Unmoved(Z, s, t)
  PROVE  Result(Z, s, p, t, p) /\ \A y \in Z : ~Loses(s, t, y)
<1>1. Reporting(Z, t, p)
  BY DEF Unmoved, Reporting
<1> QED
  BY <1>1 DEF Unmoved, Result, Loses

(* A zone that is not full was closed, or opened by the host.              *)
LEMMA MovedResult ==
  ASSUME NEW Z, NEW s, NEW p, Reporting(Z, s, p), NEW t, NEW z \in Z,
         NEW st \in {"CLOSED", "EXPLICITLY_OPEN"}, Moved(Z, s, t, z, st),
         s.zone[z].zs # "FULL"
  PROVE  /\ Result(Z, s, p, t, p)
         /\ \A y \in Z : Loses(s, t, y) => y = z /\ st = "CLOSED"
<1>1. Reported(z, t.zone[z], z \in p)
  <2>1. Reported(z, s.zone[z], z \in p)
    BY DEF Reporting
  <2>2. /\ t.zone[z].wp = s.zone[z].wp /\ t.zone[z].w_ptr = s.zone[z].w_ptr
        /\ t.zone[z].zs = st
    BY DEF Moved, SamePointers
  <2> QED
    BY <2>1, <2>2 DEF Reported
<1>2. Others(Z, s, t, z)
  BY DEF Moved
<1>3. Reporting(Z, t, p)
  BY <1>1, <1>2, ReportOfOne
<1> QED
  BY <1>3 DEF Moved, Result, Loses, Others

(* Both pointers of a zone were set, to its start or to its boundary.      *)
LEMMA SetResult ==
  ASSUME NEW Z, NEW s, NEW p, Reporting(Z, s, p), NEW t, NEW z \in Z, z \in Nat,
         NEW st \in {"FULL", "EMPTY"}, NEW lba,
         lba = IF st = "FULL" THEN zns_zone_wr_boundary(z) ELSE zslba(z),
         MovedTo(Z, s, t, z, st, lba, lba)
  PROVE  Result(Z, s, p, t, p \ {z}) /\ \A y \in Z : ~Loses(s, t, y)
<1>1. /\ zslba(z) \in Nat /\ zns_zone_wr_boundary(z) \in Nat
      /\ zslba(z) < zns_zone_wr_boundary(z)
  BY Blocks
<1>2. t.zone[z].wp = lba /\ t.zone[z].w_ptr = lba /\ t.zone[z].zs = st
  BY DEF MovedTo
<1>3. Reported(z, t.zone[z], z \in p \ {z})
  BY <1>1, <1>2 DEF Reported
<1>4. Others(Z, s, t, z)
  BY DEF MovedTo
<1>5. Reporting(Z, t, p \ {z})
  BY <1>3, <1>4, ReportOfOne
<1> QED
  BY <1>5 DEF MovedTo, Result, Loses, Others

\* The parted zones after a handler.
Parted(op, s, z, p) ==
  IF \/ op = "FINISH" /\ s.zone[z].zs # "FULL"
     \/ op = "RESET"  /\ s.zone[z].zs # "EMPTY"
  THEN p \ {z} ELSE p

(* The four handlers, as DoZone calls them.                                *)
LEMMA Handler ==
  ASSUME NEW Z, IsFiniteSet(Z), NEW s, Good(Z, s),
         NEW p, Reporting(Z, s, p), NEW z \in Z, z \in Nat, NEW op \in ZoneOps, NEW q,
         q = Parted(op, s, z, p), NEW t, t = op_hndlr(op, s, z)
  PROVE  /\ Result(Z, s, p, t, q)
         /\ \A y \in Z : Loses(s, t, y) => y = z /\ op = "CLOSE"
<1>1. CASE op = "OPEN"
  <2>1. t = zns_open_zone(s, z) /\ q = p
    BY <1>1 DEF op_hndlr, Parted
  <2>2. \/ Unmoved(Z, s, t)
        \/ Moved(Z, s, t, z, "EXPLICITLY_OPEN") /\ s.zone[z].zs # "FULL"
    BY <2>1, OpenZone
  <2>3. CASE Unmoved(Z, s, t)
    BY <2>1, <2>3, UnmovedResult
  <2>4. CASE Moved(Z, s, t, z, "EXPLICITLY_OPEN") /\ s.zone[z].zs # "FULL"
    <3>1. /\ Result(Z, s, p, t, p)
          /\ \A y \in Z : Loses(s, t, y) => y = z /\ "EXPLICITLY_OPEN" = "CLOSED"
      BY <2>4, MovedResult
    <3> QED
      BY <2>1, <3>1
  <2> QED
    BY <2>2, <2>3, <2>4
<1>2. CASE op = "CLOSE"
  <2>1. t = zns_close_zone(s, z) /\ q = p
    BY <1>2 DEF op_hndlr, Parted
  <2>2. \/ Unmoved(Z, s, t)
        \/ Moved(Z, s, t, z, "CLOSED") /\ s.zone[z].zs # "FULL"
    BY <2>1, CloseZone DEF OpenStates
  <2>3. CASE Unmoved(Z, s, t)
    BY <2>1, <2>3, UnmovedResult
  <2>4. CASE Moved(Z, s, t, z, "CLOSED") /\ s.zone[z].zs # "FULL"
    <3>1. /\ Result(Z, s, p, t, p)
          /\ \A y \in Z : Loses(s, t, y) => y = z /\ "CLOSED" = "CLOSED"
      BY <2>4, MovedResult
    <3> QED
      BY <1>2, <2>1, <3>1
  <2> QED
    BY <2>2, <2>3, <2>4
<1>3. CASE op = "FINISH"
  <2> DEFINE b == zns_zone_wr_boundary(z)
  <2>1. t = zns_finish_zone(s, z) /\ b \in Nat
    BY <1>3, Blocks DEF op_hndlr, Parted
  <2>2. CASE s.zone[z].zs = "FULL"
    <3>1. Unmoved(Z, s, t) /\ q = p
      BY <1>3, <2>1, <2>2, FinishZone DEF Parted
    <3> QED
      BY <3>1, UnmovedResult
  <2>3. CASE s.zone[z].zs # "FULL"
    <3>1. MovedTo(Z, s, t, z, "FULL", b, b) /\ q = p \ {z}
      BY <1>3, <2>1, <2>3, FinishZone DEF Parted
    <3> HIDE DEF b
    <3>2. z \in Nat /\ b = IF "FULL" = "FULL" THEN zns_zone_wr_boundary(z) ELSE zslba(z)
      BY DEF b
    <3>3. Result(Z, s, p, t, p \ {z}) /\ \A y \in Z : ~Loses(s, t, y)
      BY <3>1, <3>2, SetResult
    <3> QED
      BY <3>1, <3>3
  <2> QED
    BY <2>2, <2>3
<1>4. CASE op = "RESET"
  <2> DEFINE b == zslba(z)
  <2>1. t = zns_reset_zone(s, z) /\ b \in Nat
    BY <1>4, Blocks DEF op_hndlr, Parted
  <2>2. CASE s.zone[z].zs = "EMPTY"
    <3>1. Unmoved(Z, s, t) /\ q = p
      BY <1>4, <2>1, <2>2, ResetZone DEF Parted
    <3> QED
      BY <3>1, UnmovedResult
  <2>3. CASE s.zone[z].zs # "EMPTY"
    <3>1. MovedTo(Z, s, t, z, "EMPTY", b, b) /\ q = p \ {z}
      BY <1>4, <2>1, <2>3, ResetZone DEF Parted
    <3> HIDE DEF b
    <3>2. z \in Nat /\ b = IF "EMPTY" = "FULL" THEN zns_zone_wr_boundary(z) ELSE zslba(z)
      BY DEF b
    <3>3. Result(Z, s, p, t, p \ {z}) /\ \A y \in Z : ~Loses(s, t, y)
      BY <3>1, <3>2, SetResult
    <3> QED
      BY <3>1, <3>3
  <2> QED
    BY <2>2, <2>3
<1> QED
  BY <1>1, <1>2, <1>3, <1>4 DEF ZoneOps

(* Room made by closing an implicitly open zone.                           *)
LEMMA RoomMade ==
  ASSUME NEW Z, IsFiniteSet(Z), NEW s, Good(Z, s), NEW p, Reporting(Z, s, p)
  PROVE  LET t == zns_auto_transition_zone(s)
         IN  /\ Result(Z, s, p, t, p) /\ \A y \in Z : ~Loses(s, t, y)
             /\ \A y \in Z : s.zone[y].zs # "IMPLICITLY_OPEN" => t.zone[y] = s.zone[y]
<1> DEFINE t == zns_auto_transition_zone(s)
<1>1. \/ t = s
      \/ \E h \in Z : s.zone[h].zs = "IMPLICITLY_OPEN" /\ Moved(Z, s, t, h, "CLOSED")
  BY AutoTransition
<1> HIDE DEF t
<1>2. CASE t = s
  BY <1>2 DEF Result, SameLimits, Loses, t
<1>3. CASE \E h \in Z : s.zone[h].zs = "IMPLICITLY_OPEN" /\ Moved(Z, s, t, h, "CLOSED")
  <2>1. PICK h \in Z : s.zone[h].zs = "IMPLICITLY_OPEN" /\ Moved(Z, s, t, h, "CLOSED")
    BY <1>3
  <2>2. /\ Result(Z, s, p, t, p)
        /\ \A y \in Z : Loses(s, t, y) => y = h /\ "CLOSED" = "CLOSED"
    BY <2>1, MovedResult
  <2>3. Others(Z, s, t, h)
    BY <2>1 DEF Moved
  <2> QED
    BY <2>1, <2>2, <2>3 DEF Loses, Others, t
<1> QED
  BY <1>1, <1>2, <1>3

(* A write that its mapping lets through, or not.                          *)
LEMMA Written ==
  ASSUME NEW Z, IsFiniteSet(Z), NEW s, Good(Z, s), NEW p, Reporting(Z, s, p),
         NEW z \in Z, z \in Nat, NEW nlb \in Nat \ {0}, s.zone[z].zs # "FULL",
         s.zone[z].zs \in {"EMPTY", "CLOSED"} =>
           zns_aor_check(s, IF s.zone[z].zs = "EMPTY" THEN 1 ELSE 0, 1),
         NEW mapped, NEW a, a = zns_advance_zone_wp(s, z, nlb), NEW t,
         t = IF mapped THEN zns_finalize_zoned_write(a, z, nlb) ELSE a, NEW q,
         q = IF ~mapped \/ a.zone[z].w_ptr > zns_zone_wr_boundary(z)
             THEN p \cup {z} ELSE p
  PROVE  Result(Z, s, p, t, q) /\ \A y \in Z : ~Loses(s, t, y)
<1> DEFINE w == s.zone[z].w_ptr + nlb
           v == s.zone[z].wp + nlb
           x == IF w < zns_zone_wr_boundary(z) /\ s.zone[z].zs \in {"EMPTY", "CLOSED"}
                THEN "IMPLICITLY_OPEN" ELSE s.zone[z].zs
           f == IF v = zns_zone_wr_boundary(z) THEN "FULL" ELSE x
<1>1. MovedTo(Z, s, a, z, x, s.zone[z].wp, w)
  BY AdvanceWp
<1>2. /\ Good(Z, a) /\ SameLimits(s, a) /\ Others(Z, s, a, z)
      /\ a.zone[z].zs = x /\ a.zone[z].wp = s.zone[z].wp /\ a.zone[z].w_ptr = w
      /\ a.zone[z].zs # "FULL"
  BY <1>1 DEF MovedTo
<1>3. Reported(z, s.zone[z], z \in p)
  BY DEF Reporting
<1>4. /\ s.zone[z].wp \in Nat /\ s.zone[z].w_ptr \in Nat
      /\ s.zone[z].zs \in {"EMPTY", "CLOSED", "IMPLICITLY_OPEN", "EXPLICITLY_OPEN"}
  BY DEF Good, Ctrl, Zone, States, ListStates, ActiveStates, OpenStates
<1>5. /\ zslba(z) \in Nat /\ zns_zone_wr_boundary(z) \in Nat
      /\ zslba(z) < zns_zone_wr_boundary(z)
  BY Blocks
<1>6. \A y \in Z \ {z} : y \in q <=> y \in p
  OBVIOUS
<1>7. CASE ~mapped
  <2>1. t = a /\ z \in q
    BY <1>7
  <2>2. Reported(z, t.zone[z], z \in q)
    BY <1>2, <1>3, <1>4, <1>5, <2>1 DEF Reported
  <2>3. Reporting(Z, t, q)
    BY <1>2, <1>6, <2>1, <2>2, ReportOfOne
  <2> QED
    BY <1>2, <1>4, <2>1, <2>3 DEF Result, Loses, Others
<1>8. CASE mapped
  <2>1. t = zns_finalize_zoned_write(a, z, nlb)
    BY <1>8
  <2>2. MovedTo(Z, a, t, z, f, v, w)
    BY <1>2, <2>1, FinalizeWrite
  <2>3. /\ Good(Z, t) /\ SameLimits(a, t) /\ Others(Z, a, t, z)
        /\ t.zone[z].zs = f /\ t.zone[z].wp = v /\ t.zone[z].w_ptr = w
    BY <2>2 DEF MovedTo
  <2>4. SameLimits(s, t) /\ Others(Z, s, t, z)
    BY <1>2, <2>3 DEF SameLimits, Others
  <2>5. (z \in q) = (z \in p \/ w > zns_zone_wr_boundary(z))
    BY <1>2, <1>8
  <2>6. Reported(z, t.zone[z], z \in q)
    <3>1. (f = "FULL") <=> (v = zns_zone_wr_boundary(z))
      BY <1>2
    <3>2. v <= w
      BY <1>3, <1>4 DEF Reported
    <3>3. ASSUME z \notin q
          PROVE  /\ v = w /\ zslba(z) <= v /\ v <= zns_zone_wr_boundary(z)
                 /\ f = "EMPTY" => v = zslba(z)
                 /\ f = "IMPLICITLY_OPEN" => v # zslba(z)
      <4>1. z \notin p /\ w <= zns_zone_wr_boundary(z)
        BY <1>4, <1>5, <2>5, <3>3
      <4>2. s.zone[z].wp = s.zone[z].w_ptr /\ zslba(z) <= s.zone[z].wp
        BY <1>3, <4>1 DEF Reported
      <4>3. v = w /\ zslba(z) <= v /\ v # zslba(z)
        BY <1>4, <1>5, <4>2
      <4>4. f # "EMPTY"
        BY <1>4, <1>5, <4>1, <4>3
      <4> QED
        BY <4>1, <4>3, <4>4
    <3> HIDE DEF f, v, w
    <3> QED
      BY <2>3, <3>1, <3>2, <3>3 DEF Reported
  <2>7. Reporting(Z, t, q)
    BY <1>6, <2>4, <2>6, ReportOfOne
  <2>8. f # "CLOSED" \/ s.zone[z].zs = "CLOSED"
    BY <1>4
  <2> QED
    BY <2>3, <2>4, <2>7, <2>8 DEF Result, Loses, Others
<1> QED
  BY <1>7, <1>8

(* From the state of the zones to the invariant of the next state.         *)
LEMMA ResultKeeps ==
  ASSUME IInv, Result(Zones, n, spoiled, n', spoiled'), BulkOK'
  PROVE  IInv'
<1>1. n'.num_zones = n.num_zones
  BY DEF Result, SameLimits
<1>2. num_zones' = num_zones /\ Zones' = Zones
  BY <1>1 DEF num_zones, Zones
<1>3. Good(Zones', n') /\ Reporting(Zones', n', spoiled')
  BY <1>2 DEF Result
<1>4. (num_zones \in Nat \ {0})'
  BY <1>2 DEF IInv
<1> QED
  BY <1>3, <1>4 DEF IInv

(* The zones the invariant speaks of.                                      *)
LEMMA Facts ==
  ASSUME IInv
  PROVE  /\ IsFiniteSet(Zones) /\ Zones \subseteq Nat /\ Good(Zones, n)
         /\ Reporting(Zones, n, spoiled) /\ num_zones \in Nat
<1>1. num_zones \in Nat /\ 0 \in Int /\ num_zones - 1 \in Int
  BY DEF IInv
<1>2. IsFiniteSet(0 .. num_zones - 1)
  BY <1>1, FS_Interval
<1> QED
  BY <1>1, <1>2 DEF IInv, Zones

(* A step that leaves the walk alone.                                      *)
LEMMA SameBulk == ASSUME IInv, Result(Zones, n, spoiled, n', spoiled'), UNCHANGED bulk
                  PROVE  BulkOK'
<1>1. Zones' = Zones
  BY DEF Result, SameLimits, num_zones, Zones
<1> QED
  BY <1>1 DEF IInv, BulkOK

-----------------------------------------------------------------------------
(* The actions *)

NoneLost == \A y \in Zones : ~Loses(n, n', y)

(* A write or an append, after its checks.                                 *)
LEMMA WriteKeeps ==
  ASSUME IInv, NEW z \in Zones, NEW nlb \in Nat \ {0}, NEW mapped \in BOOLEAN,
         n.zone[z].zs # "FULL", WriteZone(z, nlb, mapped), UNCHANGED bulk
  PROVE  IInv' /\ NoneLost
<1>1. /\ IsFiniteSet(Zones) /\ z \in Nat /\ Good(Zones, n)
      /\ Reporting(Zones, n, spoiled)
  BY Facts
<1> DEFINE s == AutoOpened(z)
           a == zns_advance_zone_wp(s, z, nlb)
<1>2. /\ Good(Zones, s) /\ SameLimits(n, s) /\ Reporting(Zones, s, spoiled)
      /\ \A y \in Zones : ~Loses(n, s, y)
      /\ s.zone[z] = n.zone[z]
      /\ \A y \in Zones : n.zone[y].zs = "EXPLICITLY_OPEN" => s.zone[y].zs = "EXPLICITLY_OPEN"
  <2>1. CASE NeedsOpen(z)
    <3>1. s = zns_auto_transition_zone(n)
      BY <2>1 DEF AutoOpened
    <3>2. /\ Result(Zones, n, spoiled, s, spoiled) /\ \A y \in Zones : ~Loses(n, s, y)
          /\ \A y \in Zones : n.zone[y].zs # "IMPLICITLY_OPEN" => s.zone[y] = n.zone[y]
      BY <1>1, <3>1, RoomMade
    <3>3. n.zone[z].zs # "IMPLICITLY_OPEN"
      BY <2>1 DEF NeedsOpen
    <3> HIDE DEF s
    <3> QED
      BY <3>2, <3>3 DEF Result
  <2>2. CASE ~NeedsOpen(z)
    BY <1>1, <2>2 DEF AutoOpened, SameLimits, Loses
  <2> QED
    BY <2>1, <2>2
<1>3. CASE ~zns_auto_open_zone(z)
  <2>1. n' = s /\ spoiled' = spoiled
    BY <1>3 DEF WriteZone
  <2>2. Result(Zones, n, spoiled, n', spoiled')
    BY <1>2, <2>1 DEF Result
  <2> QED
    BY <1>2, <2>1, <2>2, ResultKeeps, SameBulk DEF NoneLost
<1>4. CASE zns_auto_open_zone(z)
  <2>1. /\ n' = IF mapped THEN zns_finalize_zoned_write(a, z, nlb) ELSE a
        /\ spoiled' = IF ~mapped \/ a.zone[z].w_ptr > zns_zone_wr_boundary(z)
                      THEN spoiled \cup {z} ELSE spoiled
    BY <1>4 DEF WriteZone
  <2>2. /\ s.zone[z].zs # "FULL"
        /\ s.zone[z].zs \in {"EMPTY", "CLOSED"} =>
             zns_aor_check(s, IF s.zone[z].zs = "EMPTY" THEN 1 ELSE 0, 1)
    BY <1>2, <1>4 DEF zns_auto_open_zone, NeedsOpen
  <2> HIDE DEF s
  <2>3. PICK m, u, t, q : m = mapped /\ u = a /\ t = n' /\ q = spoiled'
    OBVIOUS
  <2>4. Result(Zones, s, spoiled, t, q) /\ \A y \in Zones : ~Loses(s, t, y)
    <3> HIDE DEF a
    <3>1. u = zns_advance_zone_wp(s, z, nlb)
      BY <2>3 DEF a
    <3>2. t = IF m THEN zns_finalize_zoned_write(u, z, nlb) ELSE u
      BY <2>1, <2>3
    <3>3. q = IF ~m \/ u.zone[z].w_ptr > zns_zone_wr_boundary(z)
              THEN spoiled \cup {z} ELSE spoiled
      BY <2>1, <2>3
    <3> QED
      BY <1>1, <1>2, <2>2, <3>1, <3>2, <3>3, Written
  <2>5. Result(Zones, n, spoiled, n', spoiled')
    BY <1>2, <2>3, <2>4 DEF Result, SameLimits
  <2>6. NoneLost
    BY <1>2, <2>3, <2>4 DEF NoneLost, Loses
  <2> QED
    BY <2>5, <2>6, ResultKeeps, SameBulk
<1> QED
  BY <1>3, <1>4

(* Write and Append of any block.                                          *)
LEMMA WritesKeep ==
  ASSUME IInv, NEW lba \in 0 .. nsze - 1, NEW nlb \in 1 .. MaxNlb,
         NEW mapped \in BOOLEAN,
         zns_write(lba, nlb, mapped) \/ zns_zone_append(lba, nlb, mapped)
  PROVE  IInv' /\ NoneLost
<1> DEFINE z == zns_zone_idx(lba)
<1>1. z \in Zones
  BY Facts, BlockZone
<1>2. nlb \in Nat \ {0}
  BY ZnsAssumption
<1>3. n.zone[z].zs # "FULL" /\ WriteZone(z, nlb, mapped) /\ UNCHANGED bulk
  BY DEF zns_write, zns_zone_append, zns_check_zone_write
<1> HIDE DEF z
<1> QED
  BY <1>1, <1>2, <1>3, WriteKeeps

(* One handler, in a command of its own or in a walk.                      *)
LEMMA DoZoneKeeps ==
  ASSUME IInv, NEW op \in ZoneOps, NEW z \in Zones, DoZone(op, z)
  PROVE  /\ Result(Zones, n, spoiled, n', spoiled')
         /\ \A y \in Zones : Loses(n, n', y) => y = z /\ op = "CLOSE"
<1>1. /\ IsFiniteSet(Zones) /\ z \in Nat /\ Good(Zones, n)
      /\ Reporting(Zones, n, spoiled)
  BY Facts
<1>2. PICK t, q : t = n' /\ q = spoiled'
  OBVIOUS
<1>3. t = op_hndlr(op, n, z) /\ q = Parted(op, n, z, spoiled)
  BY <1>2 DEF DoZone, Parted
<1>4. /\ Result(Zones, n, spoiled, t, q)
      /\ \A y \in Zones : Loses(n, t, y) => y = z /\ op = "CLOSE"
  BY <1>1, <1>3, Handler
<1> QED
  BY <1>2, <1>3, <1>4

(* Set Zone Descriptor Extension of one zone.                              *)
LEMMA SetZdExtKeeps ==
  ASSUME IInv, NEW z \in Zones, SetZdExt(z) PROVE IInv' /\ NoneLost
<1>1. /\ IsFiniteSet(Zones) /\ Good(Zones, n) /\ Reporting(Zones, n, spoiled)
  BY Facts
<1>2. n' = zns_set_zd_ext(n, z) /\ spoiled' = spoiled /\ UNCHANGED bulk
  BY DEF SetZdExt
<1>3. PICK t : t = n'
  OBVIOUS
<1>4. Unmoved(Zones, n, t) \/ (Moved(Zones, n, t, z, "CLOSED") /\ n.zone[z].zs = "EMPTY")
  BY <1>1, <1>2, <1>3, SetExtension
<1>5. Result(Zones, n, spoiled, t, spoiled) /\ \A y \in Zones : ~Loses(n, t, y)
  <2>1. CASE Unmoved(Zones, n, t)
    BY <1>1, <2>1, UnmovedResult
  <2>2. CASE Moved(Zones, n, t, z, "CLOSED") /\ n.zone[z].zs = "EMPTY"
    <3>1. /\ Result(Zones, n, spoiled, t, spoiled)
          /\ \A y \in Zones : Loses(n, t, y) => y = z /\ "CLOSED" = "CLOSED"
      BY <1>1, <2>2, MovedResult
    <3> QED
      BY <2>2, <3>1 DEF Loses
  <2> QED
    BY <1>4, <2>1, <2>2
<1> QED
  BY <1>2, <1>3, <1>5, ResultKeeps, SameBulk DEF NoneLost

(* The walk of Select All starts with zones of the namespace.              *)
LEMMA SendAllKeeps ==
  ASSUME IInv, NEW op \in ZoneOps, ZoneSendAll(op) PROVE IInv' /\ NoneLost
<1> DEFINE ss == [i \in DOMAIN proc_mask(op) |-> n.list[proc_mask(op)[i]]]
<1>1. /\ FlattenSeq(ss) # <<>> /\ bulk' = [op |-> op, rest |-> FlattenSeq(ss)]
      /\ UNCHANGED <<n, spoiled>>
  BY DEF ZoneSendAll
<1>2. \E N \in 1 .. 4 : ss \in [1 .. N -> Seq(Zones)]
  <2>1. \E N \in 1 .. 4 : /\ DOMAIN proc_mask(op) = 1 .. N
                          /\ \A i \in 1 .. N : proc_mask(op)[i] \in ListStates
    BY DEF proc_mask, ZoneOps, ListStates, ActiveStates, OpenStates
  <2>2. n.list \in [ListStates -> Seq(Zones)]
    BY Facts DEF Good, Ctrl
  <2> QED
    BY <2>1, <2>2
<1> HIDE DEF ss
<1>3. FlattenSeq(ss) \in Seq(Zones)
  BY <1>2, Flattened
<1>4. Zones' = Zones
  BY <1>1 DEF Zones, num_zones
<1>5. BulkOK'
  BY <1>1, <1>3, <1>4 DEF BulkOK
<1>6. Result(Zones, n, spoiled, n', spoiled') /\ NoneLost
  BY <1>1, Facts DEF Result, SameLimits, NoneLost, Loses
<1> QED
  BY <1>5, <1>6, ResultKeeps

(* An iteration of the walk.                                               *)
LEMMA WalkKeeps ==
  ASSUME IInv, zns_bulk_proc_zone
  PROVE  IInv' /\ (NoneLost \/ bulk.op = "CLOSE")
<1> DEFINE z == Head(bulk.rest)
<1>1. /\ bulk \in [op : ZoneOps, rest : Seq(Zones)] /\ bulk.rest # <<>>
      /\ DoZone(bulk.op, z)
      /\ bulk' = Idle \/ (Len(bulk.rest) # 1 /\ bulk' = [bulk EXCEPT !.rest = Tail(@)])
  BY DEF zns_bulk_proc_zone, IInv, BulkOK
<1>2. z \in Zones
  BY <1>1
<1> HIDE DEF z
<1>3. /\ Result(Zones, n, spoiled, n', spoiled')
      /\ \A y \in Zones : Loses(n, n', y) => y = z /\ bulk.op = "CLOSE"
  BY <1>1, <1>2, DoZoneKeeps
<1>4. Zones' = Zones
  BY <1>3 DEF Result, SameLimits, Zones, num_zones
<1>5. BulkOK'
  <2>1. ASSUME Len(bulk.rest) # 1
        PROVE  Tail(bulk.rest) \in Seq(Zones) /\ Tail(bulk.rest) # <<>>
    <3>1. Len(bulk.rest) \in Nat /\ Len(bulk.rest) # 0 /\ Len(<<>>) = 0
      BY <1>1
    <3>2. Len(Tail(bulk.rest)) = Len(bulk.rest) - 1 /\ Tail(bulk.rest) \in Seq(Zones)
      BY <1>1
    <3>3. Len(Tail(bulk.rest)) # Len(<<>>)
      BY <2>1, <3>1, <3>2
    <3> QED
      BY <3>2, <3>3
  <2> QED
    BY <1>1, <1>4, <2>1 DEF BulkOK
<1> QED
  BY <1>3, <1>5, ResultKeeps DEF NoneLost

-----------------------------------------------------------------------------
(* What holds always *)

(* A step keeps the invariant, and only Close closes a zone the host has   *)
(* opened.                                                                 *)
LEMMA Steps ==
  ASSUME IInv, [Next]_vars
  PROVE  /\ IInv'
         /\ \A z \in Zones :
              n.zone[z].zs = "EXPLICITLY_OPEN" /\ n'.zone[z].zs = "CLOSED" =>
                \/ ZoneSend("CLOSE", z)
                \/ bulk.op = "CLOSE" /\ zns_bulk_proc_zone
<1> DEFINE Lost(z) == n.zone[z].zs = "EXPLICITLY_OPEN" /\ n'.zone[z].zs = "CLOSED"
           Asked(z) == \/ ZoneSend("CLOSE", z)
                       \/ bulk.op = "CLOSE" /\ zns_bulk_proc_zone
<1>1. NoneLost => \A z \in Zones : Lost(z) => Asked(z)
  BY DEF NoneLost, Loses
<1>2. ASSUME NEW lba \in 0 .. nsze - 1, NEW nlb \in 1 .. MaxNlb, NEW mapped \in BOOLEAN,
             zns_write(lba, nlb, mapped) \/ zns_zone_append(lba, nlb, mapped)
      PROVE  IInv' /\ \A z \in Zones : Lost(z) => Asked(z)
  BY <1>1, <1>2, WritesKeep
<1>3. ASSUME NEW y \in Zones, NEW op \in ZoneOps, ZoneSend(op, y)
      PROVE  IInv' /\ \A z \in Zones : Lost(z) => Asked(z)
  <2>1. DoZone(op, y) /\ UNCHANGED bulk
    BY <1>3 DEF ZoneSend
  <2>2. /\ Result(Zones, n, spoiled, n', spoiled')
        /\ \A z \in Zones : Loses(n, n', z) => z = y /\ op = "CLOSE"
    BY <2>1, DoZoneKeeps
  <2> QED
    BY <1>3, <2>1, <2>2, ResultKeeps, SameBulk DEF Loses
<1>4. ASSUME NEW y \in Zones, SetZdExt(y)
      PROVE  IInv' /\ \A z \in Zones : Lost(z) => Asked(z)
  BY <1>1, <1>4, SetZdExtKeeps
<1>5. ASSUME NEW op \in ZoneOps, ZoneSendAll(op)
      PROVE  IInv' /\ \A z \in Zones : Lost(z) => Asked(z)
  BY <1>1, <1>5, SendAllKeeps
<1>6. ASSUME zns_bulk_proc_zone
      PROVE  IInv' /\ \A z \in Zones : Lost(z) => Asked(z)
  BY <1>1, <1>6, WalkKeeps
<1>7. ASSUME UNCHANGED vars
      PROVE  IInv' /\ \A z \in Zones : Lost(z) => Asked(z)
  <2>1. n' = n /\ spoiled' = spoiled /\ bulk' = bulk
    BY <1>7 DEF vars
  <2>2. Result(Zones, n, spoiled, n', spoiled') /\ NoneLost
    BY <2>1, Facts DEF Result, SameLimits, NoneLost, Loses
  <2> QED
    BY <1>1, <2>1, <2>2, ResultKeeps, SameBulk
<1> HIDE DEF Lost, Asked
<1>8. IInv' /\ \A z \in Zones : Lost(z) => Asked(z)
  BY <1>2, <1>3, <1>4, <1>5, <1>6, <1>7 DEF Next
<1> QED
  BY <1>8 DEF Lost, Asked

(* Zone states, lists, counts, and pointers stay in step.                  *)
THEOREM Invariance == Spec => []IInv
<1>1. IInv /\ [Next]_vars => IInv'
  BY Steps
<1> QED
  BY Initially, <1>1, PTL DEF Spec

(* Every list holds the zones in its state, each once: after any command,  *)
(* and between two iterations of a command over all zones.                 *)
THEOREM ZoneListsAlwaysExact == Spec => []ZoneListsExact
<1>1. IInv => ZoneListsExact
  BY DEF IInv, Good, Exact, ZoneListsExact
<1> QED
  BY <1>1, Invariance, PTL

(* The counts of open and active zones are true and within their limits,   *)
(* whatever was refused or failed half way: the assertions of the counting *)
(* functions hold.                                                         *)
THEOREM ResourcesAlwaysExact == Spec => []ResourcesExact
<1>1. ASSUME IInv PROVE ResourcesExact
  <2>1. /\ Count(OpenStates) = Cardinality(InState(Zones, n, OpenStates))
        /\ Count(ActiveStates) = Cardinality(InState(Zones, n, ActiveStates))
    BY DEF Count, InState
  <2>2. IsFiniteSet(Zones) /\ Books(Zones, n, 0, 0) /\ Within(n)
    BY <1>1, Facts DEF Good
  <2>3. ASSUME NEW S PROVE Cardinality(InState(Zones, n, S)) + 0
                             = Cardinality(InState(Zones, n, S))
    <3>1. Cardinality(InState(Zones, n, S)) \in Nat
      BY <2>2, FS_Subset, FS_CardinalityType DEF InState
    <3> QED
      BY <3>1
  <2> QED
    BY <2>1, <2>2, <2>3 DEF Books, Within, ResourcesExact
<1> QED
  BY <1>1, Invariance, PTL

(* A write that finds no open resource, after zns_auto_transition_zone has *)
(* tried to make room, finds every open zone opened by the host.           *)
THEOREM RefusedAlwaysByExplicit == Spec => []RefusedOnlyByExplicit
<1>1. ASSUME IInv PROVE RefusedOnlyByExplicit
  <2> DEFINE s == zns_auto_transition_zone(n)
             l == n.list["IMPLICITLY_OPEN"]
             o == zns_aor_dec_open(n)
             t == zns_assign_zone_state(o, Head(l), "CLOSED")
  <2> SUFFICES ASSUME s.max_open # 0, s.nr_open + 1 > s.max_open
               PROVE  Count({"EXPLICITLY_OPEN"}) = n.max_open
    BY DEF RefusedOnlyByExplicit
  <2>1. /\ n \in Ctrl(Zones) /\ Exact(Zones, n) /\ Books(Zones, n, 0, 0)
        /\ Within(n) /\ IsFiniteSet(Zones)
    BY <1>1, Facts DEF Good
  <2>2. n.nr_open \in Int /\ n.max_open \in Nat
    BY <2>1 DEF Ctrl
  <2>3. /\ l \in Seq(Zones)
        /\ ToSet(l) = {z \in Zones : n.zone[z].zs = "IMPLICITLY_OPEN"}
    BY <2>1 DEF Ctrl, Exact, ListStates, ActiveStates, OpenStates
  <2>4. ASSUME n.max_open # 0, n.nr_open = n.max_open, l # <<>> PROVE FALSE
    <3>1. s = t
      BY <2>4 DEF zns_auto_transition_zone
    <3>2. PICK h : h = Head(l)
      OBVIOUS
    <3>3. h \in Zones
      BY <2>3, <2>4, <3>2
    <3>4. Kept(Zones, n, o, h) /\ Shift(n, o, -1, 0)
      BY <2>1, <3>3, CountOpen
    <3> HIDE DEF o
    <3>5. o \in Ctrl(Zones) /\ Exact(Zones, o)
      <4>1. \A y \in Zones : o.zone[y].zs = n.zone[y].zs
        BY <3>4 DEF Kept, Others
      <4> QED
        BY <2>1, <3>4, <4>1 DEF Kept, Exact
    <3>6. "CLOSED" \in States
      BY DEF States, ListStates, ActiveStates
    <3>7. Assigned(Zones, o, t, h, "CLOSED")
      BY <3>2, <3>3, <3>5, <3>6, AssignState
    <3> HIDE DEF t
    <3>8. t.nr_open = n.nr_open - 1 /\ t.max_open = n.max_open
      BY <2>2, <2>4, <3>4, <3>7 DEF Assigned, SameCounts, SameLimits, Kept, Shift
    <3> QED
      BY <2>2, <2>4, <3>1, <3>8
  <2>5. s = n
    BY <2>4 DEF zns_auto_transition_zone
  <2>6. n.max_open # 0 /\ n.nr_open = n.max_open
    BY <2>1, <2>2, <2>5 DEF Within
  <2>7. l = <<>>
    BY <2>4, <2>6
  <2>8. InState(Zones, n, OpenStates) = InState(Zones, n, {"EXPLICITLY_OPEN"})
    BY <2>3, <2>7 DEF InState, OpenStates, ToSet
  <2>9. Cardinality(InState(Zones, n, OpenStates)) \in Nat
    BY <2>1, FS_Subset, FS_CardinalityType DEF InState
  <2>10. n.nr_open = Cardinality(InState(Zones, n, OpenStates))
    BY <2>1, <2>6, <2>9 DEF Books
  <2> QED
    BY <2>6, <2>8, <2>10 DEF Count, InState
<1> QED
  BY <1>1, Invariance, PTL

(* What the device reports of a zone is what it acts on, until a mapping   *)
(* fails or an append passes the capacity.                                 *)
THEOREM ReportsAlwaysTrue == Spec => []ReportedIsTrue
<1>1. ASSUME IInv PROVE ReportedIsTrue
  <2> SUFFICES ASSUME NEW z \in Zones
               PROVE  /\ (n.zone[z].zs = "FULL") <=> (n.zone[z].wp = zns_zone_wr_boundary(z))
                      /\ n.zone[z].wp <= n.zone[z].w_ptr
                      /\ z \notin spoiled =>
                           /\ n.zone[z].wp = n.zone[z].w_ptr /\ zslba(z) <= n.zone[z].wp
                           /\ n.zone[z].zs = "EMPTY" => n.zone[z].wp = zslba(z)
                           /\ n.zone[z].zs = "IMPLICITLY_OPEN" => n.zone[z].wp # zslba(z)
                           /\ n.zone[z].zs # "FULL" =>
                                zns_check_zone_write(z, n.zone[z].wp, 1, FALSE)
    BY DEF ReportedIsTrue
  <2>1. /\ z \in Nat /\ n.zone[z].wp \in Nat /\ Reported(z, n.zone[z], z \in spoiled)
    BY <1>1, Facts DEF Good, Ctrl, Zone, Reporting
  <2>2. zns_zone_wr_boundary(z) \in Nat
    BY <2>1, Blocks
  <2>3. ASSUME z \notin spoiled, n.zone[z].zs # "FULL"
        PROVE  zns_check_zone_write(z, n.zone[z].wp, 1, FALSE)
    BY <2>1, <2>2, <2>3 DEF Reported, zns_check_zone_write
  <2> QED
    BY <2>1, <2>3 DEF Reported
<1> QED
  BY <1>1, Invariance, PTL

(* No write takes the open resource of a zone that the host has opened.    *)
THEOREM ExplicitAlwaysKept == Spec => ExplicitOpenKept
<1>1. IInv /\ [Next]_vars =>
        [\A z \in Zones :
           n.zone[z].zs = "EXPLICITLY_OPEN" /\ n'.zone[z].zs = "CLOSED" =>
             \/ ZoneSend("CLOSE", z)
             \/ bulk.op = "CLOSE" /\ zns_bulk_proc_zone]_vars
  BY Steps
<1> QED
  BY <1>1, Invariance, PTL DEF Spec, ExplicitOpenKept

-----------------------------------------------------------------------------
(* The zone report *)

(* Every set of natural numbers has a least one: the intervals 1 .. x for  *)
(* its members x have a smallest.                                          *)
LEMMA LeastNat ==
  ASSUME NEW T, T \subseteq Nat, T # {}
  PROVE  \E x \in T : \A y \in T : x <= y
<1> DEFINE I == {1 .. x : x \in T}
<1>1. I \subseteq FiniteSubsetsOf(Nat) /\ I # {}
  <2>1. ASSUME NEW x \in T PROVE 1 .. x \in FiniteSubsetsOf(Nat)
    <3>1. x \in Int /\ 1 \in Int
      OBVIOUS
    <3>2. IsFiniteSet(1 .. x)
      BY <3>1, FS_Interval
    <3>3. 1 .. x \subseteq Nat
      BY <3>1
    <3> QED
      BY <3>2, <3>3 DEF FiniteSubsetsOf
  <2> QED
    BY <2>1
<1>2. PICK m \in I : \A y \in I : y \subseteq m => y = m
  <2> HIDE DEF I
  <2>1. \E x \in I : \A y \in I : <<y, x>> \notin StrictSubsetOrdering(Nat)
    BY <1>1, FS_StrictSubsetOrderingWellFounded, WFMin
  <2>2. \A x, y \in I : x \in SUBSET Nat /\ y \in SUBSET Nat
    BY <1>1 DEF FiniteSubsetsOf
  <2> QED
    BY <2>1, <2>2 DEF StrictSubsetOrdering
<1>3. PICK x \in T : m = 1 .. x
  OBVIOUS
<1>4. \A y \in T : x <= y
  <2> SUFFICES ASSUME NEW y \in T, y < x PROVE FALSE
    BY SMT
  <2>1. x \in Nat /\ y \in Nat
    OBVIOUS
  <2>2. 1 .. y \subseteq 1 .. x
    BY <2>1
  <2>3. 1 .. y = 1 .. x
    BY <1>2, <1>3, <2>2, Zenon
  <2>4. x \in 1 .. x /\ x \notin 1 .. y
    BY <2>1
  <2> QED
    BY <2>3, <2>4
<1> QED
  BY <1>4

(* What holds at the start of a loop over a .. b and is kept by its turns, *)
(* holds at the end.                                                       *)
LEMMA LoopInduction ==
  ASSUME NEW a \in Nat, NEW b \in Nat, NEW T, a \in T,
         \A z \in a .. b - 1 : z \in T => z + 1 \in T
  PROVE  \A z \in a .. b : z \in T
<1> SUFFICES ASSUME (a .. b) \ T # {} PROVE FALSE
  OBVIOUS
<1>1. (a .. b) \ T \subseteq Nat
  OBVIOUS
<1>2. PICK z \in (a .. b) \ T : \A y \in (a .. b) \ T : z <= y
  BY <1>1, LeastNat
<1>3. z \in a .. b /\ z \notin T /\ z # a
  OBVIOUS
<1>4. z - 1 \in a .. b - 1 /\ (z - 1) + 1 = z /\ z - 1 \in a .. b
  BY <1>3
<1>5. z - 1 \in T
  BY <1>2, <1>4
<1> QED
  BY <1>3, <1>4, <1>5

\* H lies in the zones a .. b - 1 of a loop.
Between(H, a, b) == H \subseteq a .. b - 1

\* How many of H are below z.
Below(H, z) == Cardinality({y \in H : y < z})

(* Counting the members of H from the first possible one on.               *)
LEMMA BelowNext ==
  ASSUME NEW a \in Nat, NEW b \in Nat, a <= b, NEW H, Between(H, a, b)
  PROVE  /\ IsFiniteSet(H) /\ Below(H, a) = 0 /\ Below(H, b) = Cardinality(H)
         /\ \A z \in a .. b : Below(H, z) \in Nat
         /\ \A z \in a .. b - 1 :
              Below(H, z + 1) = IF z \in H THEN Below(H, z) + 1 ELSE Below(H, z)
<1>1. IsFiniteSet(H) /\ \A y \in H : y \in Nat /\ a <= y /\ y < b
  <2>1. a \in Int /\ b - 1 \in Int
    OBVIOUS
  <2>2. IsFiniteSet(a .. b - 1)
    BY <2>1, FS_Interval
  <2>3. H \in SUBSET (a .. b - 1)
    BY DEF Between
  <2>4. IsFiniteSet(H)
    BY <2>2, <2>3, FS_Subset
  <2>5. ASSUME NEW y \in H PROVE y \in Nat /\ a <= y /\ y < b
    <3>1. y \in a .. b - 1
      BY <2>3
    <3> QED
      BY <3>1
  <2> QED
    BY <2>4, <2>5
<1>2. \A z : IsFiniteSet({y \in H : y < z}) /\ Below(H, z) \in Nat
  <2> TAKE z
  <2>1. {y \in H : y < z} \in SUBSET H
    OBVIOUS
  <2>2. IsFiniteSet({y \in H : y < z})
    BY <1>1, <2>1, FS_Subset
  <2> QED
    BY <2>2, FS_CardinalityType DEF Below
<1>3. Below(H, a) = 0
  <2>1. \A y \in H : ~(y < a)
    BY <1>1
  <2>2. {y \in H : y < a} = {}
    BY <2>1, Zenon
  <2> QED
    BY <2>2, FS_EmptySet DEF Below
<1>4. Below(H, b) = Cardinality(H)
  <2>1. {y \in H : y < b} = H
    BY <1>1, Zenon
  <2> QED
    BY <2>1 DEF Below
<1>5. ASSUME NEW z \in a .. b - 1
      PROVE  Below(H, z + 1) = IF z \in H THEN Below(H, z) + 1 ELSE Below(H, z)
  <2>1. (\A y \in H : y < z + 1 <=> y < z \/ y = z) /\ ~(z < z)
    BY <1>1
  <2>2. CASE z \in H
    <3>1. {y \in H : y < z + 1} = {y \in H : y < z} \cup {z} /\ z \notin {y \in H : y < z}
      BY <2>1, <2>2, Zenon
    <3>2. IsFiniteSet({y \in H : y < z})
      BY <1>2
    <3>3. Cardinality({y \in H : y < z} \cup {z}) = Cardinality({y \in H : y < z}) + 1
      BY <3>1, <3>2, FS_AddElement
    <3> QED
      BY <2>2, <3>1, <3>3 DEF Below
  <2>3. CASE z \notin H
    <3>1. {y \in H : y < z + 1} = {y \in H : y < z}
      BY <2>1, <2>3, Zenon
    <3> QED
      BY <2>3, <3>1 DEF Below
  <2> QED
    BY <2>2, <2>3
<1> QED
  BY <1>1, <1>2, <1>3, <1>4, <1>5

(* The counts tell the members apart.                                      *)
LEMMA BelowApart ==
  ASSUME NEW H, H \subseteq Nat, IsFiniteSet(H), NEW y \in H, NEW z \in H, y # z
  PROVE  Below(H, y) # Below(H, z)
<1>1. ASSUME NEW u \in H, NEW v \in H, u < v PROVE Below(H, u) # Below(H, v)
  <2> DEFINE U == {x \in H : x < u}
             V == {x \in H : x < v}
  <2>0. u \in Nat /\ v \in Nat /\ ~(u < u) /\ \A x \in H : x < u => x < v
    BY <1>1
  <2>1. U \in SUBSET V /\ u \in V /\ u \notin U /\ V \in SUBSET H
    BY <1>1, <2>0, Zenon
  <2>2. IsFiniteSet(V)
    BY <2>1, FS_Subset
  <2>3. Cardinality(V) = Cardinality(U) => V = U
    <3> HIDE DEF U, V
    <3> QED
      BY <2>1, <2>2, FS_Subset
  <2>4. V # U
    BY <2>1
  <2> QED
    BY <2>3, <2>4 DEF Below
<1>2. y < z \/ z < y
  OBVIOUS
<1> QED
  BY <1>1, <1>2

\* The number of k things that m places hold.
LeastOf(m, k) == IF k <= m THEN k ELSE m

(* Those of H that fit into m places.                                      *)
LEMMA FitCount ==
  ASSUME NEW a \in Nat, NEW b \in Nat, a <= b, NEW H, Between(H, a, b), NEW m \in Nat
  PROVE  Cardinality({y \in H : Below(H, y) < m}) = LeastOf(m, Cardinality(H))
<1> DEFINE Fit == {y \in H : Below(H, y) < m}
           T == {z \in a .. b : Below(Fit, z) = LeastOf(m, Below(H, z))}
<1>1. /\ IsFiniteSet(H) /\ Below(H, a) = 0 /\ Below(H, b) = Cardinality(H)
      /\ \A z \in a .. b : Below(H, z) \in Nat
      /\ \A z \in a .. b - 1 :
           Below(H, z + 1) = IF z \in H THEN Below(H, z) + 1 ELSE Below(H, z)
  BY BelowNext
<1>2. Between(Fit, a, b) /\ \A z \in H : z \in Fit <=> Below(H, z) < m
  BY DEF Between
<1>3. Fit \subseteq H
  OBVIOUS
<1> HIDE DEF Fit
<1>4. /\ Below(Fit, a) = 0 /\ Below(Fit, b) = Cardinality(Fit)
      /\ \A z \in a .. b : Below(Fit, z) \in Nat
      /\ \A z \in a .. b - 1 :
           Below(Fit, z + 1) = IF z \in Fit THEN Below(Fit, z) + 1 ELSE Below(Fit, z)
  BY <1>2, BelowNext
<1>5. a \in T
  BY <1>1, <1>4 DEF LeastOf
<1>6. ASSUME NEW z \in a .. b - 1, z \in T PROVE z + 1 \in T
  <2>1. z \in a .. b /\ z + 1 \in a .. b /\ Below(Fit, z) = LeastOf(m, Below(H, z))
    BY <1>6
  <2>2. /\ Below(H, z) \in Nat /\ Below(Fit, z) \in Nat
        /\ Below(H, z + 1) = IF z \in H THEN Below(H, z) + 1 ELSE Below(H, z)
        /\ Below(Fit, z + 1) = IF z \in Fit THEN Below(Fit, z) + 1 ELSE Below(Fit, z)
    BY <1>1, <1>4, <2>1
  <2>3. z \in Fit <=> z \in H /\ Below(H, z) < m
    BY <1>2, <1>3
  <2>4. Below(Fit, z + 1) = LeastOf(m, Below(H, z + 1))
    BY <2>1, <2>2, <2>3 DEF LeastOf
  <2> QED
    BY <2>1, <2>4
<1>7. b \in T
  <2> HIDE DEF T
  <2>1. b \in a .. b
    OBVIOUS
  <2> QED
    BY <1>5, <1>6, <2>1, LoopInduction
<1> QED
  BY <1>1, <1>4, <1>7 DEF Fit

\* The member of H with k of them below it.
Nth(H, k) == CHOOSE y : y \in H /\ Below(H, y) = k

(* It is told by its count.                                               *)
LEMMA NthIs ==
  ASSUME NEW H, H \subseteq Nat, IsFiniteSet(H), NEW z \in H
  PROVE  Nth(H, Below(H, z)) = z
BY BelowApart DEF Nth

\* The zones from start on that the filter of a report lets through.
Hits(start, zafs) == {z \in start .. num_zones - 1 : zns_zone_matches_filter(zafs, z)}

(* The first loop of the report counts what is below the zone it is at.    *)
LEMMA CountZonesIs ==
  ASSUME num_zones \in Nat, NEW start \in Zones, NEW zafs, NEW m \in Nat,
         NEW p \in BOOLEAN, NEW H, H = Hits(start, zafs)
  PROVE  CountZones(start, zafs, m, p) =
           IF p THEN LeastOf(m, Cardinality(H)) ELSE Cardinality(H)
<1> DEFINE Hit(z) == zns_zone_matches_filter(zafs, z)
           Now(k) == IF p THEN LeastOf(m, k) ELSE k
           D(f) == [z \in start .. num_zones |->
                      IF z = start THEN 0
                      ELSE IF Hit(z - 1) /\ ~(p /\ f[z - 1] >= m)
                           THEN f[z - 1] + 1 ELSE f[z - 1]]
<1>1. PICK g : g = CHOOSE f : f = D(f)
  OBVIOUS
<1>2. CountZones(start, zafs, m, p) = g[num_zones]
  BY <1>1 DEF CountZones
<1>3. PICK N \in Nat : N = num_zones
  OBVIOUS
<1>4. start \in Nat /\ start <= N /\ start \in start .. N /\ N \in start .. N
  BY <1>3 DEF Zones
<1>5. Between(H, start, N) /\ \A z \in start .. N - 1 : Hit(z) <=> z \in H
  BY <1>3 DEF Between, Hits
<1> HIDE DEF Hit
<1>6. /\ IsFiniteSet(H) /\ Below(H, start) = 0 /\ Below(H, N) = Cardinality(H)
      /\ \A z \in start .. N : Below(H, z) \in Nat
      /\ \A z \in start .. N - 1 :
           Below(H, z + 1) = IF z \in H THEN Below(H, z) + 1 ELSE Below(H, z)
  BY <1>4, <1>5, BelowNext
<1>7. \A z \in start .. N :
        z # start => z - 1 \in start .. N - 1 /\ z - 1 \in start .. N /\ (z - 1) + 1 = z
  BY <1>4
<1>8. \A k \in Nat : Now(k) \in Nat /\ (Now(k + 1) = IF p /\ Now(k) >= m THEN Now(k) ELSE Now(k) + 1)
  BY DEF LeastOf
<1>9. Now(0) = 0
  BY DEF LeastOf
<1> HIDE DEF Now
<1> DEFINE G == [z \in start .. N |-> Now(Below(H, z))]
<1>10. G = D(G)
  <2>1. \A z \in start .. N :
          G[z] = IF z = start THEN 0
                 ELSE IF Hit(z - 1) /\ ~(p /\ G[z - 1] >= m)
                      THEN G[z - 1] + 1 ELSE G[z - 1]
    <3> TAKE z \in start .. N
    <3>1. CASE z = start
      BY <1>6, <1>9, <3>1
    <3>2. CASE z # start
      <4>1. z - 1 \in start .. N - 1 /\ z - 1 \in start .. N /\ (z - 1) + 1 = z
        BY <1>7, <3>2
      <4>2. /\ G[z] = Now(Below(H, z)) /\ G[z - 1] = Now(Below(H, z - 1))
            /\ Below(H, z - 1) \in Nat
            /\ Below(H, z) = IF z - 1 \in H THEN Below(H, z - 1) + 1 ELSE Below(H, z - 1)
        BY <1>6, <4>1
      <4>3. Hit(z - 1) <=> z - 1 \in H
        BY <1>5, <4>1
      <4> HIDE DEF G
      <4> QED
        BY <1>8, <3>2, <4>2, <4>3
    <3> QED
      BY <3>1, <3>2
  <2> QED
    BY <1>3, <2>1
<1>11. g = D(g)
  <2> HIDE DEF D, G
  <2> QED
    BY <1>1, <1>10
<1>12. \A z \in start .. N : z \in {x \in start .. N : g[x] = G[x]}
  <2> DEFINE T == {x \in start .. N : g[x] = G[x]}
  <2>1. \A z \in start .. N :
          /\ g[z] = IF z = start THEN 0
                    ELSE IF Hit(z - 1) /\ ~(p /\ g[z - 1] >= m)
                         THEN g[z - 1] + 1 ELSE g[z - 1]
          /\ G[z] = IF z = start THEN 0
                    ELSE IF Hit(z - 1) /\ ~(p /\ G[z - 1] >= m)
                         THEN G[z - 1] + 1 ELSE G[z - 1]
    <3> HIDE DEF G
    <3> QED
      BY <1>3, <1>10, <1>11
  <2> HIDE DEF G
  <2>2. start \in T
    BY <1>4, <2>1
  <2>3. \A z \in start .. N - 1 : z \in T => z + 1 \in T
    <3> SUFFICES ASSUME NEW z \in start .. N - 1, g[z] = G[z] PROVE z + 1 \in T
      OBVIOUS
    <3>1. z + 1 \in start .. N /\ z + 1 # start /\ (z + 1) - 1 = z
      BY <1>4
    <3> QED
      BY <2>1, <3>1
  <2> HIDE DEF T
  <2>4. \A z \in start .. N : z \in T
    BY <1>4, <2>2, <2>3, LoopInduction
  <2> QED
    BY <2>4 DEF T
<1>13. g[N] = Now(Cardinality(H))
  BY <1>4, <1>6, <1>12
<1> QED
  BY <1>2, <1>3, <1>13 DEF Now

\* The first k members of H, at most m of them.
FirstOf(H, m, k) == [j \in 1 .. LeastOf(m, k) |-> Nth(H, j - 1)]

(* One more of them.                                                       *)
LEMMA FirstNext ==
  ASSUME NEW H, NEW m \in Nat, NEW k \in Nat
  PROVE  /\ FirstOf(H, m, 0) = <<>>
         /\ Len(FirstOf(H, m, k)) = LeastOf(m, k)
         /\ FirstOf(H, m, k + 1) = IF LeastOf(m, k) < m
                                   THEN Append(FirstOf(H, m, k), Nth(H, k))
                                   ELSE FirstOf(H, m, k)
<1> DEFINE S == {Nth(H, j) : j \in Nat}
<1>1. ASSUME NEW i \in Nat
      PROVE  FirstOf(H, m, i) \in Seq(S) /\ Len(FirstOf(H, m, i)) = LeastOf(m, i)
  <2>1. LeastOf(m, i) \in Nat
    BY DEF LeastOf
  <2>2. FirstOf(H, m, i) \in [1 .. LeastOf(m, i) -> S]
    <3>1. \A j \in 1 .. LeastOf(m, i) : j - 1 \in Nat
      BY <2>1
    <3> QED
      BY <3>1 DEF FirstOf
  <2>3. FirstOf(H, m, i) \in Seq(S)
    BY <2>1, <2>2, SeqDef, Zenon
  <2>4. DOMAIN FirstOf(H, m, i) = 1 .. LeastOf(m, i)
    BY <2>2
  <2>5. Len(FirstOf(H, m, i)) \in Nat /\ DOMAIN FirstOf(H, m, i) = 1 .. Len(FirstOf(H, m, i))
    BY <2>3, LenProperties
  <2> QED
    BY <2>1, <2>3, <2>4, <2>5
<1>2. FirstOf(H, m, 0) = <<>>
  <2>1. FirstOf(H, m, 0) \in Seq(S) /\ Len(FirstOf(H, m, 0)) = 0
    <3>1. LeastOf(m, 0) = 0
      BY DEF LeastOf
    <3> QED
      BY <1>1, <3>1
  <2> HIDE DEF S
  <2> QED
    BY <2>1, EmptySeq
<1>3. CASE LeastOf(m, k) < m
  <2> DEFINE s == FirstOf(H, m, k)
             t == FirstOf(H, m, k + 1)
             u == Append(s, Nth(H, k))
  <2>1. /\ s \in Seq(S) /\ Len(s) = k /\ t \in Seq(S) /\ Len(t) = k + 1
    <3>1. LeastOf(m, k) = k /\ LeastOf(m, k + 1) = k + 1 /\ k + 1 \in Nat
      BY <1>3 DEF LeastOf
    <3> QED
      BY <1>1, <3>1
  <2>2. Nth(H, k) \in S
    OBVIOUS
  <2>3. /\ \A j \in 1 .. k : s[j] = Nth(H, j - 1)
        /\ \A j \in 1 .. k + 1 : t[j] = Nth(H, j - 1)
    <3>1. LeastOf(m, k) = k /\ LeastOf(m, k + 1) = k + 1
      BY <1>3 DEF LeastOf
    <3> QED
      BY <3>1 DEF FirstOf
  <2> HIDE DEF S, s, t
  <2>4. /\ u \in Seq(S) /\ Len(u) = k + 1
        /\ \A j \in 1 .. k : u[j] = s[j]
    BY <2>1, <2>2, AppendProperties
  <2>5. u[k + 1] = Nth(H, k)
    BY <2>1, <2>2, AppendProperties
  <2> HIDE DEF u
  <2>6. \A j \in 1 .. k + 1 : u[j] = t[j]
    <3> TAKE j \in 1 .. k + 1
    <3>1. CASE j \in 1 .. k
      BY <2>3, <2>4, <3>1
    <3>2. CASE j = k + 1
      <4>1. t[k + 1] = Nth(H, (k + 1) - 1) /\ (k + 1) - 1 = k
        BY <2>3
      <4> QED
        BY <2>5, <3>2, <4>1
    <3> QED
      BY <3>1, <3>2
  <2>7. u = t
    BY <2>1, <2>4, <2>6, SeqEqual
  <2> QED
    BY <1>1, <1>2, <1>3, <2>7 DEF s, t, u
<1>4. CASE ~(LeastOf(m, k) < m)
  <2>1. LeastOf(m, k + 1) = LeastOf(m, k)
    BY <1>4 DEF LeastOf
  <2> QED
    BY <1>1, <1>2, <1>4, <2>1 DEF FirstOf
<1> QED
  BY <1>3, <1>4

(* The second loop describes the first zones that match.                   *)
LEMMA DescribeZonesIs ==
  ASSUME num_zones \in Nat, NEW start \in Zones, NEW zafs, NEW m \in Nat,
         NEW H, H = Hits(start, zafs)
  PROVE  DescribeZones(start, zafs, m) = FirstOf(H, m, Cardinality(H))
<1> DEFINE Hit(z) == zns_zone_matches_filter(zafs, z)
           D(f) == [z \in start .. num_zones |->
                      IF z = start THEN <<>>
                      ELSE IF Hit(z - 1) /\ Len(f[z - 1]) < m
                           THEN Append(f[z - 1], z - 1) ELSE f[z - 1]]
<1>1. PICK g : g = CHOOSE f : f = D(f)
  OBVIOUS
<1>2. DescribeZones(start, zafs, m) = g[num_zones]
  BY <1>1 DEF DescribeZones
<1>3. PICK N \in Nat : N = num_zones
  OBVIOUS
<1>4. start \in Nat /\ start <= N /\ start \in start .. N /\ N \in start .. N
  BY <1>3 DEF Zones
<1>5. Between(H, start, N) /\ H \subseteq Nat /\ \A z \in start .. N - 1 : Hit(z) <=> z \in H
  BY <1>3, <1>4 DEF Between, Hits
<1> HIDE DEF Hit
<1>6. /\ IsFiniteSet(H) /\ Below(H, start) = 0 /\ Below(H, N) = Cardinality(H)
      /\ \A z \in start .. N : Below(H, z) \in Nat
      /\ \A z \in start .. N - 1 :
           Below(H, z + 1) = IF z \in H THEN Below(H, z) + 1 ELSE Below(H, z)
  BY <1>4, <1>5, BelowNext
<1>7. \A z \in start .. N :
        z # start => z - 1 \in start .. N - 1 /\ z - 1 \in start .. N /\ (z - 1) + 1 = z
  BY <1>4
<1> DEFINE G == [z \in start .. N |-> FirstOf(H, m, Below(H, z))]
<1>10. G = D(G)
  <2>1. \A z \in start .. N :
          G[z] = IF z = start THEN <<>>
                 ELSE IF Hit(z - 1) /\ Len(G[z - 1]) < m
                      THEN Append(G[z - 1], z - 1) ELSE G[z - 1]
    <3> TAKE z \in start .. N
    <3>1. CASE z = start
      BY <1>6, <3>1, FirstNext
    <3>2. CASE z # start
      <4>1. z - 1 \in start .. N - 1 /\ z - 1 \in start .. N /\ (z - 1) + 1 = z
        BY <1>7, <3>2
      <4>2. PICK k \in Nat : k = Below(H, z - 1)
        BY <1>6, <4>1
      <4>3. /\ G[z] = FirstOf(H, m, Below(H, z)) /\ G[z - 1] = FirstOf(H, m, k)
            /\ Below(H, z) = IF z - 1 \in H THEN k + 1 ELSE k
        BY <1>6, <4>1, <4>2
      <4>4. Hit(z - 1) <=> z - 1 \in H
        BY <1>5, <4>1
      <4>5. z - 1 \in H => Nth(H, k) = z - 1
        BY <1>5, <1>6, <4>2, NthIs
      <4>6. /\ Len(FirstOf(H, m, k)) = LeastOf(m, k)
            /\ FirstOf(H, m, k + 1) = IF LeastOf(m, k) < m
                                      THEN Append(FirstOf(H, m, k), Nth(H, k))
                                      ELSE FirstOf(H, m, k)
        BY FirstNext
      <4> HIDE DEF G
      <4>7. CASE z - 1 \in H
        BY <3>2, <4>3, <4>4, <4>5, <4>6, <4>7, Zenon
      <4>8. CASE z - 1 \notin H
        BY <3>2, <4>3, <4>4, <4>8, Zenon
      <4> QED
        BY <4>7, <4>8
    <3> QED
      BY <3>1, <3>2
  <2> QED
    BY <1>3, <2>1
<1>11. g = D(g)
  <2> HIDE DEF D, G
  <2> QED
    BY <1>1, <1>10
<1>12. \A z \in start .. N : z \in {x \in start .. N : g[x] = G[x]}
  <2> DEFINE T == {x \in start .. N : g[x] = G[x]}
  <2>1. \A z \in start .. N :
          /\ g[z] = IF z = start THEN <<>>
                    ELSE IF Hit(z - 1) /\ Len(g[z - 1]) < m
                         THEN Append(g[z - 1], z - 1) ELSE g[z - 1]
          /\ G[z] = IF z = start THEN <<>>
                    ELSE IF Hit(z - 1) /\ Len(G[z - 1]) < m
                         THEN Append(G[z - 1], z - 1) ELSE G[z - 1]
    <3> HIDE DEF G
    <3> QED
      BY <1>3, <1>10, <1>11
  <2> HIDE DEF G
  <2>2. start \in T
    BY <1>4, <2>1
  <2>3. \A z \in start .. N - 1 : z \in T => z + 1 \in T
    <3> SUFFICES ASSUME NEW z \in start .. N - 1, g[z] = G[z] PROVE z + 1 \in T
      OBVIOUS
    <3>1. z + 1 \in start .. N /\ z + 1 # start /\ (z + 1) - 1 = z
      BY <1>4
    <3> QED
      BY <2>1, <3>1
  <2> HIDE DEF T
  <2>4. \A z \in start .. N : z \in T
    BY <1>4, <2>2, <2>3, LoopInduction
  <2> QED
    BY <2>4 DEF T
<1>13. g[N] = FirstOf(H, m, Cardinality(H))
  BY <1>4, <1>6, <1>12
<1> QED
  BY <1>2, <1>3, <1>13

(* What the report says, in any state with a number of zones.              *)
LEMMA Reports == num_zones \in Nat => ReportExact
<1> SUFFICES ASSUME num_zones \in Nat PROVE ReportExact
  OBVIOUS
<1> SUFFICES ASSUME NEW start \in Zones, NEW zafs \in ZoneFilters, NEW m \in 0 .. num_zones
             PROVE  LET hits   == {z \in start .. num_zones - 1 : zns_zone_matches_filter(zafs, z)}
                        before(z) == Cardinality({y \in hits : y < z})
                        fit    == {z \in hits : before(z) < m}
                        full   == zns_zone_mgmt_recv(start, zafs, m, FALSE)
                        part   == zns_zone_mgmt_recv(start, zafs, m, TRUE)
                    IN  /\ full.nr_zones = Cardinality(hits)
                        /\ part.nr_zones = Cardinality(fit)
                        /\ part.descr = full.descr
                        /\ Len(full.descr) = Cardinality(fit)
                        /\ \A z \in fit : full.descr[before(z) + 1] = z
  BY DEF ReportExact
<1>1. PICK H : H = Hits(start, zafs)
  OBVIOUS
<1>2. PICK N \in Nat : N = num_zones
  OBVIOUS
<1>3. start \in Nat /\ start <= N /\ m \in Nat
  BY <1>2 DEF Zones
<1>4. Between(H, start, N) /\ H \subseteq Nat
  BY <1>1, <1>2, <1>3 DEF Between, Hits
<1>5. IsFiniteSet(H) /\ Cardinality(H) \in Nat
  BY <1>3, <1>4, BelowNext, FS_CardinalityType
<1>6. PICK F : F = {z \in H : Below(H, z) < m}
  OBVIOUS
<1>7. Cardinality(F) = LeastOf(m, Cardinality(H))
  BY <1>2, <1>3, <1>4, <1>6, FitCount
<1>8. /\ zns_zone_mgmt_recv(start, zafs, m, FALSE) =
           [nr_zones |-> Cardinality(H), descr |-> FirstOf(H, m, Cardinality(H))]
      /\ zns_zone_mgmt_recv(start, zafs, m, TRUE) =
           [nr_zones |-> LeastOf(m, Cardinality(H)), descr |-> FirstOf(H, m, Cardinality(H))]
  <2>1. ASSUME NEW p \in BOOLEAN
        PROVE  /\ p = FALSE => CountZones(start, zafs, m, p) = Cardinality(H)
               /\ p = TRUE => CountZones(start, zafs, m, p) = LeastOf(m, Cardinality(H))
    BY <1>1, <1>3, CountZonesIs
  <2>2. /\ CountZones(start, zafs, m, FALSE) = Cardinality(H)
        /\ CountZones(start, zafs, m, TRUE) = LeastOf(m, Cardinality(H))
    BY <2>1, Zenon
  <2>3. DescribeZones(start, zafs, m) = FirstOf(H, m, Cardinality(H))
    BY <1>1, <1>3, DescribeZonesIs
  <2> QED
    BY <2>2, <2>3, Zenon DEF zns_zone_mgmt_recv
<1>9. Len(FirstOf(H, m, Cardinality(H))) = Cardinality(F)
  BY <1>3, <1>5, <1>7, FirstNext
<1>10. ASSUME NEW z \in F PROVE FirstOf(H, m, Cardinality(H))[Below(H, z) + 1] = z
  <2>1. z \in H /\ Below(H, z) < m
    BY <1>6
  <2>2. z \in start .. N - 1 /\ z \in start .. N
    BY <1>2, <1>3, <1>4, <2>1 DEF Between
  <2>3. Below(H, z) \in Nat
    BY <1>2, <1>3, <1>4, <2>2, BelowNext
  <2>4. Below(H, z) < Cardinality(H)
    <3>1. {y \in H : y < z} \in SUBSET H /\ z \notin {y \in H : y < z}
      BY <1>4, <2>1
    <3>2. /\ Cardinality({y \in H : y < z}) <= Cardinality(H)
          /\ Cardinality(H) = Cardinality({y \in H : y < z}) => H = {y \in H : y < z}
      BY <1>5, <3>1, FS_Subset
    <3> QED
      BY <1>5, <2>1, <2>3, <3>1, <3>2 DEF Below
  <2>5. Below(H, z) + 1 \in 1 .. LeastOf(m, Cardinality(H)) /\ (Below(H, z) + 1) - 1 = Below(H, z)
    BY <1>3, <1>5, <2>1, <2>3, <2>4 DEF LeastOf
  <2>6. Nth(H, Below(H, z)) = z
    BY <1>4, <1>5, <2>1, NthIs
  <2> QED
    BY <2>5, <2>6 DEF FirstOf
<1> DEFINE hits == {z \in start .. num_zones - 1 : zns_zone_matches_filter(zafs, z)}
           before(z) == Cardinality({y \in hits : y < z})
           fit    == {z \in hits : before(z) < m}
           full   == zns_zone_mgmt_recv(start, zafs, m, FALSE)
           part   == zns_zone_mgmt_recv(start, zafs, m, TRUE)
<1>11. hits = H /\ fit = F /\ \A z : before(z) = Below(H, z)
  <2>1. hits = H
    BY <1>1 DEF Hits
  <2> HIDE DEF hits
  <2> QED
    BY <1>6, <2>1 DEF Below
<1>12. /\ full.nr_zones = Cardinality(H) /\ part.nr_zones = Cardinality(F)
       /\ full.descr = FirstOf(H, m, Cardinality(H)) /\ part.descr = full.descr
  <2> DEFINE W == FirstOf(H, m, Cardinality(H))
             C == Cardinality(H)
  <2>1. full = [nr_zones |-> C, descr |-> W] /\ part = [nr_zones |-> LeastOf(m, C), descr |-> W]
    BY <1>8
  <2> HIDE DEF W, full, part
  <2>2. full.nr_zones = C /\ part.nr_zones = LeastOf(m, C) /\ full.descr = W /\ part.descr = W
    BY <2>1
  <2> QED
    BY <1>7, <2>2 DEF W
<1> HIDE DEF hits, before, fit, full, part
<1>13. /\ full.nr_zones = Cardinality(hits)
       /\ part.nr_zones = Cardinality(fit)
       /\ part.descr = full.descr
       /\ Len(full.descr) = Cardinality(fit)
       /\ \A z \in fit : full.descr[before(z) + 1] = z
  BY <1>9, <1>10, <1>11, <1>12
<1> QED
  BY <1>13 DEF hits, before, fit, full, part

(* A report counts the zones that match and describes the first of them,   *)
(* as many as fit; its partial count is of those it describes.             *)
THEOREM ReportAlwaysExact == Spec => []ReportExact
<1>1. ASSUME IInv PROVE ReportExact
  <2>1. num_zones \in Nat
    BY <1>1, Facts
  <2> QED
    BY <2>1, Reports
<1> QED
  BY <1>1, Invariance, PTL

=============================================================================
