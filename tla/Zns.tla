-------------------------------- MODULE Zns ---------------------------------
(***************************************************************************)
(* The zoned namespace of femu/zns/zns.c: the state machine of every zone, *)
(* its two write pointers, the four lists of zones, and the counts of open *)
(* and active zones that are held against the limits of the namespace.     *)
(*                                                                         *)
(* Commands run one at a time in the poller. A command over all zones      *)
(* (Select All) walks lists, and every iteration is a step of its own, so  *)
(* the invariants hold between iterations too. A command that an early     *)
(* check refuses, a read and a report change nothing and have no action;   *)
(* what a report says is the operator zns_zone_mgmt_recv.                  *)
(*                                                                         *)
(* No code makes a zone read-only or offline, and zns_ns_shutdown has no   *)
(* caller: Zone Offline finds no zone to change.                           *)
(***************************************************************************)
EXTENDS Integers, Sequences, FiniteSets, SequencesExt

CONSTANTS
  Namespaces,       \* triples <<num_zones, max_open_zones, max_active_zones>>;
                    \* a limit of 0 is no limit
  zone_size,        \* in logical blocks, from one zslba to the next
  zone_capacity,    \* writable blocks of a zone
  zasl,             \* longest append, in blocks
  zd_extension,     \* zd_extension_size # 0: descriptor extensions exist
  MaxNlb,           \* bound: longest command, in blocks
  MaxOverrun        \* bound: blocks an append may run past the capacity

ASSUME ZnsAssumption ==
  /\ \A ns \in Namespaces :
       ns[1] \in Nat \ {0} /\ ns[2] \in 0 .. ns[1] /\ ns[3] \in 0 .. ns[1]
  /\ zone_capacity \in Nat \ {0}
  /\ zone_size \in Nat /\ zone_capacity <= zone_size
  /\ zasl \in Nat \ {0} /\ MaxNlb \in Nat \ {0} /\ MaxOverrun \in Nat
  /\ zd_extension \in BOOLEAN

\* NvmeZoneState, without the two states no zone ever has.
OpenStates   == {"IMPLICITLY_OPEN", "EXPLICITLY_OPEN"}
ActiveStates == OpenStates \cup {"CLOSED"}
ListStates   == ActiveStates \cup {"FULL"}      \* states that have a list
States       == ListStates \cup {"EMPTY"}

VARIABLES
  n,        \* the fields of FemuCtrl that zns.c keeps
  bulk,     \* the Select All command under way and the zones it has left
  spoiled   \* ghost: zones whose two write pointers a command has parted or
            \* pushed past the capacity since they were last set together

num_zones == n.num_zones
Zones     == 0 .. num_zones - 1

zslba(z)                == z * zone_size
zns_zone_wr_boundary(z) == zslba(z) + zone_capacity
zns_zone_idx(lba)       == lba \div zone_size
nsze                    == num_zones * zone_size

vars == <<n, bulk, spoiled>>

Idle == [op |-> "none", rest |-> <<>>]

Init ==
  /\ \E ns \in Namespaces :
       n = [num_zones |-> ns[1],
            zone |-> [z \in 0 .. ns[1] - 1 |-> [zs |-> "EMPTY", za |-> FALSE,
                                       wp |-> zslba(z), w_ptr |-> zslba(z)]],
            list |-> [s \in ListStates |-> <<>>],
            max_open |-> ns[2], max_active |-> ns[3],
            nr_open |-> 0, nr_active |-> 0]
  /\ bulk = Idle
  /\ spoiled = {}

-----------------------------------------------------------------------------
(* Bookkeeping. An operator takes the controller state s and returns it    *)
(* changed. Attribute za is the bit NVME_ZA_ZD_EXT_VALID.                  *)

zns_aor_inc_open(s)   == IF s.max_open # 0
                         THEN [s EXCEPT !.nr_open = @ + 1] ELSE s
zns_aor_dec_open(s)   == IF s.max_open # 0
                         THEN [s EXCEPT !.nr_open = @ - 1] ELSE s
zns_aor_inc_active(s) == IF s.max_active # 0
                         THEN [s EXCEPT !.nr_active = @ + 1] ELSE s
zns_aor_dec_active(s) == IF s.max_active # 0
                         THEN [s EXCEPT !.nr_active = @ - 1] ELSE s

zns_aor_check(s, act, opn) ==
  /\ s.max_active # 0 => s.nr_active + act <= s.max_active
  /\ s.max_open   # 0 => s.nr_open + opn <= s.max_open

Unlink(s, z) ==
  LET st == s.zone[z].zs
  IN  IF st \in ListStates THEN [s EXCEPT !.list[st] = RemoveFirst(@, z)] ELSE s

\* Mutant: a full zone is not taken off its list.
zns_assign_zone_state_FullStays(s, z, st) ==
  LET u == IF s.zone[z].zs = "FULL" THEN s ELSE Unlink(s, z)
  IN  IF st \in ListStates
      THEN [u EXCEPT !.zone[z].zs = st, !.list[st] = Append(@, z)]
      ELSE [u EXCEPT !.zone[z].zs = st, !.zone[z].za = FALSE]

zns_assign_zone_state(s, z, st) ==
  LET u == Unlink(s, z)
  IN  IF st \in ListStates
      THEN [u EXCEPT !.zone[z].zs = st, !.list[st] = Append(@, z)]
      ELSE [u EXCEPT !.zone[z].zs = st, !.zone[z].za = FALSE]

\* dec_open and dec_active as the switches on the state of z fall through.
ReleaseZone(s, z) ==
  LET st == s.zone[z].zs
      o  == IF st \in OpenStates THEN zns_aor_dec_open(s) ELSE s
  IN  IF st \in ActiveStates THEN zns_aor_dec_active(o) ELSE o

\* Mutant: the limit is noticed one zone too late.
zns_auto_transition_zone_Late(s) ==
  IF s.max_open # 0 /\ s.nr_open > s.max_open /\ s.list["IMPLICITLY_OPEN"] # <<>>
  THEN zns_assign_zone_state(zns_aor_dec_open(s),
                             Head(s.list["IMPLICITLY_OPEN"]), "CLOSED")
  ELSE s

\* Mutant: any open zone is closed to make room.
zns_auto_transition_zone_AnyOpen(s) ==
  LET open == s.list["IMPLICITLY_OPEN"] \o s.list["EXPLICITLY_OPEN"]
  IN  IF s.max_open # 0 /\ s.nr_open = s.max_open /\ open # <<>>
      THEN zns_assign_zone_state(zns_aor_dec_open(s), Head(open), "CLOSED")
      ELSE s

zns_auto_transition_zone(s) ==
  IF s.max_open # 0 /\ s.nr_open = s.max_open /\ s.list["IMPLICITLY_OPEN"] # <<>>
  THEN zns_assign_zone_state(zns_aor_dec_open(s),
                             Head(s.list["IMPLICITLY_OPEN"]), "CLOSED")
  ELSE s

-----------------------------------------------------------------------------
(* Writes and appends.                                                     *)

zns_check_zone_write(z, slba, nlb, append) ==
  /\ slba + nlb <= zns_zone_wr_boundary(z)
  /\ n.zone[z].zs # "FULL"
  /\ IF append THEN slba = zslba(z) /\ nlb <= zasl
               ELSE slba = n.zone[z].w_ptr

\* zns_auto_open_zone: the state afterwards, and whether the zone may be used.
NeedsOpen(z) == n.zone[z].zs \in {"EMPTY", "CLOSED"}
AutoOpened(z) == IF NeedsOpen(z) THEN zns_auto_transition_zone(n) ELSE n
zns_auto_open_zone(z) ==
  NeedsOpen(z) => zns_aor_check(AutoOpened(z),
                                IF n.zone[z].zs = "EMPTY" THEN 1 ELSE 0, 1)

zns_advance_zone_wp(s, z, nlb) ==
  LET a  == [s EXCEPT !.zone[z].w_ptr = @ + nlb]
      st == s.zone[z].zs
      c  == IF st = "EMPTY" THEN zns_aor_inc_active(a) ELSE a
  IN  IF a.zone[z].w_ptr < zns_zone_wr_boundary(z) /\ st \in {"EMPTY", "CLOSED"}
      THEN zns_assign_zone_state(zns_aor_inc_open(c), z, "IMPLICITLY_OPEN")
      ELSE a

\* Mutant: a zone filled by its last write keeps its resources.
zns_finalize_zoned_write_Keep(s, z, nlb) ==
  LET a == [s EXCEPT !.zone[z].wp = @ + nlb]
  IN  IF a.zone[z].wp = zns_zone_wr_boundary(z) /\ a.zone[z].zs # "FULL"
      THEN zns_assign_zone_state(a, z, "FULL")
      ELSE a

zns_finalize_zoned_write(s, z, nlb) ==
  LET a == [s EXCEPT !.zone[z].wp = @ + nlb]
  IN  IF a.zone[z].wp = zns_zone_wr_boundary(z) /\ a.zone[z].zs # "FULL"
      THEN zns_assign_zone_state(ReleaseZone(a, z), z, "FULL")
      ELSE a

\* The common end of zns_write and zns_do_write, after the checks. An
\* implicitly open zone may have been closed even when the command is then
\* refused; zns_map_dptr fails (~mapped) after the zone was opened and w_ptr
\* moved.
WriteZone(z, nlb, mapped) ==
  LET a == zns_advance_zone_wp(AutoOpened(z), z, nlb)
  IN  IF ~zns_auto_open_zone(z)
      THEN n' = AutoOpened(z) /\ UNCHANGED spoiled
      ELSE /\ n' = IF mapped THEN zns_finalize_zoned_write(a, z, nlb) ELSE a
           /\ spoiled' = IF ~mapped \/ a.zone[z].w_ptr > zns_zone_wr_boundary(z)
                         THEN spoiled \cup {z} ELSE spoiled

zns_write(slba, nlb, mapped) ==
  LET z == zns_zone_idx(slba)
  IN  /\ bulk = Idle
      /\ slba + nlb <= nsze
      /\ zns_check_zone_write(z, slba, nlb, FALSE)
      /\ WriteZone(z, nlb, mapped)
      /\ UNCHANGED bulk

\* The data goes to w_ptr, whatever the host's slba; the boundary was checked
\* with that slba.
zns_zone_append(slba, nlb, mapped) ==
  LET z == zns_zone_idx(slba)
  IN  /\ bulk = Idle
      /\ slba + nlb <= nsze
      /\ zns_check_zone_write(z, slba, nlb, TRUE)
      /\ n.zone[z].w_ptr + nlb <= zns_zone_wr_boundary(z) + MaxOverrun
      /\ WriteZone(z, nlb, mapped)
      /\ UNCHANGED bulk

-----------------------------------------------------------------------------
(* Zone management.                                                        *)

\* A refused open gives the active resource back before it returns.
zns_open_zone(s, z) ==
  LET st == s.zone[z].zs
      a  == IF st = "EMPTY" THEN zns_aor_inc_active(s) ELSE s
  IN  CASE st = "EMPTY" /\ ~zns_aor_check(s, 1, 0) -> s
        [] st = "EMPTY" /\ zns_aor_check(s, 1, 0) /\ ~zns_aor_check(a, 0, 1) ->
             zns_aor_dec_active(a)
        [] st = "CLOSED" /\ ~zns_aor_check(a, 0, 1) -> s
        [] st = "IMPLICITLY_OPEN" ->
             zns_assign_zone_state(s, z, "EXPLICITLY_OPEN")
        [] st \in {"EXPLICITLY_OPEN", "FULL"} -> s
        [] OTHER -> zns_assign_zone_state(zns_aor_inc_open(a), z,
                                          "EXPLICITLY_OPEN")

zns_close_zone(s, z) ==
  IF s.zone[z].zs \in OpenStates
  THEN zns_assign_zone_state(zns_aor_dec_open(s), z, "CLOSED")
  ELSE s

\* Both write pointers of z, set together.
SetPointers(s, z, lba) ==
  [s EXCEPT !.zone[z].w_ptr = lba, !.zone[z].wp = lba]

zns_finish_zone(s, z) ==
  IF s.zone[z].zs # "FULL"
  THEN zns_assign_zone_state(
         SetPointers(ReleaseZone(s, z), z, zns_zone_wr_boundary(z)), z, "FULL")
  ELSE s

\* Mutant: the device's own write pointer is not moved back.
zns_reset_zone_KeepPtr(s, z) ==
  IF s.zone[z].zs # "EMPTY"
  THEN zns_assign_zone_state([ReleaseZone(s, z) EXCEPT !.zone[z].wp = zslba(z)],
                             z, "EMPTY")
  ELSE s

\* An empty zone is left as it is, its w_ptr included.
zns_reset_zone(s, z) ==
  IF s.zone[z].zs # "EMPTY"
  THEN zns_assign_zone_state(SetPointers(ReleaseZone(s, z), z, zslba(z)),
                             z, "EMPTY")
  ELSE s

zns_set_zd_ext(s, z) ==
  IF s.zone[z].zs = "EMPTY" /\ zns_aor_check(s, 1, 0)
  THEN zns_assign_zone_state(
         [zns_aor_inc_active(s) EXCEPT !.zone[z].za = TRUE], z, "CLOSED")
  ELSE s

ZoneOps == {"OPEN", "CLOSE", "FINISH", "RESET"}

op_hndlr(op, s, z) ==
  CASE op = "OPEN"   -> zns_open_zone(s, z)
    [] op = "CLOSE"  -> zns_close_zone(s, z)
    [] op = "FINISH" -> zns_finish_zone(s, z)
    [] op = "RESET"  -> zns_reset_zone(s, z)

\* The handler's effect on z; finish and reset set both pointers unless they
\* find the zone full, or empty, already.
DoZone(op, z) ==
  /\ n' = op_hndlr(op, n, z)
  /\ spoiled' = IF \/ op = "FINISH" /\ n.zone[z].zs # "FULL"
                   \/ op = "RESET"  /\ n.zone[z].zs # "EMPTY"
                THEN spoiled \ {z} ELSE spoiled

\* zns_zone_mgmt_send of one zone.
ZoneSend(op, z) ==
  /\ bulk = Idle
  /\ DoZone(op, z)
  /\ UNCHANGED bulk

SetZdExt(z) ==
  /\ bulk = Idle
  /\ zd_extension
  /\ n' = zns_set_zd_ext(n, z)
  /\ UNCHANGED <<bulk, spoiled>>

\* zns_zone_mgmt_send with Select All. The handlers move a zone only to a
\* list that the walk has passed or does not visit, so what the walk will
\* see is known when it starts.
proc_mask(op) ==
  CASE op = "OPEN"   -> <<"CLOSED">>
    [] op = "CLOSE"  -> <<"IMPLICITLY_OPEN", "EXPLICITLY_OPEN">>
    [] op = "FINISH" -> <<"CLOSED", "IMPLICITLY_OPEN", "EXPLICITLY_OPEN">>
    [] op = "RESET"  -> <<"CLOSED", "IMPLICITLY_OPEN", "EXPLICITLY_OPEN", "FULL">>

ZoneSendAll(op) ==
  /\ bulk = Idle
  /\ LET rest == FlattenSeq([i \in DOMAIN proc_mask(op) |-> n.list[proc_mask(op)[i]]])
     IN  rest # <<>> /\ bulk' = [op |-> op, rest |-> rest]
  /\ UNCHANGED <<n, spoiled>>

\* One iteration of zns_do_zone_op; the first zone refused ends the walk.
zns_bulk_proc_zone ==
  LET z       == Head(bulk.rest)
      refused == bulk.op = "OPEN" /\ ~zns_aor_check(n, 0, 1)
  IN  /\ bulk # Idle
      /\ DoZone(bulk.op, z)
      /\ bulk' = IF refused \/ Len(bulk.rest) = 1
                 THEN Idle ELSE [bulk EXCEPT !.rest = Tail(@)]

Next ==
  \/ \E lba \in 0 .. nsze - 1, nlb \in 1 .. MaxNlb, mapped \in BOOLEAN :
        \/ zns_write(lba, nlb, mapped)
        \/ zns_zone_append(lba, nlb, mapped)
  \/ \E z \in Zones :
        \/ \E op \in ZoneOps : ZoneSend(op, z)
        \/ SetZdExt(z)
  \/ \E op \in ZoneOps : ZoneSendAll(op)
  \/ zns_bulk_proc_zone

Spec == Init /\ [][Next]_vars

-----------------------------------------------------------------------------
(* The zone report: how many zones it counts and which it describes.       *)

ZoneFilters == States \cup {"ALL"}

zns_zone_matches_filter(zafs, z) == zafs = "ALL" \/ n.zone[z].zs = zafs

\* Mutant: the count stops one zone late.
CountZones_Late(start, zafs, max_zones, partial) ==
  LET nr[z \in start .. num_zones] ==
        IF z = start THEN 0
        ELSE IF zns_zone_matches_filter(zafs, z - 1) /\ ~(partial /\ nr[z - 1] > max_zones)
             THEN nr[z - 1] + 1 ELSE nr[z - 1]
  IN  nr[num_zones]

\* The first loop of zns_zone_mgmt_recv, for a namespace that is a whole
\* number of zones: nr_zones before zone z is looked at.
CountZones(start, zafs, max_zones, partial) ==
  LET nr[z \in start .. num_zones] ==
        IF z = start THEN 0
        ELSE IF zns_zone_matches_filter(zafs, z - 1) /\ ~(partial /\ nr[z - 1] >= max_zones)
             THEN nr[z - 1] + 1 ELSE nr[z - 1]
  IN  nr[num_zones]

\* The second loop: the descriptors written before zone z is looked at; the
\* code counts max_zones down with each.
DescribeZones(start, zafs, max_zones) ==
  LET descr[z \in start .. num_zones] ==
        IF z = start THEN <<>>
        ELSE IF zns_zone_matches_filter(zafs, z - 1) /\ Len(descr[z - 1]) < max_zones
             THEN Append(descr[z - 1], z - 1) ELSE descr[z - 1]
  IN  descr[num_zones]

zns_zone_mgmt_recv(start, zafs, max_zones, partial) ==
  [nr_zones |-> CountZones(start, zafs, max_zones, partial),
   descr    |-> DescribeZones(start, zafs, max_zones)]

-----------------------------------------------------------------------------
(* Properties.                                                             *)

\* Each of the four lists holds the zones in its state, each once: list and
\* state are changed by separate statements of zns_assign_zone_state and
\* zns_auto_transition_zone, and an entry left behind would be closed, opened
\* or reset in the wrong state by a later walk.
ZoneListsExact ==
  \A s \in ListStates :
     /\ ToSet(n.list[s]) = {z \in Zones : n.zone[z].zs = s}
     /\ IsInjective(n.list[s])

Count(S) == Cardinality({z \in Zones : n.zone[z].zs \in S})

\* With a limit in force the hand-kept counts are exactly the numbers of open
\* and of active zones, and never above the limit: the assertions of
\* zns_aor_{inc,dec}_{open,active} hold, and no refused or half-done command
\* loses a resource.
ResourcesExact ==
  /\ n.nr_open   = IF n.max_open # 0 THEN Count(OpenStates) ELSE 0
  /\ n.nr_active = IF n.max_active # 0 THEN Count(ActiveStates) ELSE 0
  /\ n.max_open   # 0 => n.nr_open <= n.max_open
  /\ n.max_active # 0 => n.nr_active <= n.max_active

\* A write is refused for want of an open resource only when every open zone
\* was opened by the host: zns_auto_transition_zone has made room otherwise.
RefusedOnlyByExplicit ==
  LET s == zns_auto_transition_zone(n)
  IN  s.max_open # 0 /\ s.nr_open + 1 > s.max_open =>
        Count({"EXPLICITLY_OPEN"}) = n.max_open

\* Until a data mapping fails or an append runs past the capacity, what the
\* device reports of a zone is what it acts on: the reported pointer is the
\* one writes are checked against, it lies where the zone's state says, and a
\* host that continues there passes zns_check_zone_write. In every zone, the
\* zone is full exactly when its reported pointer is at the boundary.
ReportedIsTrue ==
  \A z \in Zones :
     LET d == n.zone[z]
         b == zns_zone_wr_boundary(z)
     IN  /\ (d.zs = "FULL") <=> (d.wp = b)
         /\ d.wp <= d.w_ptr
         /\ z \notin spoiled =>
              /\ d.wp = d.w_ptr /\ zslba(z) <= d.wp
              /\ d.zs = "EMPTY" => d.wp = zslba(z)
              /\ d.zs = "IMPLICITLY_OPEN" => d.wp # zslba(z)
              /\ d.zs # "FULL" => zns_check_zone_write(z, d.wp, 1, FALSE)

\* A zone the host has opened is closed only by the host's Close: no write to
\* another zone takes its open resource away.
ExplicitOpenKept ==
  [][\A z \in Zones :
       n.zone[z].zs = "EXPLICITLY_OPEN" /\ n'.zone[z].zs = "CLOSED" =>
         \/ ZoneSend("CLOSE", z)
         \/ bulk.op = "CLOSE" /\ zns_bulk_proc_zone]_vars

\* A report, made between other commands, describes the first zones, from the
\* requested one on, that match the filter, as many as fit; its count is of all
\* that match, or with the partial bit of those it describes.
ReportExact ==
  bulk = Idle =>
   \A start \in Zones, zafs \in ZoneFilters, max_zones \in 0 .. num_zones :
     LET hits   == {z \in start .. num_zones - 1 : zns_zone_matches_filter(zafs, z)}
         before(z) == Cardinality({y \in hits : y < z})
         fit    == {z \in hits : before(z) < max_zones}
         full   == zns_zone_mgmt_recv(start, zafs, max_zones, FALSE)
         part   == zns_zone_mgmt_recv(start, zafs, max_zones, TRUE)
     IN  /\ full.nr_zones = Cardinality(hits)
         /\ part.nr_zones = Cardinality(fit)
         /\ part.descr = full.descr
         /\ Len(full.descr) = Cardinality(fit)
         /\ \A z \in fit : full.descr[before(z) + 1] = z

=============================================================================
