----------------------------- MODULE PrpBackend -----------------------------
(***************************************************************************)
(* The walk over a command's PRP entries (dma.c) and the copy between the  *)
(* host memory it finds and the DRAM backend (backend/dram.c).             *)
(*                                                                         *)
(* Host memory and the backend are functions over half pages, so that a    *)
(* PRP may point into the middle of a page; address 0 is the null entry.   *)
(* A list page is a sequence of entries.                                   *)
(***************************************************************************)
EXTENDS Naturals, Sequences, FiniteSetsExt

CONSTANTS NsBlks,        \* sectors of the namespace
          Vals,          \* the contents hosts write
          MaxPrpEnts     \* n->max_prp_ents: entries of one list page

ASSUME BackendAssumption == NsBlks \in Nat \ {0} /\ MaxPrpEnts \in Nat \ {0, 1}

VARIABLES logical_space,  \* half sector -> contents
          expected,       \* half sector -> what the last acknowledged write put there
          truthful        \* whether the last read delivered what was expected

backendVars == <<logical_space, expected, truthful>>

PageSize == 2             \* in half pages; a sector has the same size
HalfSectors == 0 .. PageSize * NsBlks - 1
Blank == <<0, 0>>

BackendInit ==            \* init_dram_backend: zeroed memory
    /\ logical_space = [u \in HalfSectors |-> Blank]
    /\ expected = [u \in HalfSectors |-> Blank]
    /\ truthful = TRUE
-----------------------------------------------------------------------------
(* dma.c *)

MinOf(a, b) == IF a < b THEN a ELSE b

\* An entry of a list that may be used: neither null nor pointing inside a page.
UsableEntry(ent) == ent # 0 /\ ent % PageSize = 0

\* One round of the loop over the list: a chain entry is followed first, when this is
\* the last slot of the list page and more than one page is left.  "sg" collects the
\* pieces [base, len]; "ok" turns FALSE at the "goto unmap" exits.
ListStep(mem, w) ==
    LET ent0    == mem[w.list][w.i]
        chained == w.i = MaxPrpEnts /\ w.len > PageSize
        broken  == chained /\ ~UsableEntry(ent0)
        list1   == IF chained THEN ent0 ELSE w.list
        i1      == IF chained THEN 1 ELSE w.i
        ent     == IF broken THEN 0 ELSE mem[list1][i1]
        trans   == MinOf(w.len, PageSize)
    IN  IF ~w.ok \/ w.len = 0 THEN w
        ELSE IF broken \/ ~UsableEntry(ent) THEN [w EXCEPT !.ok = FALSE]
        ELSE [ok |-> TRUE, len |-> w.len - trans, list |-> list1, i |-> i1 + 1,
              sg |-> Append(w.sg, [base |-> ent, len |-> trans])]

\* nvme_map_prp: the pieces of a transfer of len half pages, or ok = FALSE.
nvme_map_prp(mem, prp1, prp2, len) ==
    LET trans == MinOf(len, PageSize - (prp1 % PageSize))
        rest  == len - trans
        first == <<[base |-> prp1, len |-> trans]>>
        none  == [ok |-> FALSE, sg |-> <<>>]
        walk[k \in 0 .. rest] ==
            IF k = 0 THEN [ok |-> TRUE, len |-> rest, list |-> prp2, i |-> 1, sg |-> first]
            ELSE ListStep(mem, walk[k - 1])
    IN  IF prp1 = 0 THEN none
        ELSE IF rest = 0 THEN [ok |-> TRUE, sg |-> first]
        ELSE IF prp2 = 0 THEN none
        ELSE IF rest > PageSize THEN [ok |-> walk[rest].ok, sg |-> walk[rest].sg]
        ELSE IF prp2 % PageSize # 0 THEN none
        ELSE [ok |-> TRUE, sg |-> Append(first, [base |-> prp2, len |-> rest])]
-----------------------------------------------------------------------------
(* backend/dram.c *)

\* A bug: the offset is not advanced between the pieces of a range.
PieceOffset_Stuck(ocssd, sg, lbal, k) == IF ocssd THEN lbal[k] ELSE lbal[1]

\* Where piece k goes, given the offsets the caller passes: offset k of the list in the
\* open-channel modes, right behind the piece before in the others.
PieceOffset(ocssd, sg, lbal, k) ==
    LET behind[j \in 1 .. Len(sg)] ==
            IF j = 1 THEN lbal[1] ELSE behind[j - 1] + sg[j - 1].len
    IN  IF ocssd THEN lbal[k] ELSE behind[k]

Covers(ocssd, sg, lbal, k, u) ==
    LET off == PieceOffset(ocssd, sg, lbal, k) IN u >= off /\ u < off + sg[k].len

\* The backend after a write: a later piece overwrites an earlier one.
backend_write(mem, sg, lbal, ocssd) ==
    [u \in HalfSectors |->
        LET hits == {k \in DOMAIN sg : Covers(ocssd, sg, lbal, k, u)}
            k    == Max(hits)
        IN  IF hits = {} THEN logical_space[u]
            ELSE mem[sg[k].base + u - PieceOffset(ocssd, sg, lbal, k)]]

\* The host memory after a read.
backend_read(mem, sg, lbal, ocssd) ==
    [a \in DOMAIN mem |->
        LET hits == {k \in DOMAIN sg : a >= sg[k].base /\ a < sg[k].base + sg[k].len}
            k    == Max(hits)
        IN  IF hits = {} THEN mem[a]
            ELSE logical_space[PieceOffset(ocssd, sg, lbal, k) + a - sg[k].base]]
-----------------------------------------------------------------------------
(* What a host driver prepares (external): a buffer of len half pages that starts *)
(* off half pages into its first page, its pages scattered, and the PRP entries.  *)

BufPage(k)   == PageSize * (2 * k)         \* page k of the buffer, k = 1 ..
ListPage(j)  == PageSize * (2 * j + 1)     \* list page j, j = 0 ..
PageNo(a)    == a \div (2 * PageSize)      \* the k or the j of an address
Pages(len, off) == (len + off + PageSize - 1) \div PageSize

\* List page j of a buffer of np pages: the entries of the pages from 2 + j(M-1) on when
\* they fit in M = MaxPrpEnts, else all but one of them and the next list page.
PrpList(np, j) ==
    LET start == 2 + j * (MaxPrpEnts - 1)
        left  == IF np >= start THEN np - start + 1 ELSE 0
    IN  IF left <= MaxPrpEnts
        THEN [k \in 1 .. left |-> BufPage(start + k - 1)]
        ELSE [k \in 1 .. MaxPrpEnts |-> IF k < MaxPrpEnts THEN BufPage(start + k - 1)
                                        ELSE ListPage(j + 1)]

\* Where half page j of the buffer lies, j = 1 ..
BufAddr(off, j) == BufPage((j + off - 1) \div PageSize + 1) + ((j + off - 1) % PageSize)

\* Half page j of a buffer written with value v holds <<v, j>>.
HostMem(v, len, off) ==
    LET np   == Pages(len, off)
        data == {BufPage(k) + h : k \in 1 .. np, h \in 0 .. PageSize - 1}
    IN  [a \in data \cup {ListPage(j) : j \in 0 .. np} |->
            IF a \in data
            THEN <<v, PageSize * (PageNo(a) - 1) + (a % PageSize) - off + 1>>
            ELSE PrpList(np, PageNo(a))]

Prp1(off) == BufPage(1) + off
Prp2(len, off) == CASE Pages(len, off) = 1 -> 0
                    [] Pages(len, off) = 2 -> BufPage(2)
                    [] OTHER -> ListPage(0)

\* The PRP entries of a command: as the driver must prepare them, or with a null entry.
Mapped(v, len, off, prp_ok) ==
    nvme_map_prp(HostMem(v, len, off), IF prp_ok THEN Prp1(off) ELSE 0, Prp2(len, off), len)
-----------------------------------------------------------------------------
(* Transfers. *)

\* The half sector that half page j of the host's buffer belongs to.
Target(ocssd, lbal, j) ==
    IF ocssd THEN lbal[((j - 1) \div PageSize) + 1] + ((j - 1) % PageSize)
    ELSE lbal[1] + j - 1

\* The data part of a write of len half pages.
WriteData(lbal, len, v, off, ocssd) ==
    /\ logical_space' =
         backend_write(HostMem(v, len, off), Mapped(v, len, off, TRUE).sg, lbal, ocssd)
    /\ expected' = [u \in HalfSectors |->
                       LET hits == {j \in 1 .. len : Target(ocssd, lbal, j) = u}
                       IN  IF hits = {} THEN expected[u] ELSE <<v, Max(hits)>>]
    /\ UNCHANGED truthful

\* The data part of a read of len half pages.
ReadData(lbal, len, off, ocssd) ==
    LET got == backend_read(HostMem(0, len, off), Mapped(0, len, off, TRUE).sg, lbal, ocssd)
    IN  /\ truthful' = \A j \in 1 .. len : got[BufAddr(off, j)] = expected[Target(ocssd, lbal, j)]
        /\ UNCHANGED <<logical_space, expected>>

\* Byte offsets of a list of sectors of one page each.
SectorOffsets(addrs) == [i \in DOMAIN addrs |-> PageSize * addrs[i]]

\* Every read delivers, half page by half page, what the last acknowledged write put in
\* the sectors it names: across scattered and unaligned host buffers, PRP lists chained
\* over several pages, and address lists that jump about or name a sector twice.
DataReadBack == truthful
=============================================================================
