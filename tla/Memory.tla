------------------------------- MODULE Memory -------------------------------
(***************************************************************************)
(* The registry of memories (he_mem): every array the host shares with the *)
(* kernels, or keeps for itself, is registered under an id and found by    *)
(* that id only.  A memory has a host copy, a device copy unless it is     *)
(* host-only, and a flag "the device copy is newer" the host keeps itself. *)
(*                                                                         *)
(* A registry is a record; the operators return the registry a call of the *)
(* code leaves behind.  Sizes count words of sizeof(int).                  *)
(***************************************************************************)
EXTENDS Integers, Sequences, FiniteSets, SequencesExt

CONSTANTS
  CuNum,        \* SUB_PARTITION_NUM
  MaxVertices,  \* MAX_VERTICES_IN_ONE_PARTITION
  Page,         \* the 64 KB every memory is a multiple of
  EdgeSlack,    \* ALIGN_SIZE * 4 * 128, room for the padding of edge arrays
  Interface     \* mapping.h: unit -> interface of its memory channel

ASSUME MemoryAssumption ==
  /\ {CuNum, MaxVertices, Page, EdgeSlack} \subseteq Nat \ {0}
  /\ Interface \in [0 .. CuNum - 1 -> 0 .. CuNum - 1]

Units == 0 .. CuNum - 1

Unset == -1000000      \* a word of a device nobody has written
None  == <<"none", 0>> \* get_he_mem returned NULL
-----------------------------------------------------------------------------
(* Ids.  A memory is named by its table and its index there: the id of the *)
(* fixed ones, the number of the sub-partition (partition * CuNum + unit)  *)
(* of the edge lists, the unit of the properties.                          *)

Base(id)     == <<"base", id>>
EdgeTail(i)  == <<"edgeTail", i>>
EdgeHead(i)  == <<"edgeHead", i>>
EdgeProp(i)  == <<"edgeProp", i>>
TmpProp(i)   == <<"tmpProp", i>>
Prop(k, cu)  == IF k = 0 THEN <<"propPing", cu>> ELSE <<"propPong", cu>>
CuTmpProp(u) == <<"cuTmpProp", u>>

BaseIds == (1 .. 26) \ {9, 13}

EdgeMemories   == {1, 2, 11, 12, 18, 19, 25}   \* SIZE_IN_EDGE
OnDevice       == {7, 8, 26}                   \* the others ATTR_HOST_ONLY
LocalMem == <<4, 26, 5, 14, 1, 2, 3, 15, 23, 24, 6, 7, 22, 8, 10, 11, 12, 25,
              16, 17, 18, 19, 21>>

PushinProp       == Base(3)
TmpVertexVerify  == Base(6)
OutDeg           == Base(7)
ResultReg        == Base(8)
BaseEdgeProp     == Base(12)
VertexPropVerify == Base(14)
PushinPropMapped == Base(15)
OutDegOrigin     == Base(22)
HostPropPing     == Base(23)
HostPropPong     == Base(24)

PartitionBase == 100
GsBase        == 8192
Offset        == 128      \* MEM_ID_PARTITION_OFFSET and MEM_ID_GS_OFFSET

MemId(d) ==
  CASE d[1] = "base"      -> d[2]
    [] d[1] = "edgeTail"  -> PartitionBase + d[2] * Offset
    [] d[1] = "edgeHead"  -> PartitionBase + d[2] * Offset + 1
    [] d[1] = "edgeProp"  -> PartitionBase + d[2] * Offset + 2
    [] d[1] = "tmpProp"   -> PartitionBase + d[2] * Offset + 3
    [] d[1] = "propPing"  -> GsBase + d[2] * Offset
    [] d[1] = "cuTmpProp" -> GsBase + d[2] * Offset + 1
    [] d[1] = "propPong"  -> GsBase + d[2] * Offset + 2

Descriptors ==
  {Base(id) : id \in BaseIds}
    \cup {<<n, i>> : n \in {"edgeTail", "edgeHead", "edgeProp", "tmpProp"},
                     i \in Nat}
    \cup {<<n, i>> : n \in {"propPing", "cuTmpProp", "propPong"}, i \in Units}

(* No two memories have the same id, so a lookup by id finds the memory it *)
(* was meant for: the code pushes every registration on the list without   *)
(* the check for duplicates it has as a TODO.                              *)
IdsDistinct == \A d, e \in Descriptors : MemId(d) = MemId(e) => d = e
-----------------------------------------------------------------------------
(* The registry                                                            *)

\* Mutant: the vertices are rounded down.
SizesOfDown(vertexNum, edgeNum) ==
  [edge   |-> edgeNum + EdgeSlack,
   vertex |-> (vertexNum \div MaxVertices) * MaxVertices,
   user   |-> 1]

\* local_size_ctrl: the scale of a memory counted in edges, in vertices, or
\* not counted
SizesOf(vertexNum, edgeNum) ==
  [edge   |-> edgeNum + EdgeSlack,
   vertex |-> ((vertexNum - 1) \div MaxVertices + 1) * MaxVertices,
   user   |-> 1]

NoMemory(sizes) ==
  [sizes |-> sizes, list |-> <<>>, hostOnly |-> {}, host |-> <<>>,
   device |-> <<>>, dirty |-> {}, failed |-> FALSE]

With(f, d, value) == (d :> value) @@ f
Filled(n, value) == [x \in 0 .. n - 1 |-> value]

(* get_aligned_size: nothing still takes a page.                           *)
AlignedSize(n) == IF n = 0 THEN Page ELSE ((n - 1) \div Page + 1) * Page

(* he_mem_init of a memory of n words: both copies are new.                *)
HeMemInit(m, d, hostOnly, n) ==
  LET size == AlignedSize(n)
  IN [m EXCEPT
        !.list     = Append(@, d),
        !.hostOnly = IF hostOnly THEN @ \cup {d} ELSE @,
        !.host     = With(@, d, Filled(size, 0)),
        !.device   = IF hostOnly THEN @ ELSE With(@, d, Filled(size, Unset)),
        !.dirty    = IF hostOnly THEN @ ELSE @ \ {d}]

(* get_he_mem: the first entry with the id.                                *)
GetHeMem(m, d) ==
  LET found == {i \in DOMAIN m.list : MemId(m.list[i]) = MemId(d)}
  IN IF found = {} THEN None
     ELSE m.list[CHOOSE i \in found : \A j \in found : i <= j]

(* get_host_mem_pointer: what is there, and writes through it              *)
HostOf(m, d) == m.host[GetHeMem(m, d)]
SetHost(m, d, data) ==
  LET g == GetHeMem(m, d) IN [m EXCEPT !.host[g] = data @@ @]

(* memcpy of a whole memory                                                *)
Copied(m, to, from) ==
  SetHost(m, to, [x \in DOMAIN HostOf(m, to) |-> HostOf(m, from)[x]])

(* he_set_dirty                                                            *)
SetDirty(m, ds) ==
  LET found == {GetHeMem(m, d) : d \in ds}
  IN [m EXCEPT !.dirty = @ \cup (found \ {None}),
               !.failed = @ \/ None \in found]

(* transfer_data_to_pl: an unknown id ends it; a host-only memory is       *)
(* passed over; the flags stay.                                            *)
TransferToPl(m, ds) ==
  LET unknown == {i \in DOMAIN ds : GetHeMem(m, ds[i]) = None}
      sent == {GetHeMem(m, ds[i]) :
                 i \in {i \in DOMAIN ds : \A j \in unknown : i < j}}
                \ m.hostOnly
  IN [m EXCEPT !.device = [d \in sent |-> m.host[d]] @@ @,
               !.failed = @ \/ unknown # {}]

(* transfer_data_from_pl: only what the host believes to be newer.         *)
TransferFromPl(m, d) ==
  LET g == GetHeMem(m, d)
  IN CASE g = None -> [m EXCEPT !.failed = TRUE]
       [] g \in m.dirty -> [m EXCEPT !.host[g] = m.device[g],
                                     !.dirty = @ \ {g}]
       [] OTHER -> m

TransferAllFromPl(m, ds) == FoldLeft(TransferFromPl, m, ds)

(* get_cl_mem_pointer for the arguments of a kernel: one that is unknown   *)
(* or host-only is passed on as a null pointer.                            *)
SetKernelArgs(m, ds) ==
  [m EXCEPT !.failed =
     @ \/ \E d \in ds : GetHeMem(m, d) \in m.hostOnly \cup {None}]

(* What a kernel finds behind an argument, and what it leaves there.       *)
DeviceOf(m, d) == m.device[GetHeMem(m, d)]
SetDevice(m, ds, data) ==
  LET found == {GetHeMem(m, d) : d \in ds}
  IN [m EXCEPT !.device = [d \in found |-> data @@ m.device[d]] @@ @]
-----------------------------------------------------------------------------
(* What the program registers                                              *)

ScaleOf(m, id) == IF id = 8 THEN m.sizes.user
                  ELSE IF id \in EdgeMemories THEN m.sizes.edge
                  ELSE m.sizes.vertex
RegWords == 2    \* 64 in the code
UnitSize(id) == IF id = 8 THEN RegWords ELSE IF id \in {10, 11} THEN 2 ELSE 1

BaseMemInit(m) ==
  LET init(acc, id) == HeMemInit(acc, Base(id), id \notin OnDevice,
                                 UnitSize(id) * ScaleOf(m, id))
  IN FoldLeft(init, m, LocalMem)

GsMemInit(m, cu) ==
  LET ping == HeMemInit(m, Prop(0, cu), FALSE, m.sizes.vertex)
      pong == HeMemInit(Copied(ping, Prop(0, cu), PushinPropMapped),
                        Prop(1, cu), FALSE, m.sizes.vertex)
  IN HeMemInit(Copied(pong, Prop(1, cu), PushinPropMapped),
               CuTmpProp(cu), FALSE, m.sizes.vertex)

Upto(n) == [k \in 1 .. n |-> k - 1]

ProcessMemInit(m) == FoldLeft(GsMemInit, m, Upto(CuNum))

(* The memories of sub-partition i, with a list of n edges                 *)
PartitionMemInit(m, i, n) ==
  LET tail == HeMemInit(m, EdgeTail(i), FALSE, n)
      head == HeMemInit(tail, EdgeHead(i), FALSE, n)
      prop == HeMemInit(head, EdgeProp(i), FALSE, n)
  IN HeMemInit(prop, TmpProp(i), FALSE, MaxVertices)

PartitionTransfer(m, blkNum) ==
  LET base  == TransferToPl(m, <<PushinPropMapped, OutDeg, ResultReg>>)
      list(acc, i) ==
        TransferToPl(acc, <<EdgeTail(i), EdgeHead(i), EdgeProp(i)>>)
      lists == FoldLeft(list, base, Upto(blkNum * CuNum))
      props(acc, cu) == TransferToPl(acc, <<Prop(0, cu), CuTmpProp(cu)>>)
  IN FoldLeft(props, lists, Upto(CuNum))

(* getCuIDbyInterface: the unit whose copy of the properties the apply     *)
(* kernel reads                                                            *)
DefaultKernel == 0
PropReader == Interface[DefaultKernel]
=============================================================================
