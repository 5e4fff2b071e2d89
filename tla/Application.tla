----------------------------- MODULE Application -----------------------------
(***************************************************************************)
(* A program built on the accelerator, from loading the graph to the end   *)
(* of main: bfs, cc and ar have a main of their own, sssp, wcc, pr and     *)
(* spmv the default entry.  It composes the memory registry, the functions *)
(* of the applications, the two kernels by what they compute, and the C    *)
(* model the program checks the kernels with.                              *)
(*                                                                         *)
(* A super-step runs partition after partition: that the command queues    *)
(* let it appear so is what SuperStep shows, that a list of edges gives    *)
(* the fold of its updates what the kernel modules show.  The scheduler is *)
(* any arrangement (Scheduler).  Vertices are the compressed ones unless   *)
(* they are called original.  Every list has edges: a gather-scatter       *)
(* kernel does not end on a list without (see SourceCache).                *)
(***************************************************************************)
EXTENDS Memory, Algorithms

CONSTANTS
  Programs,   \* set of <<application, graph>>; a graph is a record of its
              \* vertexNum, its edges <<source, target>> in CSR order and
              \* drawn, the vertices the random draws are bounded to
  Align,      \* ALIGN_SIZE
  NumSteps,   \* super-steps of default_entry and ar, 10 in the code
  MaxRuns,    \* repetitions of cc, 10 in the code
  MaxSteps    \* bound of the loops of bfs and cc, which have none

ASSUME ApplicationAssumption ==
  /\ {Align, NumSteps, MaxRuns, MaxSteps} \subseteq Nat \ {0}
  /\ MaxVertices % Align = 0
  /\ \A p \in Programs : p[1] \in AppNames

VARIABLES
  app, graph,     \* the program and its input
  pc,             \* the statement main is about to execute
  m,              \* the memory registry
  select,         \* the original vertices drawn at random
  order, cut,     \* getArrangedPartitionID; finalOrder of every partition
  listEnd,        \* listEnd of every sub-partition
  superStep, run, \* runCounter; j of cc
  active,         \* activeVertices
  closeness,      \* closenessCentrality of cc
  errors          \* <<check, vertex>> the C model reported since the last step

program  == <<app, graph>>
arranged == <<select, order, cut, listEnd>>
counters == <<superStep, run, active, closeness>>
vars == <<program, pc, m, arranged, counters, errors>>
-----------------------------------------------------------------------------
(* The graph: acceleratorDataLoad                                          *)

vertexNum == graph.vertexNum
edgeNum   == Len(graph.edges)
Originals == 0 .. vertexNum - 1
OutDegrees == [u \in Originals |->
                 Cardinality({e \in 1 .. edgeNum : graph.edges[e][1] = u})]

(* vertexMap: vertices without out-edges are not numbered.                 *)
VertexMap == [u \in Originals |->
                Cardinality({w \in Originals : w < u /\ OutDegrees[w] # 0})]
compressedVertexNum == Cardinality({u \in Originals : OutDegrees[u] # 0})
blkNum == (compressedVertexNum + MaxVertices - 1) \div MaxVertices
Partitions == 0 .. blkNum - 1

(* What the loop over the vertices leaves in outDeg, or, with properties   *)
(* for degrees, in vertexPushinPropMapped.                                 *)
Compress(values) ==
  [v \in 0 .. compressedVertexNum - 1 |->
     values[CHOOSE u \in Originals : VertexMap[u] = v /\ OutDegrees[u] # 0]]

DataLoad ==
  /\ pc = "load"
  /\ pc' = "preprocess"
  /\ LET base == BaseMemInit(NoMemory(SizesOf(vertexNum, edgeNum)))
     IN m' = SetHost(SetHost(base, OutDegOrigin, OutDegrees),
                     OutDeg, Compress(OutDegrees))
  /\ UNCHANGED <<program, arranged, counters, errors>>
-----------------------------------------------------------------------------
(* Properties and partitions: acceleratorDataPreprocess, reTransferProp    *)

DataPrepareProperty(mem, sel) ==
  LET degrees == HostOf(mem, OutDegOrigin)
      edges == SetHost(mem, BaseEdgeProp,
                       [e \in DOMAIN HostOf(mem, BaseEdgeProp) |->
                          InitialEdgeProp(app, e)])
  IN SetHost(edges, PushinProp,
             [u \in DOMAIN HostOf(mem, PushinProp) |->
                InitialProp(app, sel, vertexNum, degrees, u)])

MapProps(mem) ==
  SetHost(mem, PushinPropMapped, Compress(HostOf(mem, PushinProp)))

Start(i) == MaxVertices * i                            \* dstVertexStart
End(i) ==                                              \* dstVertexEnd
  (IF MaxVertices * (i + 1) > compressedVertexNum
   THEN compressedVertexNum ELSE MaxVertices * (i + 1)) - 1
PartVertices(i) == Start(i) .. Start(i) + MaxVertices - 1

Padding == -2       \* ENDFLAG - 1
PadNum(n) == Align - (n % Align)

(* The edges of partition i in CSR order, then padding with the source of  *)
(* the last of them.                                                       *)
EdgesOf(mem, i) ==
  LET map == VertexMap
      tail(e) == map[graph.edges[e][2]]
      chosen  == SetToSortSeq({e \in 1 .. edgeNum : tail(e) \in PartVertices(i)},
                              <)
      tuple(k) == [tail |-> tail(chosen[k]),
                   head |-> map[graph.edges[chosen[k]][1]],
                   prop |-> HostOf(mem, BaseEdgeProp)[chosen[k] - 1]]
      n == Len(chosen)
  IN [k \in 1 .. n + PadNum(n) |->
        IF k <= n THEN tuple(k)
        ELSE [tail |-> Padding, head |-> tuple(n).head, prop |-> 0]]

(* The list of the unit that is given the r-th cut.                        *)
ListOf(edges, r) ==
  LET size == ((Len(edges) \div CuNum) \div Align) * Align
  IN SubSeq(edges, size * r + 1,
            IF r = CuNum - 1 THEN Len(edges) ELSE size * (r + 1))

(* The iteration of partitionFunction that fills the sub-partitions of i   *)
AddPartition(cuts, mem, i) ==
  LET edges == EdgesOf(mem, i)
      fill(acc, d, list, field) ==
        SetHost(acc, d, [p \in 0 .. Len(list) - 1 |-> list[p + 1][field]])
      add(acc, u) ==
        LET sub  == i * CuNum + u
            list == ListOf(edges, cuts[i][u])
            new  == PartitionMemInit(acc, sub, Len(list))
        IN fill(fill(fill(new, EdgeTail(sub), list, "tail"),
                     EdgeHead(sub), list, "head"), EdgeProp(sub), list, "prop")
  IN FoldLeft(add, mem, Upto(CuNum))

ProgramMain == IF DefaultEntry(app) THEN "cmodel"
               ELSE IF app = "cc" THEN "repeat" ELSE "loop"

DataPreprocess ==
  /\ pc = "preprocess"
  /\ pc' = ProgramMain
  /\ \E sel \in Selections(app, graph.drawn),
        ord \in Permutations(Partitions),
        cuts \in [Partitions -> Permutations(Units)] :
       LET props == ProcessMemInit(MapProps(DataPrepareProperty(m, sel)))
           add(acc, i) == AddPartition(cuts, acc, i)
           lists == FoldLeft(add, props, Upto(blkNum))
       IN /\ select' = sel
          /\ order' = ord
          /\ cut' = cuts
          /\ listEnd' = [i \in Partitions |->
               LET edges == EdgesOf(props, i)
               IN [u \in Units |-> Len(ListOf(edges, cuts[i][u]))]]
          /\ m' = PartitionTransfer(lists, blkNum)
  /\ UNCHANGED <<program, counters, errors>>

(* One repetition of cc: reTransferProp with new random sources            *)
ReTransferProp ==
  /\ pc = "repeat"
  /\ pc' = "loop"
  /\ \E sel \in Selections(app, graph.drawn) :
       /\ select' = sel
       /\ m' = PartitionTransfer(
                 ProcessMemInit(MapProps(DataPrepareProperty(m, sel))), blkNum)
  /\ superStep' = 0
  /\ active' = 1
  /\ closeness' = [i \in Bits |-> 0]
  /\ UNCHANGED <<program, order, cut, listEnd, run, errors>>
-----------------------------------------------------------------------------
(* acceleratorSuperStep                                                    *)

RoundedNum(i) == ((End(i) - Start(i)) \div Align + 1) * Align
arg == ApplyArg(app, vertexNum, edgeNum)
Degree(data, v) == IF HaveApplyOutDeg(app) THEN data[v] ELSE 0

(* The updates of positions ps, folded in their order                      *)
Gathered(ps, update(_)) ==
  LET fold(acc, p) == Gather(app, acc, update(p))
  IN FoldLeft(fold, 0, SetToSortSeq(ps, <))

(* The gather-scatter kernel of unit u on partition i                      *)
GatherScatter(mem, i, u, s) ==
  LET sub  == i * CuNum + u
      tail == DeviceOf(mem, EdgeTail(sub))
      head == DeviceOf(mem, EdgeHead(sub))
      edgeProp == DeviceOf(mem, EdgeProp(sub))
      prop == DeviceOf(mem, Prop(s % 2, u))
      update(p) == IF HaveEdgeProp(app)
                   THEN Scatter(app, prop[head[p]], edgeProp[p])
                   ELSE Preprocess(app, prop[head[p]])
      kept == {p \in 0 .. listEnd[i][u] - 1 :
                 tail[p] # Padding /\ IsActive(app, update(p))}
      args == SetDirty(SetKernelArgs(mem,
                {EdgeTail(sub), EdgeHead(sub), Prop(s % 2, u), TmpProp(sub)}
                  \cup IF HaveEdgeProp(app) THEN {EdgeProp(sub)} ELSE {}),
                {TmpProp(sub)})
  IN SetDevice(args, {TmpProp(sub)},
       [x \in 0 .. MaxVertices - 1 |->
          Gathered({p \in kept : tail[p] % MaxVertices = x}, update)])

(* Mutant: the accumulated properties of the last unit are not merged.     *)
MergedButLast(parts, x) ==
  LET merge(acc, part) == Gather(app, part[x], acc)
  IN FoldLeft(merge, 0, SubSeq(parts, 1, CuNum - 1))

(* The chain of cuMerge, whose first input is zero                         *)
Merged(parts, x) ==
  LET merge(acc, part) == Gather(app, part[x], acc)
  IN FoldLeft(merge, 0, parts)

SubsOf(i) == [u \in 1 .. CuNum |-> i * CuNum + u - 1]
PropsOf(s) == {Prop(s % 2, u) : u \in Units}

(* Mutant: only the first unit's new properties are marked.                *)
DirtiedFirst(s) == {Prop((s + 1) % 2, 0), ResultReg}

Dirtied(s) == PropsOf(s + 1) \cup {ResultReg}

(* The apply kernel on partition i                                         *)
ApplyKernel(mem, i, s) ==
  LET parts == [k \in 1 .. CuNum |-> DeviceOf(mem, TmpProp(SubsOf(i)[k]))]
      prop  == DeviceOf(mem, Prop(s % 2, PropReader))
      degrees == DeviceOf(mem, OutDeg)
      range == 0 .. RoundedNum(i) - 1
      new == [v \in {Start(i) + x : x \in range} |->
                ApplyFunc(app, Merged(parts, v - Start(i)), prop[v],
                          Degree(degrees, v), arg)]
      counted(j) == {x \in range :
                       Extra(app, Merged(parts, x), prop[Start(i) + x], j)}
      args == SetDirty(SetKernelArgs(mem,
                {Prop(s % 2, PropReader), ResultReg} \cup PropsOf(s + 1)
                  \cup {TmpProp(SubsOf(i)[k]) : k \in 1 .. CuNum}
                  \cup IF HaveApplyOutDeg(app) THEN {OutDeg} ELSE {}),
                Dirtied(s))
  IN SetDevice(SetDevice(args, PropsOf(s + 1), new), {ResultReg},
               [j \in 0 .. RegWords - 1 |-> Cardinality(counted(j))])

SuperStep ==
  /\ pc = "loop"
  /\ IF app \in {"bfs", "cc"} THEN active # 0 /\ superStep < MaxSteps
     ELSE superStep < NumSteps
  /\ pc' = CASE DefaultEntry(app)    -> "cmodelStep"
             [] app \in {"bfs", "cc"} -> "query"
             [] app = "ar"            -> "profile"
  /\ LET step(acc, k) ==
           LET i == order[k]
               gather(mem, u) == GatherScatter(mem, i, u, superStep)
               gathered == FoldLeft(gather, acc, Upto(CuNum))
           IN IF HaveApply(app) THEN ApplyKernel(gathered, i, superStep)
              ELSE gathered
     IN m' = FoldLeft(step, m, Upto(blkNum))
  /\ errors' = {}
  /\ UNCHANGED <<program, arranged, counters>>
-----------------------------------------------------------------------------
(* Between super-steps                                                     *)

(* acceleratorQueryRegister, and what bfs and cc do with the counts        *)
QueryRegister ==
  /\ pc = "query"
  /\ pc' = "profile"
  /\ m' = TransferFromPl(m, ResultReg)
  /\ LET reg == HostOf(m', ResultReg)
     IN IF app = "bfs"
        THEN active' = reg[0] /\ UNCHANGED closeness
        ELSE /\ active' = MapThenSumSet(LAMBDA i : reg[i], Bits)
             /\ closeness' = [i \in Bits |->
                                closeness[i] + reg[i] * superStep]
  /\ UNCHANGED <<program, arranged, superStep, run, errors>>
-----------------------------------------------------------------------------
(* The C model                                                             *)

(* The program with the default entry only                                 *)
CModelDataPreprocess ==
  /\ pc = "cmodel"
  /\ pc' = "loop"
  /\ m' = Copied(m, HostPropPing, PushinPropMapped)
  /\ UNCHANGED <<program, arranged, counters, errors>>

CUpdate(srcProp, edgeProp) ==
  Scatter(app, Preprocess(app, srcProp),
          IF HaveEdgeProp(app) THEN edgeProp ELSE 0)

(* acceleratorCModelSuperStep: the step on the CSR arrays, compared with   *)
(* the new properties of unit 0 for as many entries as the graph has       *)
(* original vertices.  Without an apply kernel there is nothing to it.     *)
CModelSuperStep ==
  /\ pc = "cmodelStep"
  /\ pc' = "profile"
  /\ LET prop == HostOf(m, HostPropPing)
         degrees == HostOf(m, OutDeg)
         map == VertexMap
         source(e) == prop[map[graph.edges[e][1]]]
         update(e) == CUpdate(source(e), HostOf(m, BaseEdgeProp)[e - 1])
         verify == [v \in DOMAIN prop |->
                      Gathered({e \in 1 .. edgeNum :
                                  /\ map[graph.edges[e][2]] = v
                                  /\ IsActive(app, source(e))}, update)]
         pong == [v \in Originals |->
                    ApplyFunc(app, verify[v], prop[v], degrees[v], arg)]
                   @@ HostOf(m, HostPropPong)
         result == Prop((superStep + 1) % 2, 0)
         read == TransferFromPl(m, result)
     IN IF HaveApply(app)
        THEN /\ errors' = errors \cup
                  {<<"superStep", v>> :
                     v \in {w \in Originals :
                              pong[w] # HostOf(read, result)[w]}}
             /\ m' = SetHost(SetHost(SetHost(read, TmpVertexVerify, verify),
                                     HostPropPong, pong), HostPropPing, pong)
        ELSE UNCHANGED <<m, errors>>
  /\ UNCHANGED <<program, arranged, counters>>

(* partitionGatherScatterCModel for unit u on partition i: the list folded *)
(* from what the host has fetched.  What padding adds goes to the word -2  *)
(* of the array, outside of it.                                            *)
GsVerify(mem, i, u, s) ==
  LET sub  == i * CuNum + u
      prop == HostOf(mem, Prop(s % 2, 0))
      tail == HostOf(mem, EdgeTail(sub))
      head == HostOf(mem, EdgeHead(sub))
      edgeProp == HostOf(mem, EdgeProp(sub))
      address(p) == IF tail[p] > End(i) THEN End(i) ELSE tail[p]
      update(p)  == CUpdate(prop[head[p]], edgeProp[p])
      activeAt(v) == {p \in 0 .. listEnd[i][u] - 1 :
                        address(p) = v /\ IsActive(app, prop[head[p]])}
  IN [v \in DOMAIN HostOf(mem, TmpVertexVerify) |->
        Gathered(activeAt(v), update)]

GsErrors(mem, i, u, s) ==
  LET verify == GsVerify(mem, i, u, s)
      tmp    == HostOf(mem, TmpProp(i * CuNum + u))
  IN {<<"gs", v>> : v \in {w \in Start(i) .. End(i) - 1 :
                            verify[w] # tmp[w - Start(i)]}}

(* partitionApplyCModel on partition i                                     *)
ApplyVerify(mem, i, s) ==
  LET prop    == HostOf(mem, Prop(s % 2, 0))
      degrees == HostOf(mem, OutDeg)
      parts   == [k \in 1 .. CuNum |-> HostOf(mem, TmpProp(SubsOf(i)[k]))]
      merge(x) ==
        LET fold(p, part) == Gather(app, p, part[x]) IN FoldLeft(fold, 0, parts)
  IN [x \in 0 .. MaxVertices - 1 |->
        ApplyFunc(app, merge(x), prop[x + Start(i)], degrees[x + Start(i)], arg)]

ApplyErrors(mem, i, s) ==
  LET verify == ApplyVerify(mem, i, s)
      new    == HostOf(mem, Prop((s + 1) % 2, 0))
  IN {<<"apply", x + Start(i)>> : x \in {y \in 0 .. End(i) - Start(i) :
                                         verify[y] # new[y + Start(i)]}}

(* What the C models of the kernels fetch, each when it needs it; the flag *)
(* lets a memory be fetched once, and nothing fetched changes meanwhile.   *)
Fetched(s) ==
  <<Prop(s % 2, 0)>> \o [k \in 1 .. blkNum * CuNum |-> TmpProp(k - 1)]
    \o (IF HaveApply(app) THEN <<Prop((s + 1) % 2, 0)>> ELSE <<>>)

(* acceleratorProfile, and the end of the loop body.  The C models leave   *)
(* what they computed last in their arrays.                                *)
Profile ==
  /\ pc = "profile"
  /\ pc' = "loop"
  /\ \E mem \in {TransferAllFromPl(m, Fetched(superStep))} :
       LET gs == GsVerify(mem, blkNum - 1, CuNum - 1, superStep)
           checked == SetHost(mem, TmpVertexVerify, gs)
       IN /\ m' = IF HaveApply(app)
                  THEN SetHost(checked, VertexPropVerify,
                               ApplyVerify(mem, order[blkNum - 1], superStep))
                  ELSE checked
          /\ errors' = errors
               \cup UNION {GsErrors(mem, i, u, superStep) :
                             i \in Partitions, u \in Units}
               \cup UNION {ApplyErrors(mem, i, superStep) :
                             i \in IF HaveApply(app) THEN Partitions ELSE {}}
  /\ superStep' = superStep + 1
  /\ UNCHANGED <<program, arranged, run, active, closeness>>

(* The condition of the loop fails: cc repeats, the others return.         *)
LeaveLoop ==
  /\ pc = "loop"
  /\ IF app \in {"bfs", "cc"} THEN active = 0 ELSE superStep = NumSteps
  /\ IF app = "cc" /\ run + 1 < MaxRuns
     THEN pc' = "repeat" /\ run' = run + 1
     ELSE pc' = "done" /\ UNCHANGED run
  /\ UNCHANGED <<program, m, arranged, superStep, active, closeness, errors>>
-----------------------------------------------------------------------------
Init ==
  /\ \E p \in Programs : app = p[1] /\ graph = p[2]
  /\ pc = "load"
  /\ m = NoMemory([edge |-> 0, vertex |-> 0, user |-> 0])
  /\ select = <<>> /\ order = <<>> /\ cut = <<>> /\ listEnd = <<>>
  /\ superStep = 0 /\ run = 0 /\ active = 1
  /\ closeness = [i \in Bits |-> 0]
  /\ errors = {}

Next == \/ DataLoad \/ DataPreprocess \/ ReTransferProp \/ CModelDataPreprocess
        \/ SuperStep \/ QueryRegister \/ CModelSuperStep \/ Profile \/ LeaveLoop

Spec == Init /\ [][Next]_vars

(* main is one thread that goes on as long as it has a statement: weak     *)
(* fairness of Next, whose ENABLED is written out because evaluating it    *)
(* would take the step.  A loop stopped by MaxSteps has no next step.      *)
Stopped == \/ pc = "done"
           \/ pc = "loop" /\ app \in {"bfs", "cc"} /\ active # 0
                /\ superStep = MaxSteps
Fairness == []<>Stopped \/ []<><<Next>>_vars

FairSpec == Spec /\ Fairness
-----------------------------------------------------------------------------
(* Properties                                                              *)

(* The program counter, the counters and the arrangement have their        *)
(* values, and the registry its shape: a host copy of every registered     *)
(* memory, a device copy of those that are not host-only; no write left    *)
(* the size of a memory.  No list of the instance is empty.                *)
TypeOK ==
  /\ <<app, graph>> \in Programs
  /\ pc \in {"load", "preprocess", "cmodel", "repeat", "loop", "cmodelStep",
              "query", "profile", "done"}
  /\ superStep \in Nat /\ run \in 0 .. MaxRuns - 1 /\ active \in Nat
  /\ closeness \in [Bits -> Nat]
  /\ order = <<>> \/ order \in Permutations(Partitions)
  /\ cut = <<>> \/ cut \in [Partitions -> Permutations(Units)]
  /\ \A i \in DOMAIN listEnd, u \in Units : listEnd[i][u] \in Nat \ {0}
  /\ DOMAIN m.host = {m.list[k] : k \in DOMAIN m.list}
  /\ DOMAIN m.device = DOMAIN m.host \ m.hostOnly
  /\ m.dirty \subseteq DOMAIN m.device
  /\ \A d \in DOMAIN m.device : DOMAIN m.device[d] = DOMAIN m.host[d]
  /\ \A d \in DOMAIN m.host :
       DOMAIN m.host[d] = 0 .. AlignedSize(Cardinality(DOMAIN m.host[d])) - 1

(* A copy of the host that is not marked is what the device holds, and the *)
(* units hold the same properties: the apply kernel may read any of them   *)
(* and the host query any of them.  No lookup of a memory fails (he_mem).  *)
Coherent ==
  /\ ~ m.failed
  /\ \A d \in DOMAIN m.device \ m.dirty : \A x \in DOMAIN m.device[d] :
       m.device[d][x] \in {Unset, m.host[d][x]}
  /\ pc \in {"loop", "cmodelStep", "query", "profile"} =>
       \A k \in 0 .. 1, u \in Units :
         m.device[Prop(k, u)] = m.device[Prop(k, 0)]

(* The C model reports no difference in the property of a vertex.  Beyond  *)
(* the vertices it does: acceleratorCModelSuperStep compares as many       *)
(* entries as the graph has original vertices.  And for spmv it does after *)
(* odd steps: without an apply kernel nobody writes the memories those     *)
(* steps read, partitionTransfer sends the ones of even steps only.        *)
CModelAgrees ==
  \A e \in errors : \/ e[2] >= compressedVertexNum
                    \/ ~ HaveApply(app) /\ superStep % 2 = 0

(* What an application computes, said of the graph alone: the walks of     *)
(* exactly k edges from a vertex and the least weight of one.              *)
Inf == 10000
Numbered == 0 .. blkNum * MaxVertices - 1
Weight(e) == IF app = "sssp" THEN (e - 1) % EdgeProps ELSE 1
LeastOf(S) == IF S = {} THEN Inf ELSE Min(S)
LongerWalks(walks) ==
  [v \in Numbered |->
     LeastOf({walks[VertexMap[graph.edges[e][1]]] + Weight(e) :
        e \in {f \in 1 .. edgeNum :
                 /\ VertexMap[graph.edges[f][2]] = v
                 /\ walks[VertexMap[graph.edges[f][1]]] < Inf}})]
Walks(k, sources) ==
  FoldLeft(LAMBDA walks, x : LongerWalks(walks),
           [v \in Numbered |-> IF v \in sources THEN 0 ELSE Inf], Upto(k))

(* The vertices whose property the draw of source i changed                *)
SourcesOf(i) ==
  {VertexMap[u] : u \in {w \in Originals :
     /\ OutDegrees[w] # 0
     /\ SourcesAt(select, w) # {} /\ LastSource(select, w) = i}}

(* The fewest edges from source i to v, up to limit; more stands for none. *)
Hops(i, v, limit) ==
  LeastOf({k \in 0 .. limit : Walks(k, SourcesOf(i))[v] < Inf})

StepsDone == superStep + (IF pc \in {"cmodelStep", "query", "profile"}
                          THEN 1 ELSE 0)

DistanceOf(v, s) ==
  LET h == Hops(0, v, s)
  IN CASE v >= compressedVertexNum -> 0
       [] h > s -> MaxProp
       [] OTHER -> 1 + Walks(h, SourcesOf(0))[v]
                     + (IF h = s THEN ActiveBit ELSE 0)

ReachedBits(v, s) ==
  MapThenSumSet(LAMBDA i : IF Hops(i, v, s) <= s THEN 2 ^ i ELSE 0, Bits)

Expected(v, s) ==
  CASE app \in {"bfs", "sssp"} -> DistanceOf(v, s)
    [] app = "cc"  -> ReachedBits(v, s)
    [] app = "wcc" -> IF Walks(s, SourcesOf(0))[v] < Inf THEN 1 ELSE 0

Rounded == UNION {Start(i) .. Start(i) + RoundedNum(i) - 1 : i \in Partitions}

(* After s super-steps bfs and sssp have given every vertex within s edges *)
(* of the source its distance, and the active bit to those at s; the       *)
(* distance of sssp is the least of a walk with the fewest edges, not of   *)
(* any walk.  cc has the sources within s edges, and wcc a 1 exactly where *)
(* a walk of s edges ends.  Holds of the compressed graph, for every       *)
(* arrangement of lists and partitions.                                    *)
ReachedExactly ==
  pc \in {"loop", "cmodelStep", "query", "profile"}
    /\ app \in {"bfs", "sssp", "cc", "wcc"} =>
    \A v \in Rounded :
      m.device[Prop(StepsDone % 2, PropReader)][v] = Expected(v, StepsDone)

(* Every program ends: bfs and cc, whose loop has no other bound, once no  *)
(* vertex is newly reached.                                                *)
MainEnds == <>(pc = "done")
=============================================================================
