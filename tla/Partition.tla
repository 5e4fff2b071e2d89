------------------------------ MODULE Partition ------------------------------
(***************************************************************************)
(* The host's preparation of a graph: loading (Graph, CSR and              *)
(* acceleratorDataLoad), cutting it into destination partitions and every  *)
(* partition into one list of edges per compute unit (partitionFunction),  *)
(* with the arrangements of the second-order-estimator scheduler.  The     *)
(* lists are what the gather-scatter kernels stream.                       *)
(*                                                                         *)
(* An action stands for loading, for one iteration of the loop over the    *)
(* partitions, or for the final ordering.  An edge property is the edge's  *)
(* position in the CSR arrays, so that it can be seen where it ends up.    *)
(* The lines of a graph file are a set: a file without repeated lines.     *)
(***************************************************************************)
EXTENDS Integers, Sequences, FiniteSets

CONSTANTS
    Lines,              \* the lines <<source, destination>> files are made of
    Modes,              \* subset of BOOLEAN: is the file name an "ungraph"?
    MAX_VERTICES_IN_ONE_PARTITION,
    SUB_PARTITION_NUM,  \* compute units
    ALIGN_SIZE,         \* edges are padded to a multiple of this
    Stray,              \* what the word before a host array may hold
    Estimate(_, _),     \* performanceEstimator(vertices, edges)
    MaxRange            \* bound of the vertices, and so of the source ranges of lists

Cus == 0..SUB_PARTITION_NUM - 1
Padding == -1           \* ENDFLAG - 1, larger than every vertex

VARIABLES
    phase,              \* "file", "loaded", "done"
    lines, ungraph,     \* the file
    rpa, cia,           \* CSR arrays in host memory
    vertexMap,          \* MEM_ID_VERTEX_INDEX_MAP
    vertexRemap,        \* MEM_ID_VERTEX_INDEX_REMAP
    partitions,         \* the descriptors filled so far; i is at i + 1
    cuPerformance,      \* of the scheduler
    partIdTable         \* order of the partitions, of the scheduler

file == <<lines, ungraph>>
csr == <<rpa, cia, vertexMap, vertexRemap>>
vars == <<phase, file, csr, partitions, cuPerformance, partIdTable>>

LeastOf(S) == CHOOSE x \in S : \A y \in S : x <= y
GreatestOf(S) == CHOOSE x \in S : \A y \in S : x >= y
Below(S, x) == Cardinality({y \in S : y < x})

------------------------------------------------------------------------------
(* Graph and CSR *)

vertexNum == GreatestOf({l[1] : l \in lines} \union {l[2] : l \in lines}) + 1
Vertices == 0..vertexNum - 1

(* Graph::Graph appends every line to outVid of its source, and of its     *)
(* destination if the file is undirected.                                  *)
Arcs ==
    {<<l[1], l[2], 0>> : l \in lines}
      \union {<<l[2], l[1], 1>> : l \in {k \in lines : ungraph /\ k[1] # k[2]}}

(* Position in ciao: sources in order, outVid of each source sorted.       *)
Before(a, b) ==
    \/ a[1] < b[1]
    \/ a[1] = b[1] /\ a[2] < b[2]
    \/ a[1] = b[1] /\ a[2] = b[2] /\ a[3] < b[3]
Position(a) == Cardinality({b \in Arcs : Before(b, a)})
ciao == [p \in 0..Cardinality(Arcs) - 1 |->
            (CHOOSE a \in Arcs : Position(a) = p)[2]]
rpao == [u \in 0..vertexNum |-> Cardinality({a \in Arcs : a[1] < u})]

(* CSR.edgeNum is the number of lines; the rest of cia is zeroed memory.   *)
edgeNum == Cardinality(lines)

Source(p) == CHOOSE u \in Vertices : rpa[u] <= p /\ p < rpa[u + 1]
Positions == 0..rpa[vertexNum] - 1

(* Mutant: all vertices are numbered.                                      *)
MappedAll(degree) ==
    [u \in DOMAIN degree |-> Cardinality({w \in DOMAIN degree : w < u})]

(* The loop over the vertices that numbers those with out-edges.           *)
Mapped(degree) ==
    [u \in DOMAIN degree |->
        Cardinality({w \in DOMAIN degree : w < u /\ degree[w] # 0})]
Remapped(degree) ==
    LET sources == {u \in DOMAIN degree : degree[u] # 0}
    IN [s \in 0..Cardinality(sources) - 1 |->
           CHOOSE u \in sources : Below(sources, u) = s]

compressedVertexNum == Cardinality(DOMAIN vertexRemap)
blkNum == (compressedVertexNum + MAX_VERTICES_IN_ONE_PARTITION - 1)
            \div MAX_VERTICES_IN_ONE_PARTITION

Load ==
    /\ phase = "file"
    /\ phase' = "loaded"
    /\ rpa' = rpao
    /\ cia' = [p \in DOMAIN ciao |-> IF p < edgeNum THEN ciao[p] ELSE 0]
    /\ LET degree == [u \in Vertices |-> rpao[u + 1] - rpao[u]]
       IN /\ vertexMap' = Mapped(degree)
          /\ vertexRemap' = Remapped(degree)
    /\ UNCHANGED <<file, partitions, cuPerformance, partIdTable>>

------------------------------------------------------------------------------
(* One partition *)

(* Mutant: the first vertex of a partition is taken to be outside.         *)
SelectedAbove(i) ==
    {p \in Positions :
        LET v == vertexMap[cia[p]]
        IN /\ v > i * MAX_VERTICES_IN_ONE_PARTITION
           /\ v < (i + 1) * MAX_VERTICES_IN_ONE_PARTITION}

Selected(i) ==
    {p \in Positions :
        LET v == vertexMap[cia[p]]
        IN /\ v >= i * MAX_VERTICES_IN_ONE_PARTITION
           /\ v < (i + 1) * MAX_VERTICES_IN_ONE_PARTITION}

Tuple(p) == [tail |-> vertexMap[cia[p]], head |-> vertexMap[Source(p)],
             prop |-> p]

PaddedSize(n) == n + (ALIGN_SIZE - (n % ALIGN_SIZE))

(* Mutant: the padding has source 0.                                       *)
EdgesZeroPadded(i, stray) ==
    LET chosen == Selected(i)
        n == Cardinality(chosen)
        nth(k) == CHOOSE p \in chosen : Below(chosen, p) = k
    IN [k \in 0..PaddedSize(n) - 1 |->
           IF k < n THEN Tuple(nth(k))
           ELSE [tail |-> Padding, head |-> 0, prop |-> 0]]

(* The arrays edgePartitionTail, -Head and -Prop: the edges, then padding  *)
(* with the source of the entry before, which for a partition without      *)
(* edges is the word before the array.                                     *)
Edges(i, stray) ==
    LET chosen == Selected(i)
        n == Cardinality(chosen)
        nth(k) == CHOOSE p \in chosen : Below(chosen, p) = k
        last == IF n = 0 THEN stray ELSE vertexMap[Source(nth(n - 1))]
    IN [k \in 0..PaddedSize(n) - 1 |->
           IF k < n THEN Tuple(nth(k))
           ELSE [tail |-> Padding, head |-> last, prop |-> 0]]

(* Mutant: parts of equal size, not rounded down to blocks.                *)
SubPartitionSizeExact(total) == total \div SUB_PARTITION_NUM

SubPartitionSize(total) ==
    ((total \div SUB_PARTITION_NUM) \div ALIGN_SIZE) * ALIGN_SIZE

(* Mutant: the bound without the slack, so that no part gets the rest.     *)
ListEndNoRest(total, r) ==
    LET size == SubPartitionSize(total)
        bound == size * (r + 1)
    IN IF bound > total /\ r = SUB_PARTITION_NUM - 1
       THEN total - size * r ELSE size

ListEnd(total, r) ==
    LET size == SubPartitionSize(total)
        bound == size * (r + 1) + SUB_PARTITION_NUM * ALIGN_SIZE
    IN IF bound > total /\ r = SUB_PARTITION_NUM - 1
       THEN total - size * r ELSE size

(* The bubble sort of both arrangements: a permutation that lists key in   *)
(* descending order, by passes that swap neighbours.                       *)
Swapped(order, j) ==
    [order EXCEPT ![j] = order[j + 1], ![j + 1] = order[j]]
Compared(key, o, j) ==
    IF key[o[j - 1]] < key[o[j]] THEN Swapped(o, j - 1) ELSE o
Pass(key, order, n) ==
    LET pass[j \in 0..n] ==
          IF j = 0 THEN order ELSE Compared(key, pass[j - 1], j)
    IN pass[n]
BubbleSort(key, size) ==
    LET sorted[k \in 0..size] ==
          IF k = 0 THEN [j \in 0..size - 1 |-> j]
          ELSE Pass(key, sorted[k - 1], size - k)
    IN sorted[size]

(* The loop over maxIndex: the k-th unit is the first unit not yet taken   *)
(* with the greatest total.                                                *)
ByPerformance(perf) ==
    LET pick[k \in Cus] ==
          LET free == Cus \ {pick[m] : m \in 0..k - 1}
              best == {c \in free : \A d \in free : perf[c] >= perf[d]}
          IN LeastOf(best)
    IN pick

(* Mutants: the largest part for the largest total; an inverse taken for a *)
(* permutation.                                                            *)
FinalOrderLargest(perf, est) ==
    LET byPerf == ByPerformance(perf)
        reOrderIndex == BubbleSort(est, SUB_PARTITION_NUM)
    IN [c \in Cus |-> reOrderIndex[CHOOSE j \in Cus : byPerf[j] = c]]
FinalOrderInverse(perf, est) ==
    LET byPerf == ByPerformance(perf)
        reOrderIndex == BubbleSort(est, SUB_PARTITION_NUM)
    IN [c \in Cus |-> reOrderIndex[SUB_PARTITION_NUM - byPerf[c] - 1]]

FinalOrder(perf, est) ==
    LET byPerf == ByPerformance(perf)
        reOrderIndex == BubbleSort(est, SUB_PARTITION_NUM)
    IN [c \in Cus |->
           LET k == CHOOSE j \in Cus : byPerf[j] = c
           IN reOrderIndex[SUB_PARTITION_NUM - k - 1]]

(* Estimates from the range of sources and the number of edges of a part.  *)
Estimated(edges, stray) ==
    LET total == Cardinality(DOMAIN edges)
        size == SubPartitionSize(total)
        head(k) == IF k < 0 THEN stray ELSE edges[k].head
    IN [r \in Cus |->
           Estimate(head(size * (r + 1) - 1) - head(size * r),
                    IF size * (r + 1) > total THEN total - size * r ELSE size)]

PartitionEdges ==
    /\ phase = "loaded"
    /\ Len(partitions) < blkNum
    /\ \E stray \in Stray :
       LET i == Len(partitions)
           edges == Edges(i, stray)
           total == Cardinality(DOMAIN edges)
           size == SubPartitionSize(total)
           est == Estimated(edges, stray)
           order == FinalOrder(cuPerformance, est)
           list(c) == [k \in 0..ListEnd(total, order[c]) - 1 |->
                          edges[size * order[c] + k]]
       IN /\ partitions' = Append(partitions,
                [totalEdge |-> total, est |-> est, finalOrder |-> order,
                 sub |-> [c \in Cus |-> list(c)]])
          /\ cuPerformance' =
                [c \in Cus |-> cuPerformance[c] + est[order[c]]]
    /\ UNCHANGED <<phase, file, csr, partIdTable>>

------------------------------------------------------------------------------
(* schedulerPartitionArrangement *)

ArrangePartitions ==
    /\ phase = "loaded"
    /\ Len(partitions) = blkNum
    /\ phase' = "done"
    /\ partIdTable' =
         BubbleSort([i \in 0..blkNum - 1 |-> partitions[i + 1].totalEdge],
                    blkNum)
    /\ UNCHANGED <<file, csr, partitions, cuPerformance>>

Init ==
    /\ phase = "file"
    /\ lines \in (SUBSET Lines) \ {{}}
    /\ ungraph \in Modes
    /\ rpa = <<>> /\ cia = <<>> /\ vertexMap = <<>> /\ vertexRemap = <<>>
    /\ partitions = <<>>
    /\ cuPerformance = [c \in Cus |-> 0]
    /\ partIdTable = <<>>

Next == Load \/ PartitionEdges \/ ArrangePartitions

Spec == Init /\ [][Next]_vars

------------------------------------------------------------------------------
(* Properties *)

TypeOK ==
    /\ phase \in {"file", "loaded", "done"}
    /\ phase # "file" =>
          /\ DOMAIN cia = Positions
          /\ \A p \in Positions : cia[p] \in Vertices
          /\ \A u \in Vertices : vertexMap[u] \in 0..compressedVertexNum
          /\ Len(partitions) <= blkNum
    /\ cuPerformance \in [Cus -> Int]
    /\ DOMAIN partIdTable = 0..blkNum - 1 \/ phase # "done"

(* Where an edge can be: partition, unit, index in the unit's list.        *)
Places ==
    UNION {{<<d[1], d[2], k>> : k \in DOMAIN partitions[d[1] + 1].sub[d[2]]} :
              d \in (0..Len(partitions) - 1) \X Cus}
At(x) == partitions[x[1] + 1].sub[x[2]][x[3]]
Real == {x \in Places : At(x).tail # Padding}

(* Every edge whose destination has a partition is in exactly one list,    *)
(* with its source, destination and property, and in a list of the         *)
(* destination's partition; nothing else but padding is in any list        *)
(* (partitionFunction).                                                    *)
EdgesOnce ==
    phase = "done" =>
       /\ \A p \in Positions :
             Cardinality({x \in Real : At(x) = Tuple(p)})
               = IF vertexMap[cia[p]] < blkNum * MAX_VERTICES_IN_ONE_PARTITION
                 THEN 1 ELSE 0
       /\ \A x \in Real :
             /\ At(x) = Tuple(At(x).prop)
             /\ At(x).tail \div MAX_VERTICES_IN_ONE_PARTITION = x[1]

(* The sources of every list ascend, the padding included: the cache asks  *)
(* for the lines of a list in one sweep (fpga_cache.h).                    *)
HeadsSorted ==
    \A x \in Places :
       x[3] > 0 => At(<<x[1], x[2], x[3] - 1>>).head <= At(x).head

(* Every list is a whole number of aligned blocks, as the burst readers    *)
(* need it, and each partition ends in padding (host_graph_partition.cpp,  *)
(* align at 4k).                                                           *)
Aligned ==
    \A i \in 1..Len(partitions) :
       /\ \A c \in Cus :
             Cardinality(DOMAIN partitions[i].sub[c]) % ALIGN_SIZE = 0
       /\ \E c \in Cus : \E k \in DOMAIN partitions[i].sub[c] :
             partitions[i].sub[c][k].tail = Padding

(* Every edge u -> v of the file, and v -> u of an undirected file, is     *)
(* streamed as an edge from the number of u to the number of v, if v has   *)
(* out-edges and therefore a number of its own.                            *)
Delivered ==
    phase = "done" =>
       \A a \in Arcs :
          a[2] \in {vertexRemap[s] : s \in DOMAIN vertexRemap} =>
             \E x \in Real : /\ vertexRemap[At(x).head] = a[1]
                             /\ At(x).tail \in DOMAIN vertexRemap
                             /\ vertexRemap[At(x).tail] = a[2]

(* An update only reaches the destination of its edge: the tail of every   *)
(* edge that is streamed stands for that vertex (README.md:140).           *)
ToDestination ==
    \A x \in Real :
       /\ At(x).tail \in DOMAIN vertexRemap
       /\ vertexRemap[At(x).tail] = cia[At(x).prop]

(* What the scheduler promises, of the units' estimates at hand.           *)
Estimates ==
    (UNION {{[c \in Cus |-> Estimate(v[c], e)] : v \in [Cus -> 0..MaxRange]} :
               e \in 0..2 * Cardinality(Lines) + ALIGN_SIZE})
      \union {[c \in Cus |-> Estimate(stray - v, 0)] : stray \in Stray, v \in 0..MaxRange}

(* How far the estimates of two parts of one partition of seq are apart.   *)
Differences(est) == {est[a] - est[b] : a, b \in Cus}
Spreads(seq) == {0} \union UNION {Differences(seq[i].est) : i \in 1..Len(seq)}

S == INSTANCE Scheduler WITH
        finalOrder <- IF partitions = <<>> THEN [c \in Cus |-> c]
                      ELSE partitions[Len(partitions)].finalOrder,
        spread <- GreatestOf(Spreads(partitions))

ASSUME PartitionAssumption ==
    /\ SUB_PARTITION_NUM \in Nat \ {0}
    /\ ALIGN_SIZE \in Nat \ {0}
    /\ MAX_VERTICES_IN_ONE_PARTITION \in Nat \ {0}
    /\ IsFiniteSet(Lines)
    /\ MaxRange \in Nat
    /\ Lines \subseteq (0..MaxRange) \X (0..MaxRange)
    /\ Modes \subseteq BOOLEAN /\ Stray \subseteq Int
    /\ S!SchedulerAssumption
    /\ Estimates \subseteq [Cus -> Nat]    \* the maxima are searched from -1 on

(* Bubble sort and loop over maxima arrange the parts as the scheduler     *)
(* promises: the unit with the k-th largest total so far gets the part     *)
(* with the k-th smallest estimate, whatever the ties; in the end the      *)
(* partitions are ordered with most edges first, every one exactly once    *)
(* per super-step.                                                         *)
SchedulerStep ==
    [][/\ partitions' # partitions =>
             LET est == partitions'[Len(partitions')].est
             IN est \in Estimates /\ S!Arrange(est)
       /\ phase' = "done" =>
             S!IsDescending(partIdTable',
                [i \in 0..blkNum - 1 |-> partitions[i + 1].totalEdge])]_vars

(* The units' estimated totals never drift apart (docs/scheduling.md:28).  *)
Balanced == S!Balanced
==============================================================================
