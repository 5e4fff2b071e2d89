# A TLA+ model of ThunderGP

ThunderGP runs vertex-centric graph algorithms on an FPGA.  The host cuts the
graph into destination partitions and every partition into one list of edges
per compute unit; in every super-step the gather-scatter kernels stream the
edges, fetch the property of each source through an on-chip cache, route the
resulting updates to sixteen lanes and accumulate them per destination; the
apply kernel merges the units' results and writes the next properties.

The code is tested by running whole applications against a C model.  What such
a test hardly reaches is timing: streams of depth two between dozens of
processes, memory with latency, kernels that overlap, and state that survives
from one kernel invocation to the next.  That is what the modules here are
about.

## 1. Inventory

| part | source | state it keeps | operations | interacts with |
|---|---|---|---|---|
| partitioning | `libgraph/host_graph_partition.cpp` | vertex maps, edge arrays, `partitions`, `subPartitions` | `acceleratorDataLoad`, `partitionFunction`, `partitionTransfer`, `reTransferProp` | memory registry, schedulers; its lists are the input of the kernels |
| schedulers | `libgraph/scheduler` | `partIdTable`, `finalOrder`, `cuPerformance` | `schedulerSubPartitionArrangement`, `schedulerPartitionArrangement` | called by partitioning, read by the super-step |
| memory registry | `libgraph/memory`, `libgraph/misc/host_graph_mem.cpp` | `mem_list`, dirty flags, host and device copies | `he_mem_init`, `get_he_mem`, `transfer_data_to_pl`, `transfer_data_from_pl`, `he_set_dirty` | every host part; a memory is known by its id only |
| super-step | `libgraph/host_graph_dataflow.cpp`, `libgraph/kernel` | command queues, `syncEvent`, kernel arguments, ping and pong buffers | `acceleratorSuperStep`, `acceleratorQueryRegister`, `acceleratorQueryProperty` | both kernels, registry, application loop |
| gather-scatter kernel | `libfpga/fpga_gs_top.h` | the streams | dataflow of all parts below | memory |
| memory readers | `libfpga/fpga_global_mem.h` | none | `burstRead`, `burstReadLite`, `writeBackLite` | head and tail of every pipeline |
| source cache | `libfpga/fpga_cache.h` | delay ring, commands, lines, `vertexPropCache` | six processes of `srcPropertyProcess` | edge reader, shuffle |
| edge property, slices | `fpga_edge_prop.h`, `fpga_slice.h` | none | `propProcess`, `propProcessSelf`, `sliceStream`, `duplicateStream4` | between cache and shuffle |
| shuffle | `fpga_gather.h`, `fpga_decoder.h`, `fpga_filter.h` | none | `shuffleEntry`, `shuffleDecoder`, `tupleFilter` | sixteen lanes |
| lane | `fpga_raw_solver.h`, `fpga_process_edge.h` | four slots, `lastSendBuffered`, `tmpVPropBuffer` | `rawSolver`, `dstPropertyProcess`, `processEdgeWrite` | shuffle, memory |
| apply kernel | `fpga_apply.h`, `common_template/apply_top.cpp` | result register | `cuMerge`, `applyFunction`, `cuDuplicate` | memory, host |
| applications | `application/*` | user functions, main loops | `scatterFunc`, `gatherFunc`, `applyFunc`, `main` | all |
| verification | `libgraph/verification` | reference arrays in the registry | `acceleratorCModelSuperStep`, `partitionGatherScatterCModel`, `partitionApplyCModel` | called after each super-step; fetches what the kernels wrote |
| graph loading | `libgraph/misc` | `Graph`, `CSR` | constructors | partitioning |
| generator, board files, scripts | `automation`, `application/*.mk`, `utils`, `dataset` | build time | | |

What makes each part correct, and what is hard about it:

* **Lane.** Every update handed to a lane ends in the property of its
  destination exactly once.  Hard: the loop that accumulates starts an
  iteration every two cycles on the promise that no iteration reads the word
  the one before it writes; `rawSolver` has to keep this promise with four
  slots, merging and reordering, and hand everything over when the input ends.
* **Source cache.** A block of edges is looked up when the lines of all its
  sources are in the direct-mapped cache and none has been replaced.  Hard:
  lines are asked for ahead of the blocks by a process that only sees indices;
  a delay, two streams of 512 and a window keep the two sides in step without a
  word between them, and must not block each other.
* **Super-step.** Kernels of different partitions overlap; still the host must
  see a bulk-synchronous machine: each partition computed from properties of
  one step, none read before it is complete.  Hard: in-order queues per unit,
  events across queues, two buffers switched by parity, a register and its
  cached copy.
* **Partitioning and schedulers.** Every edge is in exactly one list, padded
  and sorted as the kernels need it; the arrangements are permutations.
* **Shuffle.** Every active tuple reaches the lane of its destination, and the
  end of the stream reaches every lane.
* **Apply.** Readers, mergers and writers agree on the number of tokens, and
  three layouts of the same values on their places.  Hard: each process counts
  for itself, a partition's size is rounded up, and a stream of the merge chain
  has no writer at all.
* **Registry.** An id stands for one memory; the host reads a buffer only
  after the device copy has been fetched.  Hard: nothing checks an id for
  duplicates, cc registers memories again while kernels hold the old ones, and
  the dirty flag is the host's own bookkeeping.
* **Applications.** The loops around the super-steps end, and what the
  properties then say is true of the graph.  Hard: the functions work on
  compressed vertices, rounded partitions and bits that mark a vertex active.

## 2. Plan

Order: first the parts whose errors depend on timing, then the sequential
ones that produce their inputs, then the composition.

1. `RawSolver` (done): the lane; theorems for all its safety properties.
2. `SourceCache` (done): freshness of look-ups, proved, and termination.
3. `BulkSync`, `SuperStep` (done): abstract machine and the queues that
   implement it; proof: the invariants and the refinement.
4. `Partition` (done): loading and `partitionFunction` on small graphs; every
   edge once, alignment, padding, arrangements.  Proof: all of its properties.
   Left: which lists `SourceCache` can process, lists without edges.
5. `Scheduler` (done): the arrangement of sub-partitions as a promise that
   `Partition` keeps; proof: the units stay balanced, and `Partition`
   implements it.
6. `Router`, `Shuffle` (done): streams between cache and lanes, edge
   properties, end tokens; refinement of an abstract router; proofs that the
   router delivers, that an edge meets its own property and that a kernel leaves
   its streams empty.  Left: `clear_stream` and `empty_stream` as bounded
   waits, which needs a model of time.
7. `Apply` (done): write-out of the lanes and the dataflow of the apply
   kernel; counts and places of tokens; theorems for both.
8. `Memory` (done): registry, host and device copies; proof: a lookup finds
   what was meant.
9. `Algorithms`, `Application` (done): the user functions and main programs on
   top of the registry, against the C model and against walks in the graph.

Abstract specifications worth stating: `BulkSync` for 3, `Scheduler` for 5 and
`Router` for 6 (all done); a bag of updates per destination for 1.  Theorems
worth proving: safety of the lane, freshness of the cache, the lookup of the
registry, the invariants of the super-step and its refinement, the tiling of
the property array by `Apply`, the lists and arrangements of `Partition`, the coupling of edges and properties in `Shuffle`
(all proved).

## 3. Modules

### RawSolver: one lane

| module | code |
|---|---|
| `Merge`, `Insert`, `Select` | one iteration of the main loop of `rawSolver` (merge; or insert, then send) |
| `EndOfStream` | the break on the end token or a padding tuple |
| `Flush`, `FlushEnd` | the flush loop and the end token |
| `Accumulate`, `Land`, `WriteOut` | an iteration of `dstPropertyProcess`, the landing of its write, the write-out loop that also zeroes the buffer |
| `NextRun` | the next invocation: registers start afresh, the URAM does not |

A property is the set of the tuples folded into it, so that a lost or doubled
update can be seen whatever the application's operators are.  A write of the
accumulation loop may still be in flight when the next iteration reads: that is
what `dependence inter false` (`fpga_process_edge.h:93`) allows.  The wait in
`FlushEnd` (`empty_stream`) is taken to outlast the sender.

### SourceCache: the six processes of srcPropertyProcess

| module | code |
|---|---|
| `Duplicate` | `duplicateStreamForCache` |
| `Delay` | `streamDelayScheme2`, loop and flush |
| `Merge` | `streamMerge`, with its extra block at the end |
| `Map` | `stream2Command` |
| `Fetch` | `updateVertexCache` |
| `Iterate`, `Drain` | `readEdgesStage`: an iteration takes at most one line and one block; `empty_stream` |

A block of sixteen edges is the pair of its first and last source, the two
lanes the control looks at; the properties in a line are the line's address.
The data of end tokens and end commands, which the code never sets, is a
choice between zero and the value before; `end_flag`, not set in an iteration
that reads nothing, keeps its value or reads as zero.

An iteration of `readEdgesStage` is taken in the order of the source: the line
is put in the cache, then the block is looked up.  The pragma
`dependence intra false` (`fpga_cache.h:644`) would permit the other order,
although a line and the block that needs it can be taken in one iteration: the
model takes the latency pragmas around the look-up to keep them in order.

### Shuffle and Router: from the cache to the lanes

| module | code |
|---|---|
| `FeedTuple`, `FeedProp` | the writes of `readEdgesStage` and the `burstRead` of the edge properties |
| `HalfEdgeProp`, `Couple`, `ClearTuples`, `ClearProps` | `propProcess`, or `propProcessSelf` in a build without edge properties |
| `Duplicate` | the two levels of `duplicateStream4` |
| `ShuffleEntry`, `Slice`, `FilterRead`, `FilterWrite` | `shuffleEntry`, `filterSlice` (twice), `tupleFilter`, `processEdgesBuildSlice` |
| `Solve`, `EmptyStream` | what `rawSolver` reads, up to the end or padding, and its drain |
| `NextRun` | the next invocation, on the streams as they were left |

`shuffleDecoder` is what its tables compute: `lutNum` and `lutIdx` are the
tables `shuffleDecoder*` of `fpga_decoder.h` as functions of the mask (the 256
rows were compared one by one), `Opcode` their sum, `Unpacked` the sequence of
lanes.

Edges carry their place in the list.  All processes that copy an item and stop
at the flag are one action, `Forward`; it reads and writes at once, so that a
process has no register between its streams.  The data of end tuples, never
set, is a constant set; drain loops are taken to outlast their senders.  A list
has its padding at the end, as `Partition` shows.

`Router` is a queue for each lane into which a tuple puts its edges at once.
The mapping at `R` reads a queue off the streams, from the lane back to the
cache, so that a step inside may not lose, double or overtake an edge.

### SuperStep and BulkSync: the host's command queues

| module | code |
|---|---|
| `EnqueueGs`, `EnqueueApply`, `Finish` | the loop of `acceleratorSuperStep`, with `setGsKernel` and `setApplyKernel` |
| `Query` | `acceleratorQueryRegister` and the condition of the application loop (bfs, cc), or the fixed loop of `default_entry.cpp` |
| `Reload` | `reTransferProp`, with which cc starts over |
| `GsStart`, `GsFinish` | a gather-scatter task: reads its unit's whole property buffer, writes `tmpProp` of its sub-partition |
| `ApplyStart`, `ApplyFinish` | an apply task: reads all `tmpProp` and the current properties, writes the next ones to every unit and the register |

OpenCL is external and modelled as the code uses it: queues are in order,
arguments are captured when a task is enqueued, an apply task waits for the
events passed to it, `clFinish` returns when its queue is empty.  A kernel sees
a buffer at its start and its end; memory being written is `Bad`.

`BulkSync` is the machine a super-step promises: partitions are brought from
step s to s + 1 in any order, from values of s only, with a barrier between the
steps.  `SuperStep` implements it under the mapping at `BSP`.

### Partition and Scheduler: preparing a graph

| module | code |
|---|---|
| `Load` | `Graph`, `CSR`, `acceleratorDataLoad`: CSR arrays, numbering of the vertices with out-edges |
| `PartitionEdges` | one iteration of the loop of `partitionFunction`: `Selected`, `Edges` (padding), `SubPartitionSize`, `Estimated` and `FinalOrder` (the call of the scheduler), `ListEnd` and the copies |
| `ArrangePartitions` | `schedulerPartitionArrangement` |
| `Scheduler!Arrange` | what `soeSubPartitionArrangementHandler` promises, without its loops |

An edge property is the edge's position, so that an edge lost, doubled or
paired with another's property can be seen.  The word before an array, which
the code reads for a partition without edges and for lists of size zero, is a
choice from `Stray`.  `performanceEstimator` is a constant operator: nothing
depends on its coefficients.  `SchedulerStep` says that every iteration of
`Partition`, with bubble sort and maximum loop, is a step of `Scheduler`, and
that the order of the partitions at the end is descending in their edges.

### Apply: from the lanes to the new properties

| module | code |
|---|---|
| `Gather`, `LaneWrite` | what `dstPropertyProcess` has accumulated, and its write-out loop |
| `SliceWrite` | `processEdgesSlice`, one for each lane: passes a fixed number of pairs on to the next stream |
| `CollectRow`, `WriteBurst` | `processEdgeWrite`: a value pair of every lane makes two words; bursts to `tmpProp` |
| `EndWriteOut` | the end of a unit's kernel; `setApplyKernel` |
| `ReadChunk`, `EmitWord` | `burstReadLite`, one for each memory read |
| `Merge` | `cuMerge` of one unit |
| `ApplyWord`, `Duplicate` | `applyFunction`, `cuDuplicate` |
| `FillBack`, `WriteBack` | `writeBackLite`, one for each unit |
| `Begin`, `EndApply` | a partition starts; the result register is stored |

A value names what it was made from: an accumulated property is the set of
updates <<unit, destination>> in it, so that a value at the wrong place, of the
wrong partition or merged twice is seen.  The units of a partition gather one
after the other; their overlap is in `SuperStep`.  The stream
`tmpVertexPropStream[0]`, which nobody writes, reads as zero without waiting.

### Memory, Algorithms, Application: whole programs

`Memory` has no state of its own: a registry is a record, and its operators
return the registry a call leaves behind (`HeMemInit`, `GetHeMem`,
`TransferToPl`, `TransferFromPl`, `SetDirty`, `SetKernelArgs`, and the four
`*MemInit` of `host_graph_mem.cpp`).  A memory is looked up by its id, as in
the code.  A failed lookup is remembered in `failed`.

`Algorithms` has `l2.h`, `dataPrepareProperty` and `dataPrepareGetArg` of seven
applications.  Words are 7 bits for bfs and sssp, with the active bit on top
and `MAX_PROP` as in the code, and 16 signed bits that wrap around for pr, ar
and spmv; two sources stand for the 32 of cc.

| `Application` | code |
|---|---|
| `DataLoad` | `acceleratorDataLoad`, `base_mem_init` |
| `DataPreprocess` | `acceleratorDataPreprocess`: start values, `process_mem_init`, `partitionFunction`, both schedulers, `partitionTransfer` |
| `ReTransferProp` | a repetition of cc |
| `SuperStep` | `acceleratorSuperStep`: `GatherScatter` and `ApplyKernel` for partition after partition, each with its arguments and dirty flags |
| `QueryRegister` | `acceleratorQueryRegister` and what bfs and cc do with the counts |
| `CModelDataPreprocess`, `CModelSuperStep` | the C model of the default entry |
| `Profile` | `acceleratorProfile` with the two C models of the kernels (`GsErrors`, `ApplyErrors`) |
| `LeaveLoop` | the conditions of the loops |

The kernels are what the modules above show them to be: a fold of the updates
of a list, and a merge of the units.  The order of partitions and the cut each
unit gets are any permutation (`Scheduler`, `Partition` show which).

## 4. Runs

| run | instance | shows |
|---|---|---|
| `RawSolver` | five destinations of lane 1, two in one word, at distances of 16, 32 and more; 4 tuples per run, 2 runs, stream of 2 | `SlotFree`: no tuple is dropped. `HazardFree`: no read overtakes a write until the flush. `Accounted`, `CountedOnce`: every tuple is in one place. `ResultSound`: nothing foreign is written out. `RunsFinish` |
| `RawSolverFlush` | the same | violated: finding 1 |
| `SourceCache` | cache of 8 lines of 2 vertices, bursts of 2 lines, delay of 2, ring of 4, streams of 1 and 2; five sub-partitions | `FreshRead`: each look-up finds its vertex. `Terminates`. `TypeOK` has the bounds of all buffers |
| `SourceCacheWide` | a block of 16 consecutive vertices on that cache | violated: finding 2 |
| `SuperStep` | 2 units, 3 partitions in reverse order, 3 super-steps, 2 runs | `EventMeansGathered`, `SourcesStable`, `ResultsComplete`, `RegisterFresh`, `BulkSynchronous`, `StepsEnd` |
| `SuperStepQuiet` | the same | violated: finding 3 |
| `Shuffle` | two lanes behind two duplicators, two edges per tuple, streams of one, three lists of one block, both builds, invocations without bound | `Coupled`: an edge meets its own property. `Routes`: the streams implement `Router`. `Delivered`: a lane gets its edges, in order, without junk or padding. `NothingLeft` between invocations. `Completes` |
| `Partition` | all directed graphs from 12 lines over 5 vertices; 3 units, alignment 2, 2 vertices per partition | `EdgesOnce`, `Delivered`: no edge is lost or doubled. `HeadsSorted`, `Aligned`: the lists suit cache and burst readers. `SchedulerStep`: units and partitions are arranged as `Scheduler` promises. `Balanced` |
| `PartitionUndirected` | all undirected graphs over 3 vertices | violated: finding 4 |
| `PartitionDestination` | as `Partition` | violated: finding 5 |
| `Apply` | 2 units, 2 lanes, bursts of 2, two partitions of 8 vertices, 10 vertices in all, in either order | `NewPropertiesOwn`: every vertex's new value is made of its own property, degree and updates, in each unit's memory. `ActiveCounted`: a kernel's result counts its own partition. `WordsWrittenOnce`: bursts tile the array. `AllApplied`: the counts agree |
| `Application` | 7 applications on 4 graphs of 4 to 6 vertices, 2 units, partitions of 4, all arrangements; 3 super-steps, 2 repetitions of cc, loops of at most `MaxSteps` = 7 | `Coherent`: copies agree. `CModelAgrees`: no difference is reported. `ReachedExactly`: the levels of bfs, the lengths sssp gives, the sources cc has and the marks of wcc are those of walks. `MainEnds` |

Why the bounds are enough.  *Lane*: hazards need two tuples for one word at the
shortest distance, one tuple between them and the flush behind them; slots are
freed by the tuple after next, so four tuples fill as many slots as can be
filled; the second run shows what the URAM keeps.  *Cache*: the sub-partitions
wrap the cache more than once and hold a block of the widest extent the window
admits, a source shared by blocks, jumps over unused bursts and the least
number of blocks; every stream of the instance gets full.  The literals 512,
4096, 16, 64 keep their order (delay + 2 <= ring, line <= margin < cache).
*Shuffle*: lanes do not
depend on one another but through the duplicators, of which there are two
levels; two tuples and the two halves of the end are enough to fill each
stream and to have one tuple overtake another; without a counter of invocations
every state a kernel can leave behind is one the next starts from.
*Super-step*: parity needs three steps to come back, ordering three partitions.
*Partition*: two partitions can have parts that are not empty, so that totals
add up; three units are the least for which an arrangement and its inverse
differ; vertices without out-edges come before, between and behind the others,
and a third partition has no edges.  *Apply*: one partition is exactly two
read buffers, the other ends inside its first; every stream gets full.  A lane
writes two pairs, as many as its stream holds, so that in this instance it is
never made to wait; the theorems hold for any number.
*Application*: the graphs have a cycle, a vertex without out-edges, one that is
numbered behind the last partition, a shortest way that is not the one with the
fewest edges, and two partitions; `MaxSteps` is above the number of steps any
of them takes, so that the bound cuts off no loop that ends (`MainEnds` would
report one that does not); bfs, sssp, wcc and cc start from every vertex, or
for two partitions from those of `drawn`, cc from pairs of them.  Pages of four
words keep a memory's size rounded up.

### Fairness

The lane and the cache are hardware: every process runs in parallel and acts
when its streams let it, so each has weak fairness (in `Shuffle` all together,
which is weaker and enough, since an invocation is a finite number of steps); input is not fair, except
that the reader sends an end token in every invocation (`burstRead`).  The host
is a loop of calls that return; the OpenCL runtime starts the head of a queue
when its events are complete.  In `Apply` weak fairness of all steps together
is enough, since a partition is a finite number of steps.  In `Application`
main is one thread: it goes on while it has a statement.  This is weak fairness
of `Next`, with the states without a next step written out (`Stopped`).  No
strong fairness is assumed.

## 5. Proofs

`RawSolver_proofs` proves for every lane, number of rows, base row, stream
depth, set of destinations and number of tuples and runs that satisfy
`LaneAssumption`:

* `TypeCorrect`: `Spec => []TypeOK`.
* `SlotAlwaysFree`: `Spec => []SlotFree`.  `SlotFree` is not inductive: whether
  a slot gets free depends on the distances of the buffered destinations to the
  last one sent.  All destinations of a lane are equal modulo 16, so those
  nearer than 32 to `lastSend` are `lastSend - 16`, `lastSend` and
  `lastSend + 16`: three values (`ModOffset`).  The invariant adds that the
  valid slots hold distinct destinations and that at the end of an iteration
  all of them are near; by the pigeonhole principle four slots cannot be full.
* `NoHazardInLoop`: `Spec => []HazardFree`.  The invariant says that tokens that
  follow each other in the stream, and the last token and `lastSend`, are at
  least 32 apart, and `FarWords` that such destinations of one lane and one
  partition are in different words.
* `WrittenOutSound`: `Spec => []ResultSound`, the flush included.  The invariant
  follows an update on its way: what a slot, a stream entry, a half of a URAM
  word or a write in flight holds for a destination was received for it, and the
  URAM is zero again when a run has been written out.  `PlaceOfOne`: two
  destinations of a lane and partition never share a half of a word.
* `AllAccounted`, `NothingCountedTwice`: `Spec => []Accounted` and
  `Spec => []CountedOnce`.  The two are inductive together with the types, the
  slots and the hazards above: a slot is free for a new destination
  (`SlotFree`), and no write lands on a value read too early (`HazardFree`).

`SourceCache_proofs` proves for every cache, burst, delay and buffer size and
every set of lists that satisfies `CacheAssumption`:

* `BuffersBounded`: `Spec => []TypeOK`, with the bounds of all streams, the ring
  of the delay and the lines.  "No line is beyond the end line" needs that the
  end line is beyond all lines, which the assumption states (`Margin + 3 * Burst
  <= ENDFLAG`, and the blocks stay that far below it): `ENDFLAG` is 0xffffffff
  (`global_config.h:20`), vertices are ints.
* `LookupsFresh`: `Spec => FreshRead`, an action property.  `FreshInv` follows
  the lines from the command to the cache: commands ascend and cover, burst
  after burst, every line asked for (`ChainInv`); the lines on their way ascend
  (`OrderInv`); the cache holds no line beyond the window of the block taken
  last (`BoundInv`).  So a line asked for is still to come, waiting, in its slot
  of the cache, or replaced by one at least a whole cache later (`Coverage`).
  When a block is let through its line is not still to come, since
  `caching_value` has passed it, and not replaced, since that later line would
  be beyond the window.

`SuperStep_proofs` proves for every number of units, order of partitions and
number of steps and runs that satisfies the assumption of `SuperStep`:

* `TypeCorrect`, `EventsSound`, `SourcesUntouched`, `StepsComplete`:
  `[]TypeOK`, `[]EventMeansGathered`, `[]SourcesStable`, `[]ResultsComplete`,
  and `RegisterNeverStale`: the action property `RegisterFresh`.  `IInv` counts
  for each queue the tasks enqueued and done in this super-step: a queue holds
  the tasks between the two counts (`QueueInv`), an event is complete if and
  only if its task is among those done (`EventInv`; events of positions not
  reached are left over from the step before, so `EventMeansGathered` alone is
  not inductive), the units have gathered what they have done (`GatherInv`),
  the buffer read has the values of the step everywhere (`SourceInv`), the other
  one the next values of exactly the partitions applied (`ApplyInv`).
* `ImplementsBulkSync`: `Spec => BulkSynchronous`.  Under the mapping at `BSP`
  the end of an apply task is `Update`, the query `Barrier` and the reload
  `Restart`; every other step stutters.

`Apply_proofs` proves for every number of units, lanes and vertices and every
burst length that satisfies `ApplyAssumption`:

* `Types`, `PropertiesOwn`: `[]TypeOK` and `[]NewPropertiesOwn`, and
  `WrittenOnce`: the action property `WordsWrittenOnce`.  A partition is a
  sequence of words, and at each point of the dataflow it is known what its
  w-th word must be (`OwnWords`, `UpdateWords`, `MergedWords`, `NewWords`; a
  lane's `RowPairs` for the write-out).  `IInv` says that every stream and
  buffer holds the words from the number its reader has taken to the number its
  writer has put in (`Holds`), both read off the loop variables of the two
  processes: what a reader has fetched is `chunk * BurstBuffer`, what a writer
  has taken `counter * BurstWrite + Len(ram)`, and so on.  `TypeOK` and the
  contents of the memories are not inductive without it.  The steps then need
  arithmetic only: the sizes, shifts and masks that the processes compute apart
  are those of the same words (`PartSizes`, `RoundedSizes`, `PartStart`,
  `VertexPlace`, `RowGathers`), and at `KernelDone` all numbers are equal, so
  that nothing is left in a stream for the next partition (`KernelDrained`).
  `PropInv` has the words of the property array: those of a burst counted or of
  a partition done are new, all others old, whence `WrittenOnce`.

`Scheduler_proofs` proves `UnitsBalanced`, `Spec => []Balanced` of `Scheduler`
for every number of units and all estimates.  The invariant is inductive with
the types: of two units the one with the larger total gets the part with the
smaller estimate, so the difference is at most what it was or what the two
parts differ by.  That the code's loops implement `Scheduler` is proved in
`Host_proofs`.

`Router_proofs` proves `RouterDelivers`, `Spec => []Delivered` of `Router`, for
all lanes and lists of any length.  `Delivered` says nothing of an open lane;
the invariant adds that what it was sent is what it has taken followed by its
queue, and that a closed lane's queue is empty.  That the streams implement
`Router` is model-checked (`Routes`).

`Shuffle_proofs` proves for every number of lanes, edges in a tuple, depth of
the streams, set of lists and junk that satisfies the assumptions of `Shuffle`,
and for invocations without bound:

* `StreamsTyped`: `Spec => []TypeOK`, the depths of all streams included.
* `EdgesCoupled`: `Spec => []Coupled`.  In front of `propProcess` everything is
  counted: a stream of tuples, bursts or halves holds consecutive ones
  (`Numbered`), from the number its reader has taken to the number its writer
  has put in; `halfEdgeProp` has written two halves of every burst, and one of
  the burst it is in the middle of (`Halves`); and until the end tuple as many
  halves have been taken as tuples (`PropWorks`).  `Coupled` itself says
  nothing of tuples and halves that have not met, and is not inductive.  After
  the end tuple the counts part, and `clear_stream` has to take what is left of
  both: the tuple behind the end, the second half of the end burst.
* `StreamsLeftEmpty`: `Spec => []NothingLeft`.  Behind `propProcess` an end flag
  is the last item of its stream, its writer has stopped, and its reader stops
  at it (`Ends`, for each of the seven kinds of streams in `Chain`).  When every
  process is done, each reader has seen its end, and nothing can be behind it.

The decoder's tables are functions of powers of two, which the provers know
nothing of, so that their rows have the bounds the proof needs is an assumption
(`DecoderAssumption`) which TLC evaluates for the instance; `MCShuffle` evaluates
the same, `RowsRight(8)`, for all 256 rows of the code's eight edges.

`Host_proofs` holds what is proved of the host: of `Partition` first, for every
set of lines, number of units, partition size, alignment, estimator and content
of the words before the arrays that satisfies `PartitionAssumption`.  (The
vertices are bounded by some `MaxRange`, and estimates are not negative: the
loop over the maxima starts at -1, `scheduler.cpp:84`, and would find no unit
for a negative total.)

* `PartsTile`: the parts that `partitionFunction` copies tile the padded
  array, from `Division` and the bounds of the rounded size (`PartsFit`).
* `HostTypes`, `EdgesInOneList`, `SourcesAscend`, `ListsAligned`: `Spec => []P`
  for `TypeOK`, `EdgesOnce`, `HeadsSorted` and `Aligned`.  None of them is
  inductive: they speak of the lists, but not of what the next list is made
  from.  The invariant `IInv` says that the arrays are those of the file
  (`CsrOK`) and that every descriptor is one that an iteration can have made
  from them (`MadeOf`).  The rest is counting.  Positions, numbers of vertices
  and indices into a partition are all ranks in a finite ordered set, and ranks
  are a bijection that follows the order (`Ranks`, `Counts`).  Induction is over
  sets of numbers (`SetInduction`), which the provers can instantiate.  So the search for the source of a position finds
  the source of its arc (`SourceFacts`), vertices with out-edges have distinct
  numbers in their order (`MapFacts`), and the entries of a partition are its
  selected positions in order, then padding (`EdgesFacts`).  `PartitionLists`
  adds that the parts tile the array and that the final order is a permutation.
* `EdgesDelivered`: `Spec => []Delivered` if all files are directed
  (`Modes = {FALSE}`, as in the run `Partition`): then the number of lines is
  the number of edges, so that all of `cia` is filled.  Run
  `PartitionUndirected` shows that the hypothesis is needed (finding 4).
* `SortsArrange`: `Spec => SchedulerStep`.  A loop is a function on the numbers
  of its iterations; `HasRun` says that such a function exists and satisfies
  its equation (`Iterates`, again by `SetInduction`).  Passes
  of the bubble sort keep a permutation (`Orders`) and leave equal keys in the
  order of their indices (`Stable`), and each makes one more place at the end
  final (`Final`); the loop over the maxima picks the greatest of those left.
  `FinalOrderFacts` composes the two.
* `ImplementsScheduler`: `Spec => SP!Spec`, that is, `Scheduler`'s
  specification; `UnitsStayBalanced`: `Spec => []Balanced`, from it and
  `UnitsBalanced`.  The mapping takes the largest difference so far, which
  exists since the differences are finite in number (`SpreadOK`, an invariant).

`NoIdTwice` of `Memory`: the ids that `host_graph_mem.cpp` and
`he_mem_id.h` give to the base memories, to the lists of any number of
sub-partitions and to the properties of any number of units are distinct.  They
are so by their remainders: ids of sub-partitions are 100 to 103 modulo 128,
ids of units 0 to 2, and the base ids lie below both.  `LookupFinds` follows:
on any list of registrations, repeated ones too, `get_he_mem` answers with the
memory asked for if it is there and with NULL if not.

Only model-checked: the properties of `Application`, `Delivered` and `Routes`
of `Shuffle`, `ActiveCounted` of `Apply`, and every liveness property (out of the prover's reach).  `Application` and `Algorithms`
use `Bitwise` and recursive operators; what `Delivered` and `Routes` say is put
together by `SelectSeq` and `FlattenSeq`, recursions over a list, and
`ActiveCounted` is about a sum.

## 6. Findings

1. *Flush* (`fpga_raw_solver.h:236`).  For each full slot the flush sends two
   dummies for the destination 32 further on, then the tuple.  When the last
   tuple before was for that destination or its neighbour in the word, the
   dummy reads the word while the write is in flight and writes the old value
   back: an update is lost.
2. *Wide blocks* (`fpga_cache.h:663`).  A block whose first and last source are
   farther apart than the window of the cache makes line and block wait for
   each other for ever.  Partitions with few edges have such blocks.
3. *Result register* (`fpga_apply.h:136`).  Each apply task overwrites the
   count of active vertices, so bfs and cc stop when the partition that comes
   last has none.
4. *Undirected files* (`host_graph_partition.cpp:48`).  The number of edges is
   the number of lines, but an undirected file has two edges per line: the
   edges behind are read from memory that was never filled.
5. *Vertices without out-edges* (`host_graph_partition.cpp:60`).  They share the
   number of the next vertex with out-edges, so their updates reach it.

Observed while modelling and stated where the properties make an exception:

* A list without edges makes `streamDelayScheme2` wait for ever (it ends after
  more than sixteen tokens only).  `partitionFunction` makes such lists of a
  partition with fewer than `SUB_PARTITION_NUM * ALIGN_SIZE` edges; the
  instances of the passing runs have none.
* Without an apply kernel (spmv) the properties of odd super-steps are never
  sent to the device (`host_graph_partition.cpp:110` transfers `prop[0]` only),
  so the C model and the kernel differ after them.  `CModelAgrees` excepts them.
* `acceleratorCModelSuperStep` compares entries up to the number of original
  vertices; those behind the compressed ones belong to no vertex.
* sssp gives a vertex the length of a walk with the fewest edges
  (`sssp/l2.h:50`), and wcc marks after s super-steps the vertices where a walk
  of exactly s edges from a source ends; both are weaker than the names in
  `src/README.md` say.  `ReachedExactly` states what the code computes.
* `docs/verification.md:3` speaks of the first super-step only; the code
  verifies each one, and so does `CModelAgrees`.
* casir and casair set a partition size of 66536, which is no power of two and
  no multiple of a burst; `ApplyAssumption` asks for both.

## 7. Not modelled

* *casir, casair*: their apply kernel is generated from `customized_apply.cpp`
  and computes with float; `applyFunc` in C does not exist for them.
* *Generator* (`automation`): text templates evaluated at build time, without
  state at run time.  Board files and make files: constants.
* *Platform*: OpenCL, `utils/xcl`, the placement of memories on banks
  (`he_mapping` but for the interface number).  External: modelled as the code
  uses them.
* *Graph files*: parsing, in-edges, `CSR_BLOCK`, `save2File`, random numbers
  (any draw); files with repeated lines.
* *Code no build contains*: the scheduler `normal` (its handler is not defined),
  `streamFilter`, `streamRemoveBubble`, `updateVertexCacheNarrow`,
  `streamDelayScheme1`, `processEdgesReorderStreamScheme1`, `writeBack`,
  `duplicateStream2`, `duplicateStream4WithClear`, `HW_EMU_DEBUG`, code under `#if 0`.
* *Cycle counts*: drain loops are taken to outlast their senders.
* *Results nobody reads*: the result register of wcc, pr and ar.  32-bit
  overflow of pr and ar is kept as wrap-around in 16 bits; `ReachedExactly` says
  nothing about them, `CModelAgrees` compares them.
* `partitionGatherScatterCModel` adds padding to index -2 of its array
  (`host_graph_verification_gs.cpp:43`); the model leaves that word out.
