----------------------------- MODULE SuperStep -----------------------------
(***************************************************************************)
(* acceleratorSuperStep (host_graph_dataflow.cpp) and the application loop *)
(* around it.  The host puts a gather-scatter task for every compute unit  *)
(* and an apply task for every partition into OpenCL command queues; the   *)
(* kernels run as soon as their queue and their events let them, while the *)
(* host goes on enqueuing.                                                 *)
(*                                                                         *)
(* A vertex property is represented by the super-step it is the result of: *)
(* 0 for what the host loads, Bad for memory that is unset, half written,  *)
(* or computed from inputs that do not all belong to one super-step.  A    *)
(* kernel sees a buffer at its start and at its end and is wrong if the    *)
(* two differ.                                                             *)
(***************************************************************************)
EXTENDS Integers, Sequences, FiniteSets

CONSTANTS
  CuNum,      \* SUB_PARTITION_NUM, compute units
  BlkNum,     \* partitions of the graph (info->blkNum)
  Order,      \* partIdTable: position -> partition (getArrangedPartitionID)
  UntilQuiet, \* the loop of bfs and cc, instead of a fixed number of steps
  MaxSteps,   \* super-steps of the fixed loop; bound for the other
  MaxRuns     \* bound: times the application starts over (cc does it 10 times)

Cus       == 0 .. CuNum - 1
Part      == 0 .. BlkNum - 1
Positions == 0 .. BlkNum - 1

ASSUME StepAssumption ==
  /\ CuNum \in Nat \ {0} /\ BlkNum \in Nat \ {0}
  /\ Order \in [Positions -> Part]
  /\ \A i, j \in Positions : Order[i] = Order[j] => i = j
  /\ \A p \in Part : \E i \in Positions : Order[i] = p
  /\ UntilQuiet \in BOOLEAN
  /\ MaxSteps \in Nat \ {0} /\ MaxRuns \in Nat \ {0}

VARIABLES
  pc,         \* host: "gs", "apply", "finish", "query" or "end"
  superStep, position, cu,   \* host: loop variables superStep, i and j
  run,        \* host: times the application has started
  activeVertices, dirty,     \* host copy of the result register, its flag
  gsOps, applyOps,           \* command queues: tasks not yet finished
  gsSeen, applySeen,         \* what the running head of a queue has read
  syncEvent,  \* position -> unit -> is the event complete?
  prop,       \* unit -> ping or pong -> partition -> property
  tmpProp,    \* partition -> unit -> the property its updates stem from
  reg,        \* the result register on the device
  activity    \* history: a partition of this super-step had active vertices

hostVars   == <<pc, superStep, position, cu, run, activeVertices>>
deviceVars == <<gsSeen, applySeen, prop, tmpProp, reg, activity>>
vars == <<hostVars, dirty, gsOps, applyOps, syncEvent, deviceVars>>
-----------------------------------------------------------------------------
Bad == -1
NotRunning == {}   \* a running task has read something

Ping(step) == step % 2
Pong(step) == (step + 1) % 2

\* The one step all of the properties in S belong to.
Common(S) == IF \E v \in S : S = {v} THEN CHOOSE v \in S : TRUE ELSE Bad

Loaded == [u \in Cus |-> [b \in {0, 1} |->
             [p \in Part |-> IF b = 0 THEN 0 ELSE Bad]]]

Init ==
  /\ pc = "gs" /\ superStep = 0 /\ position = 0 /\ cu = 0 /\ run = 1
  /\ activeVertices = 0 /\ dirty = FALSE
  /\ gsOps = [u \in Cus |-> <<>>] /\ applyOps = <<>>
  /\ gsSeen = [u \in Cus |-> NotRunning] /\ applySeen = NotRunning
  /\ syncEvent = [i \in Positions |-> [u \in Cus |-> TRUE]]
  /\ prop = Loaded
  /\ tmpProp = [p \in Part |-> [u \in Cus |-> Bad]]
  /\ reg = 0 /\ activity = FALSE
-----------------------------------------------------------------------------
TaskSwapped(i) == [part |-> Order[i], position |-> i, step |-> Pong(superStep)]

\* A task keeps the arguments set when it was enqueued.
Task(i) == [part |-> Order[i], position |-> i, step |-> superStep]

EnqueueGs ==
  /\ pc = "gs"
  /\ gsOps' = [gsOps EXCEPT ![cu] = Append(@, Task(position))]
  /\ syncEvent' = [syncEvent EXCEPT ![position][cu] = FALSE]
  /\ IF cu + 1 < CuNum
     THEN cu' = cu + 1 /\ UNCHANGED pc
     ELSE cu' = 0 /\ pc' = "apply"
  /\ UNCHANGED <<superStep, position, run, activeVertices, dirty, applyOps,
                 deviceVars>>

EnqueueApplyClean ==
  /\ pc = "apply"
  /\ applyOps' = IF position > 0 THEN Append(applyOps, Task(position - 1)) ELSE applyOps
  /\ position' = IF position < BlkNum THEN position + 1 ELSE 0
  /\ pc' = IF position + 1 < BlkNum THEN "gs"
           ELSE IF position + 1 = BlkNum THEN "apply" ELSE "finish"
  /\ UNCHANGED <<superStep, cu, run, activeVertices, dirty, gsOps, syncEvent,
                 deviceVars>>

\* The apply task of the partition before, and on to the next iteration; its
\* result register is marked as to be fetched.
EnqueueApply ==
  /\ pc = "apply"
  /\ IF position > 0
     THEN applyOps' = Append(applyOps, Task(position - 1)) /\ dirty' = TRUE
     ELSE UNCHANGED <<applyOps, dirty>>
  /\ position' = IF position < BlkNum THEN position + 1 ELSE 0
  /\ pc' = IF position + 1 < BlkNum THEN "gs"
           ELSE IF position + 1 = BlkNum THEN "apply" ELSE "finish"
  /\ UNCHANGED <<superStep, cu, run, activeVertices, gsOps, syncEvent,
                 deviceVars>>

\* clFinish on every queue.
FinishGsOnly ==
  /\ pc = "finish"
  /\ \A u \in Cus : gsOps[u] = <<>>
  /\ pc' = "query"
  /\ UNCHANGED <<superStep, position, cu, run, activeVertices, dirty, gsOps,
                 applyOps, syncEvent, deviceVars>>

Finish ==
  /\ pc = "finish"
  /\ \A u \in Cus : gsOps[u] = <<>>
  /\ applyOps = <<>>
  /\ pc' = "query"
  /\ UNCHANGED <<superStep, position, cu, run, activeVertices, dirty, gsOps,
                 applyOps, syncEvent, deviceVars>>

\* The application reads the result register, if it uses it at all, and
\* decides on another super-step.
Query ==
  /\ pc = "query"
  /\ IF UntilQuiet
     THEN /\ activeVertices' = IF dirty THEN reg ELSE activeVertices
          /\ dirty' = FALSE
     ELSE UNCHANGED <<activeVertices, dirty>>
  /\ IF superStep + 1 < MaxSteps /\ (UntilQuiet => activeVertices' # 0)
     THEN /\ superStep' = superStep + 1 /\ pc' = "gs"
          /\ activity' = FALSE
     ELSE /\ pc' = "end"
          /\ UNCHANGED <<superStep, activity>>
  /\ UNCHANGED <<position, cu, run, gsOps, applyOps, syncEvent, gsSeen,
                 applySeen, prop, tmpProp, reg>>

\* reTransferProp: new memory objects, loaded with the initial properties;
\* the register is overwritten with the host's copy.
Reload ==
  /\ pc = "end" /\ run < MaxRuns
  /\ run' = run + 1 /\ superStep' = 0 /\ pc' = "gs"
  /\ prop' = Loaded
  /\ reg' = activeVertices
  /\ activity' = FALSE
  /\ UNCHANGED <<position, cu, activeVertices, dirty, gsOps, applyOps,
                 syncEvent, gsSeen, applySeen, tmpProp>>

Finished == pc = "end" /\ run = MaxRuns /\ UNCHANGED vars

Host == EnqueueGs \/ EnqueueApply \/ Finish \/ Query \/ Reload
-----------------------------------------------------------------------------
(***************************************************************************)
(* The gather-scatter kernel of a unit: sources of its edges may lie in    *)
(* any partition, so it reads the whole of its property buffer.            *)
(***************************************************************************)
GsReads(u) == {prop[u][Ping(Head(gsOps[u]).step)][p] : p \in Part}

GsStart(u) ==
  /\ gsOps[u] # <<>> /\ gsSeen[u] = NotRunning
  /\ gsSeen' = [gsSeen EXCEPT ![u] = GsReads(u)]
  /\ tmpProp' = [tmpProp EXCEPT ![Head(gsOps[u]).part][u] = Bad]
  /\ UNCHANGED <<hostVars, dirty, gsOps, applyOps, syncEvent, applySeen, prop,
                 reg, activity>>

GsFinishUnsignalled(u) ==
  /\ gsSeen[u] # NotRunning
  /\ tmpProp' = [tmpProp EXCEPT ![Head(gsOps[u]).part][u] =
                   Common(gsSeen[u] \cup GsReads(u))]
  /\ gsSeen' = [gsSeen EXCEPT ![u] = NotRunning]
  /\ gsOps' = [gsOps EXCEPT ![u] = Tail(@)]
  /\ UNCHANGED <<hostVars, dirty, applyOps, syncEvent, applySeen, prop, reg,
                 activity>>

GsFinish(u) ==
  /\ gsSeen[u] # NotRunning
  /\ tmpProp' = [tmpProp EXCEPT ![Head(gsOps[u]).part][u] =
                   Common(gsSeen[u] \cup GsReads(u))]
  /\ gsSeen' = [gsSeen EXCEPT ![u] = NotRunning]
  /\ syncEvent' = [syncEvent EXCEPT ![Head(gsOps[u]).position][u] = TRUE]
  /\ gsOps' = [gsOps EXCEPT ![u] = Tail(@)]
  /\ UNCHANGED <<hostVars, dirty, applyOps, applySeen, prop, reg, activity>>

(***************************************************************************)
(* The apply kernel: merges the updates of all units for a partition with  *)
(* its current properties (of the first unit) and writes the new ones to   *)
(* every unit; its register is the count of this partition's active        *)
(* vertices, here none or some.                                            *)
(***************************************************************************)
ApplyReads ==
  LET t == Head(applyOps) IN
    {tmpProp[t.part][u] : u \in Cus} \cup {prop[0][Ping(t.step)][t.part]}

WriteProp(v) ==
  LET t == Head(applyOps) IN
    prop' = [u \in Cus |-> [prop[u] EXCEPT ![Pong(t.step)][t.part] = v]]

ApplyMayStartEarly(t) == syncEvent[t.position][0]

\* It waits for the events of the gather-scatter tasks at its position.
ApplyMayStart(t) == \A u \in Cus : syncEvent[t.position][u]

ApplyStart ==
  /\ applyOps # <<>> /\ applySeen = NotRunning
  /\ ApplyMayStart(Head(applyOps))
  /\ applySeen' = ApplyReads
  /\ WriteProp(Bad)
  /\ UNCHANGED <<hostVars, dirty, gsOps, applyOps, syncEvent, gsSeen, tmpProp,
                 reg, activity>>

ApplyFinish ==
  /\ applySeen # NotRunning
  /\ LET v == Common(applySeen \cup ApplyReads) IN
       WriteProp(IF v = Bad THEN Bad ELSE v + 1)
  /\ \E count \in {0, 1} :
       /\ reg' = count
       /\ activity' = (activity \/ count # 0)
  /\ applySeen' = NotRunning
  /\ applyOps' = Tail(applyOps)
  /\ UNCHANGED <<hostVars, dirty, gsOps, syncEvent, gsSeen, tmpProp>>

Apply == ApplyStart \/ ApplyFinish

Next == \/ Host
        \/ \E u \in Cus : GsStart(u) \/ GsFinish(u)
        \/ Apply
        \/ Finished

Spec == Init /\ [][Next]_vars

\* The host is a loop of calls that return; the runtime starts every task
\* that is ready and kernels end (RawSolver, SourceCache).
FairSpec == /\ Spec /\ WF_vars(Host) /\ WF_vars(Apply)
            /\ \A u \in Cus : WF_vars(GsStart(u) \/ GsFinish(u))
-----------------------------------------------------------------------------
Steps == 0 .. MaxSteps
TaskType == [part : Part, position : Positions, step : 0 .. MaxSteps - 1]

TypeOK ==
  /\ pc \in {"gs", "apply", "finish", "query", "end"}
  /\ superStep \in 0 .. MaxSteps - 1 /\ position \in 0 .. BlkNum
  /\ cu \in Cus /\ run \in 1 .. MaxRuns
  /\ activeVertices \in {0, 1} /\ reg \in {0, 1}
  /\ dirty \in BOOLEAN /\ activity \in BOOLEAN
  /\ gsOps \in [Cus -> Seq(TaskType)] /\ applyOps \in Seq(TaskType)
  /\ \A u \in Cus : Len(gsOps[u]) <= BlkNum
  /\ Len(applyOps) <= BlkNum
  /\ gsSeen \in [Cus -> SUBSET (Steps \cup {Bad})]
  /\ applySeen \subseteq Steps \cup {Bad}
  /\ syncEvent \in [Positions -> [Cus -> BOOLEAN]]
  /\ prop \in [Cus -> [{0, 1} -> [Part -> Steps \cup {Bad}]]]
  /\ tmpProp \in [Part -> [Cus -> Steps \cup {Bad}]]

\* The position of the super-step up to which tasks have been enqueued.
Enqueued == CASE pc = "gs" -> position [] pc = "apply" -> position + 1
              [] OTHER -> BlkNum

\* While a super-step runs, an event of a task of it that is complete tells
\* that the unit's updates for the partition stem from this very super-step.
EventMeansGathered ==
  \A i \in Positions : \A u \in Cus :
    (pc # "end" /\ i < Enqueued /\ syncEvent[i][u])
      => tmpProp[Order[i]][u] = superStep

\* After clFinish the buffer the next super-step (and the host) reads holds
\* the new properties of every partition, on every unit.
ResultsComplete ==
  pc \in {"query", "end"} =>
    \A u \in Cus : \A p \in Part : prop[u][Pong(superStep)][p] = superStep + 1

\* The buffer a super-step reads from is not touched while it runs.
SourcesStable ==
  pc # "end" =>
    \A u \in Cus : \A p \in Part : prop[u][Ping(superStep)][p] = superStep

\* What the application reads as the count of active vertices is what the
\* last apply task has written, never a copy from an earlier super-step.
RegisterFresh == [][pc = "query" /\ UntilQuiet => activeVertices' = reg]_vars

\* The steps of the partitions, as far as every unit has them.
Written(p) == \A u \in Cus : prop[u][Pong(superStep)][p] = superStep + 1

BSP == INSTANCE BulkSync WITH
         Part <- Part,
         step <- superStep,
         property <- [p \in Part |-> IF Written(p) THEN superStep + 1
                                     ELSE prop[0][Ping(superStep)][p]]

\* Overlapping gather-scatter and apply tasks of different partitions does
\* not show: the host sees supersteps of a bulk-synchronous machine.
BulkSynchronous == BSP!Spec

\* Every super-step ends: queues and events never wait in a circle.
StepsEnd == \A s \in 0 .. MaxSteps - 1 :
              (superStep = s /\ pc = "gs") ~> (superStep = s /\ pc = "query")

\* bfs and cc go on while a vertex is active: a loop that stops before the
\* bound stops because no partition had an active vertex.
StopsWhenQuiet == (pc = "end" /\ superStep + 1 < MaxSteps) => ~activity
=============================================================================
