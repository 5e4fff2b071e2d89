-------------------------- MODULE SuperStep_proofs --------------------------
(***************************************************************************)
(* The super-step control for any number of compute units and partitions,  *)
(* any order of the partitions and any number of steps and restarts: the   *)
(* events mean what the apply tasks take them to mean, the buffer read in  *)
(* a step is stable, the one written is complete when the host goes on,    *)
(* the register is never stale, and overlapped kernels implement the       *)
(* bulk-synchronous machine BulkSync.                                      *)
(***************************************************************************)
EXTENDS SuperStep, SequenceTheorems, TLAPS

-----------------------------------------------------------------------------
(***************************************************************************)
(* The inductive invariant.  Tasks are enqueued and finished in the order  *)
(* of the positions, so that two counts per queue tell what is in it.      *)
(***************************************************************************)

\* How many tasks of this super-step the host has put into a queue ...
GsEnqueued(u) ==
  IF pc = "gs" THEN position + (IF u < cu THEN 1 ELSE 0)
  ELSE IF pc = "apply" /\ position < BlkNum THEN position + 1 ELSE BlkNum

ApplyEnqueued ==
  IF pc \in {"gs", "apply"} THEN (IF position = 0 THEN 0 ELSE position - 1)
  ELSE BlkNum

\* ... and how many of them have finished.
GsDone(u) == GsEnqueued(u) - Len(gsOps[u])
ApplyDone == ApplyEnqueued - Len(applyOps)

\* A queue holds the tasks of the last positions of the first n.
LastTasks(q, n) ==
  /\ Len(q) <= n
  /\ \A k \in 1 .. Len(q) : q[k] = Task(n - Len(q) + k - 1)

HostInv ==
  /\ pc = "gs" => position < BlkNum
  /\ pc # "gs" => cu = 0
  /\ pc \notin {"gs", "apply"} => position = 0
  /\ pc \in {"query", "end"} => applyOps = <<>> /\ \A u \in Cus : gsOps[u] = <<>>
  /\ pc \in {"finish", "query"} => dirty

QueueInv ==
  /\ \A u \in Cus : LastTasks(gsOps[u], GsEnqueued(u))
  /\ LastTasks(applyOps, ApplyEnqueued)

\* An event of a task of this super-step is complete when the task is; the
\* events of positions not reached are left over from the step before.
EventInv ==
  \A u \in Cus : \A i \in Positions :
    i < GsEnqueued(u) => (syncEvent[i][u] <=> i < GsDone(u))

GatherInv ==
  \A u \in Cus :
    /\ \A i \in Positions : i < GsDone(u) => tmpProp[Order[i]][u] = superStep
    /\ gsSeen[u] # NotRunning => gsOps[u] # <<>> /\ gsSeen[u] = {superStep}

SourceInv ==
  \A u \in Cus : \A p \in Part : prop[u][Ping(superStep)][p] = superStep

\* The other buffer holds the new properties of the partitions applied and,
\* for the others, what was read in the step before, or nothing of use.
ApplyInv ==
  /\ applySeen # NotRunning =>
       /\ applyOps # <<>> /\ applySeen = {superStep}
       /\ \A u \in Cus : ApplyDone < GsDone(u)
  /\ \A u \in Cus : \A i \in Positions :
       IF i < ApplyDone
       THEN prop[u][Pong(superStep)][Order[i]] = superStep + 1
       ELSE prop[u][Pong(superStep)][Order[i]] \in {Bad, superStep - 1}

IInv == /\ TypeOK /\ HostInv /\ QueueInv /\ EventInv /\ GatherInv
        /\ SourceInv /\ ApplyInv
-----------------------------------------------------------------------------
(***************************************************************************)
(* Operators of the model.                                                 *)
(***************************************************************************)

LEMMA CommonOfOne == \A v : Common({v}) = v
  BY DEF Common

\* The two buffers change their roles from one step to the next.
LEMMA PingPong ==
  ASSUME NEW s \in Nat
  PROVE  /\ Ping(s) \in {0, 1} /\ Pong(s) \in {0, 1} /\ Ping(s) # Pong(s)
         /\ Ping(s + 1) = Pong(s) /\ Pong(s + 1) = Ping(s)
  BY DEF Ping, Pong

\* What a queue of consecutive tasks is after an append and after a removal.
LEMMA LastTasksAppend ==
  ASSUME NEW q \in Seq(TaskType), NEW n \in Nat, LastTasks(q, n)
  PROVE  LastTasks(Append(q, Task(n)), n + 1)
<1>. DEFINE r == Append(q, Task(n))
<1>1. /\ Len(r) = Len(q) + 1 /\ Len(q) \in Nat
      /\ \A k \in 1 .. Len(q) : r[k] = q[k]
      /\ r[Len(q) + 1] = Task(n)
  OBVIOUS
<1>. HIDE DEF r
<1>2. ASSUME NEW k \in 1 .. Len(r)
      PROVE  r[k] = Task(n + 1 - Len(r) + k - 1)
  <2>1. CASE k \in 1 .. Len(q)
    <3>1. n + 1 - Len(r) + k - 1 = n - Len(q) + k - 1
      BY <1>1, <2>1
    <3>. QED  BY <1>1, <2>1, <3>1 DEF LastTasks
  <2>2. CASE k = Len(q) + 1
    <3>1. n + 1 - Len(r) + k - 1 = n
      BY <1>1, <2>2
    <3>. QED  BY <1>1, <2>2, <3>1
  <2>. QED  BY <1>1, <2>1, <2>2
<1>3. Len(r) <= n + 1
  BY <1>1 DEF LastTasks
<1>4. LastTasks(r, n + 1)
  BY <1>2, <1>3 DEF LastTasks
<1>. QED  BY <1>4 DEF r

LEMMA LastTasksTail ==
  ASSUME NEW q \in Seq(TaskType), NEW n \in Nat, LastTasks(q, n), q # <<>>
  PROVE  /\ Len(Tail(q)) = Len(q) - 1 /\ Len(q) \in 1 .. n
         /\ Tail(q) \in Seq(TaskType)
         /\ LastTasks(Tail(q), n)
         /\ Head(q) = Task(n - Len(q)) /\ Head(q) \in TaskType
<1>1. /\ Len(Tail(q)) = Len(q) - 1 /\ Len(q) \in Nat \ {0}
      /\ Tail(q) \in Seq(TaskType)
      /\ \A k \in 1 .. Len(Tail(q)) : Tail(q)[k] = q[k + 1]
      /\ Head(q) = q[1] /\ Head(q) \in TaskType
  OBVIOUS
<1>2. Head(q) = Task(n - Len(q))
  <2>1. q[1] = Task(n - Len(q) + 1 - 1)
    BY <1>1 DEF LastTasks
  <2>2. n - Len(q) + 1 - 1 = n - Len(q)
    BY <1>1
  <2>. QED  BY <1>1, <2>1, <2>2
<1>3. ASSUME NEW k \in 1 .. Len(Tail(q))
      PROVE  Tail(q)[k] = Task(n - Len(Tail(q)) + k - 1)
  <2>1. q[k + 1] = Task(n - Len(q) + (k + 1) - 1)
    BY <1>1 DEF LastTasks
  <2>2. n - Len(q) + (k + 1) - 1 = n - Len(Tail(q)) + k - 1
    BY <1>1
  <2>. QED  BY <1>1, <2>1, <2>2
<1>4. LastTasks(Tail(q), n) /\ Len(q) \in 1 .. n
  BY <1>1, <1>3 DEF LastTasks
<1>. QED  BY <1>1, <1>2, <1>4

LEMMA LastTasksEmpty == \A n \in Nat : LastTasks(<<>>, n)
  BY DEF LastTasks
-----------------------------------------------------------------------------
(***************************************************************************)
(* Every step preserves the invariant.                                     *)
(***************************************************************************)

\* The counts are in range and a waiting task is the one after those done.
LEMMA Counts ==
  ASSUME IInv
  PROVE  /\ superStep \in Nat /\ ApplyEnqueued \in 0 .. BlkNum
         /\ Len(applyOps) \in Nat /\ ApplyDone \in 0 .. ApplyEnqueued
         /\ \A u \in Cus : /\ GsEnqueued(u) \in 0 .. BlkNum
                           /\ Len(gsOps[u]) \in Nat
                           /\ GsDone(u) \in 0 .. GsEnqueued(u)
                           /\ ApplyEnqueued <= GsEnqueued(u)
<1>1. /\ superStep \in Nat /\ position \in 0 .. BlkNum /\ BlkNum \in Nat \ {0}
      /\ pc = "gs" => position < BlkNum
  BY StepAssumption DEF IInv, TypeOK, HostInv
<1>2. ApplyEnqueued \in 0 .. BlkNum
  BY <1>1 DEF ApplyEnqueued
<1>3. Len(applyOps) \in Nat /\ ApplyDone \in 0 .. ApplyEnqueued
  BY <1>2 DEF IInv, TypeOK, QueueInv, LastTasks, ApplyDone
<1>4. ASSUME NEW u \in Cus
      PROVE  /\ GsEnqueued(u) \in 0 .. BlkNum /\ Len(gsOps[u]) \in Nat
             /\ GsDone(u) \in 0 .. GsEnqueued(u)
             /\ ApplyEnqueued <= GsEnqueued(u)
  <2>1. GsEnqueued(u) \in 0 .. BlkNum
    BY <1>1 DEF GsEnqueued
  <2>2. Len(gsOps[u]) \in Nat
    BY DEF IInv, TypeOK
  <2>3. GsDone(u) \in 0 .. GsEnqueued(u)
    BY <2>1, <2>2 DEF IInv, QueueInv, LastTasks, GsDone
  <2>4. ApplyEnqueued <= GsEnqueued(u)
    BY <1>1 DEF ApplyEnqueued, GsEnqueued
  <2>. QED  BY <2>1, <2>2, <2>3, <2>4
<1>. QED  BY <1>1, <1>2, <1>3, <1>4

LEMMA InitInv == Init => IInv
<1>. SUFFICES ASSUME Init  PROVE IInv
  OBVIOUS
<1>. USE StepAssumption
<1>1. TypeOK
  <2>1. /\ gsOps \in [Cus -> Seq(TaskType)] /\ applyOps \in Seq(TaskType)
        /\ \A u \in Cus : Len(gsOps[u]) = 0
        /\ Len(applyOps) = 0
    BY DEF Init
  <2>2. /\ prop \in [Cus -> [{0, 1} -> [Part -> Steps \cup {Bad}]]]
        /\ tmpProp \in [Part -> [Cus -> Steps \cup {Bad}]]
    BY DEF Init, Loaded, Steps
  <2>3. /\ gsSeen \in [Cus -> SUBSET (Steps \cup {Bad})]
        /\ applySeen \subseteq Steps \cup {Bad}
        /\ syncEvent \in [Positions -> [Cus -> BOOLEAN]]
    BY DEF Init, NotRunning
  <2>4. /\ superStep \in 0 .. MaxSteps - 1 /\ position \in 0 .. BlkNum
        /\ cu \in Cus /\ run \in 1 .. MaxRuns
    <3>1. superStep = 0 /\ position = 0 /\ cu = 0 /\ run = 1
      BY Zenon DEF Init
    <3>. QED  BY <3>1 DEF Cus
  <2>5. /\ pc \in {"gs", "apply", "finish", "query", "end"}
        /\ activeVertices \in {0, 1} /\ reg \in {0, 1}
        /\ dirty \in BOOLEAN /\ activity \in BOOLEAN
    BY Zenon DEF Init
  <2>. QED  BY <2>1, <2>2, <2>3, <2>4, <2>5 DEF TypeOK
<1>2. HostInv
  BY DEF Init, HostInv
<1>3. /\ \A u \in Cus : GsEnqueued(u) = 0 /\ gsOps[u] = <<>> /\ GsDone(u) = 0
      /\ ApplyEnqueued = 0 /\ ApplyDone = 0 /\ applyOps = <<>>
  BY DEF Init, GsEnqueued, ApplyEnqueued, GsDone, ApplyDone, Cus
<1>4. QueueInv /\ EventInv
  BY <1>3, LastTasksEmpty DEF QueueInv, EventInv, Positions
<1>5. GatherInv
  BY <1>3 DEF Init, GatherInv, Positions
<1>6. superStep = 0 /\ Ping(0) = 0 /\ Pong(0) = 1 /\ prop = Loaded
  BY DEF Init, Ping, Pong
<1>7. SourceInv
  BY <1>6 DEF SourceInv, Loaded
<1>8. ApplyInv
  BY <1>3, <1>6 DEF Init, ApplyInv, Loaded, Bad, Positions
<1>. QED  BY <1>1, <1>2, <1>4, <1>5, <1>7, <1>8 DEF IInv

LEMMA TaskInType ==
  ASSUME TypeOK, NEW i \in Positions
  PROVE  Task(i) \in TaskType
  BY StepAssumption DEF TypeOK, Task, TaskType

LEMMA EnqueueGsInv ==
  ASSUME IInv, EnqueueGs
  PROVE  IInv'
<1>. USE StepAssumption DEF IInv
<1>1. /\ pc = "gs" /\ position \in Positions /\ cu \in Cus
      /\ UNCHANGED <<superStep, position, run, activeVertices, dirty, applyOps,
                     gsSeen, applySeen, prop, tmpProp, reg, activity>>
      /\ superStep \in Nat
  BY DEF EnqueueGs, TypeOK, HostInv, Positions, deviceVars
<1>2. /\ GsEnqueued(cu) = position
      /\ \A u \in Cus : GsEnqueued(u)' = IF u = cu THEN GsEnqueued(u) + 1
                                         ELSE GsEnqueued(u)
  BY <1>1 DEF EnqueueGs, GsEnqueued, Cus, Positions
<1>3. /\ gsOps'[cu] = Append(gsOps[cu], Task(position))
      /\ \A u \in Cus \ {cu} : gsOps'[u] = gsOps[u]
      /\ \A u \in Cus : gsOps[u] \in Seq(TaskType)
  BY <1>1 DEF EnqueueGs, TypeOK
<1>4. \A u \in Cus : GsDone(u)' = GsDone(u) /\ (gsOps[u] # <<>> => gsOps'[u] # <<>>)
  <2>1. Len(gsOps'[cu]) = Len(gsOps[cu]) + 1 /\ gsOps'[cu] # <<>>
    BY <1>1, <1>3
  <2>2. ASSUME NEW u \in Cus
        PROVE  GsDone(u)' = GsDone(u) /\ (gsOps[u] # <<>> => gsOps'[u] # <<>>)
    <3>1. CASE u = cu
      BY <1>2, <2>1, <3>1, Counts DEF GsDone
    <3>2. CASE u # cu
      BY <1>2, <1>3, <3>2 DEF GsDone
    <3>. QED  BY <3>1, <3>2
  <2>. QED  BY <2>2
<1>5. ApplyEnqueued' = ApplyEnqueued /\ ApplyDone' = ApplyDone
  BY <1>1 DEF EnqueueGs, ApplyEnqueued, ApplyDone
<1>6. \A i : Task(i)' = Task(i)
  BY <1>1 DEF Task
<1>7. QueueInv'
  <2>1. LastTasks(gsOps[cu], position)
    BY <1>1, <1>2 DEF QueueInv
  <2>2. LastTasks(gsOps'[cu], position + 1)
    BY <1>1, <1>3, <2>1, LastTasksAppend DEF Positions
  <2>3. ASSUME NEW u \in Cus  PROVE LastTasks(gsOps'[u], GsEnqueued(u)')
    <3>1. CASE u = cu
      BY <1>2, <2>2, <3>1
    <3>2. CASE u # cu
      BY <1>2, <1>3, <3>2 DEF QueueInv
    <3>. QED  BY <3>1, <3>2
  <2>4. LastTasks(applyOps', ApplyEnqueued')
    BY <1>1, <1>5 DEF QueueInv
  <2>. QED  BY <1>6, <2>3, <2>4 DEF QueueInv, LastTasks
<1>8. TypeOK'
  <2>1. Task(position) \in TaskType
    BY <1>1, TaskInType
  <2>2. gsOps' \in [Cus -> Seq(TaskType)]
    BY <1>1, <2>1 DEF EnqueueGs, TypeOK
  <2>3. \A u \in Cus : Len(gsOps'[u]) <= BlkNum
    <3>1. \A u \in Cus : Len(gsOps'[u]) <= GsEnqueued(u)' /\ GsEnqueued(u)' <= BlkNum
      BY <1>1, <1>2, <1>7, Counts DEF QueueInv, LastTasks, Positions
    <3>2. \A u \in Cus : GsEnqueued(u)' \in Int /\ Len(gsOps'[u]) \in Int
      BY <1>2, <2>2, Counts
    <3>. QED  BY <3>1, <3>2
  <2>4. syncEvent' \in [Positions -> [Cus -> BOOLEAN]]
    BY <1>1 DEF EnqueueGs, TypeOK
  <2>5. pc' \in {"gs", "apply"} /\ cu' \in Cus
    BY <1>1 DEF EnqueueGs, Cus
  <2>. QED  BY <1>1, <2>2, <2>3, <2>4, <2>5 DEF TypeOK
<1>9. HostInv'
  BY <1>1 DEF EnqueueGs, HostInv
<1>10. EventInv'
  <2>1. ASSUME NEW u \in Cus, NEW i \in Positions, i < GsEnqueued(u)'
        PROVE  syncEvent'[i][u] <=> i < GsDone(u)'
    <3>1. CASE u = cu /\ i = position
      <4>1. ~syncEvent'[i][u]
        BY <1>1, <3>1 DEF EnqueueGs, TypeOK
      <4>2. GsDone(u) <= position
        BY <1>2, <3>1, Counts
      <4>. QED  BY <1>1, <1>4, <3>1, <4>1, <4>2, Counts DEF Positions
    <3>2. CASE ~(u = cu /\ i = position)
      <4>1. syncEvent'[i][u] = syncEvent[i][u]
        BY <1>1, <3>2 DEF EnqueueGs, TypeOK
      <4>2. i < GsEnqueued(u)
        BY <1>1, <1>2, <2>1, <3>2 DEF Positions
      <4>. QED  BY <1>4, <4>1, <4>2 DEF EventInv
    <3>. QED  BY <3>1, <3>2
  <2>. QED  BY <2>1 DEF EventInv
<1>11. GatherInv'
  BY <1>1, <1>4 DEF GatherInv
<1>12. SourceInv' /\ ApplyInv'
  BY <1>1, <1>4, <1>5 DEF SourceInv, ApplyInv
<1>. QED  BY <1>7, <1>8, <1>9, <1>10, <1>11, <1>12

LEMMA EnqueueApplyInv ==
  ASSUME IInv, EnqueueApply
  PROVE  IInv'
<1>. USE StepAssumption DEF IInv
<1>1. /\ pc = "apply" /\ position \in 0 .. BlkNum /\ cu = 0 /\ cu' = 0
      /\ UNCHANGED <<superStep, cu, run, activeVertices, gsOps, syncEvent,
                     gsSeen, applySeen, prop, tmpProp, reg, activity>>
      /\ superStep \in Nat
  BY DEF EnqueueApply, TypeOK, HostInv, deviceVars
<1>2. /\ position' \in 0 .. BlkNum
      /\ pc' \in {"gs", "apply", "finish"}
      /\ pc' = "gs" => position' = position + 1 /\ position' < BlkNum
      /\ pc' = "apply" => position' = position + 1 /\ position' = BlkNum
      /\ pc' = "finish" => position' = 0 /\ position = BlkNum
  BY <1>1 DEF EnqueueApply
<1>3. \A u \in Cus : GsEnqueued(u)' = GsEnqueued(u) /\ GsDone(u)' = GsDone(u)
  <2>1. ASSUME NEW u \in Cus  PROVE GsEnqueued(u)' = GsEnqueued(u)
    <3>1. ~(u < 0) /\ BlkNum \in Nat
      BY DEF Cus
    <3>2. GsEnqueued(u) = IF position < BlkNum THEN position + 1 ELSE BlkNum
      BY <1>1 DEF GsEnqueued
    <3>3. CASE pc' = "gs"
      BY <1>1, <1>2, <3>1, <3>2, <3>3 DEF GsEnqueued
    <3>4. CASE pc' = "apply"
      BY <1>1, <1>2, <3>1, <3>2, <3>4 DEF GsEnqueued
    <3>5. CASE pc' = "finish"
      BY <1>1, <1>2, <3>1, <3>2, <3>5 DEF GsEnqueued
    <3>. QED  BY <1>2, <3>3, <3>4, <3>5
  <2>. QED  BY <1>1, <2>1 DEF GsDone
<1>4. ApplyEnqueued' = IF position > 0 THEN ApplyEnqueued + 1 ELSE ApplyEnqueued
  <2>1. ApplyEnqueued = IF position = 0 THEN 0 ELSE position - 1
    BY <1>1 DEF ApplyEnqueued
  <2>2. CASE pc' \in {"gs", "apply"}
    <3>1. position' = position + 1
      BY <1>2, <2>2
    <3>2. ApplyEnqueued' = position
      BY <1>1, <2>2, <3>1 DEF ApplyEnqueued
    <3>. QED  BY <1>1, <2>1, <3>2
  <2>3. CASE pc' = "finish"
    <3>1. position = BlkNum /\ BlkNum > 0
      BY <1>2, <2>3
    <3>2. ApplyEnqueued' = BlkNum
      BY <2>3 DEF ApplyEnqueued
    <3>. QED  BY <1>1, <2>1, <3>1, <3>2
  <2>. QED  BY <1>2, <2>2, <2>3
<1>5. position > 0 => ApplyEnqueued = position - 1
  BY <1>1 DEF ApplyEnqueued
<1>6. \A i : Task(i)' = Task(i)
  BY <1>1 DEF Task
<1>7. /\ applyOps' \in Seq(TaskType) /\ ApplyDone' = ApplyDone
      /\ applyOps # <<>> => applyOps' # <<>>
      /\ LastTasks(applyOps', ApplyEnqueued')
      /\ dirty' \in BOOLEAN /\ (position > 0 => dirty')
  <2>1. CASE position > 0
    <3>1. applyOps' = Append(applyOps, Task(position - 1)) /\ dirty' = TRUE
      BY <1>1, <2>1 DEF EnqueueApply
    <3>2. Task(position - 1) \in TaskType
      BY <1>1, <2>1, TaskInType DEF Positions
    <3>3. applyOps \in Seq(TaskType) /\ LastTasks(applyOps, ApplyEnqueued)
          /\ ApplyEnqueued \in Nat
      BY Counts DEF TypeOK, QueueInv
    <3>4. applyOps' \in Seq(TaskType) /\ Len(applyOps') = Len(applyOps) + 1
          /\ applyOps' # <<>>
      BY <3>1, <3>2, <3>3
    <3>5. LastTasks(applyOps', ApplyEnqueued')
      BY <1>4, <1>5, <2>1, <3>1, <3>3, LastTasksAppend
    <3>6. ApplyDone' = ApplyDone
      BY <1>4, <2>1, <3>4, Counts DEF ApplyDone
    <3>. QED  BY <3>1, <3>4, <3>5, <3>6
  <2>2. CASE ~(position > 0)
    <3>1. applyOps' = applyOps /\ dirty' = dirty
      BY <1>1, <2>2 DEF EnqueueApply
    <3>. QED  BY <1>4, <2>2, <3>1 DEF ApplyDone, QueueInv, TypeOK
  <2>. QED  BY <2>1, <2>2
<1>8. QueueInv'
  BY <1>1, <1>3, <1>6, <1>7 DEF QueueInv, LastTasks
<1>9. TypeOK'
  <2>1. Len(applyOps') <= BlkNum
    BY <1>1, <1>4, <1>5, <1>7, Counts DEF LastTasks
  <2>. QED  BY <1>1, <1>2, <1>7, <2>1 DEF TypeOK
<1>10. HostInv'
  BY <1>1, <1>2, <1>7 DEF HostInv
<1>11. EventInv' /\ GatherInv' /\ SourceInv' /\ ApplyInv'
  BY <1>1, <1>3, <1>7 DEF EventInv, GatherInv, SourceInv, ApplyInv
<1>. QED  BY <1>8, <1>9, <1>10, <1>11

LEMMA FinishInv ==
  ASSUME IInv, Finish
  PROVE  IInv'
<1>. USE StepAssumption DEF IInv
<1>1. /\ pc = "finish" /\ pc' = "query" /\ applyOps = <<>>
      /\ \A u \in Cus : gsOps[u] = <<>>
      /\ UNCHANGED <<superStep, position, cu, run, activeVertices, dirty, gsOps,
                     applyOps, syncEvent, gsSeen, applySeen, prop, tmpProp, reg,
                     activity>>
  BY DEF Finish, deviceVars
<1>2. /\ \A u \in Cus : GsEnqueued(u)' = GsEnqueued(u) /\ GsDone(u)' = GsDone(u)
      /\ ApplyEnqueued' = ApplyEnqueued /\ ApplyDone' = ApplyDone
  BY <1>1 DEF GsEnqueued, GsDone, ApplyEnqueued, ApplyDone
<1>3. QueueInv'
  BY <1>1, <1>2 DEF QueueInv, LastTasks, Task
<1>4. TypeOK' /\ HostInv'
  BY <1>1 DEF TypeOK, HostInv
<1>5. EventInv' /\ GatherInv' /\ SourceInv' /\ ApplyInv'
  BY <1>1, <1>2 DEF EventInv, GatherInv, SourceInv, ApplyInv
<1>. QED  BY <1>3, <1>4, <1>5

\* With the host behind clFinish the whole step has been executed.
LEMMA AllDone ==
  ASSUME IInv, pc \in {"query", "end"}
  PROVE  /\ position = 0 /\ cu = 0
         /\ applyOps = <<>> /\ \A u \in Cus : gsOps[u] = <<>>
         /\ ApplyDone = BlkNum /\ \A u \in Cus : GsDone(u) = BlkNum
         /\ applySeen = NotRunning /\ \A u \in Cus : gsSeen[u] = NotRunning
         /\ \A u \in Cus : \A p \in Part :
              prop[u][Pong(superStep)][p] = superStep + 1
<1>1. /\ position = 0 /\ cu = 0
      /\ applyOps = <<>> /\ \A u \in Cus : gsOps[u] = <<>>
  BY DEF IInv, HostInv
<1>2. ApplyDone = BlkNum /\ \A u \in Cus : GsDone(u) = BlkNum
  BY <1>1, StepAssumption DEF ApplyDone, ApplyEnqueued, GsDone, GsEnqueued
<1>3. applySeen = NotRunning /\ \A u \in Cus : gsSeen[u] = NotRunning
  BY <1>1 DEF IInv, GatherInv, ApplyInv
<1>4. ASSUME NEW u \in Cus, NEW p \in Part
      PROVE  prop[u][Pong(superStep)][p] = superStep + 1
  <2>1. PICK i \in Positions : Order[i] = p
    BY StepAssumption
  <2>2. i < ApplyDone
    BY <1>2, StepAssumption DEF Positions
  <2>. QED  BY <2>1, <2>2 DEF IInv, ApplyInv
<1>. QED  BY <1>1, <1>2, <1>3, <1>4

\* At the first position nothing of a step is enqueued.
LEMMA StepBegins ==
  ASSUME pc' = "gs", position' = 0, cu' = 0, applyOps' = <<>>,
         \A u \in Cus : gsOps'[u] = <<>>,
         applySeen' = NotRunning, \A u \in Cus : gsSeen'[u] = NotRunning
  PROVE  /\ ApplyDone' = 0 /\ \A u \in Cus : GsDone(u)' = 0
         /\ HostInv' /\ QueueInv' /\ EventInv' /\ GatherInv'
<1>. USE StepAssumption
<1>1. ApplyEnqueued' = 0 /\ ApplyDone' = 0
  BY DEF ApplyEnqueued, ApplyDone
<1>2. \A u \in Cus : GsEnqueued(u)' = 0 /\ GsDone(u)' = 0
  BY DEF GsEnqueued, GsDone, Cus
<1>3. HostInv'
  BY DEF HostInv
<1>4. QueueInv'
  BY <1>1, <1>2 DEF QueueInv, LastTasks
<1>5. EventInv' /\ GatherInv'
  BY <1>2 DEF EventInv, GatherInv, Positions
<1>. QED  BY <1>1, <1>2, <1>3, <1>4, <1>5

LEMMA QueryInv ==
  ASSUME IInv, Query
  PROVE  IInv'
<1>. USE StepAssumption
<1>1. /\ pc = "query"
      /\ UNCHANGED <<position, cu, run, gsOps, applyOps, syncEvent, gsSeen,
                     applySeen, prop, tmpProp, reg>>
      /\ superStep \in Nat
  BY Counts DEF Query
<1>2. activeVertices' \in {0, 1} /\ dirty' \in BOOLEAN
  BY DEF Query, IInv, TypeOK
<1>3. CASE pc' = "gs"
  <2>1. superStep' = superStep + 1 /\ superStep + 1 < MaxSteps /\ activity' = FALSE
    BY <1>3 DEF Query
  <2>2. TypeOK'
    <3>1. superStep' \in 0 .. MaxSteps - 1
      BY <1>1, <2>1
    <3>2. activity' \in BOOLEAN
      BY <2>1
    <3>3. TypeOK
      BY DEF IInv
    <3>. QED  BY <1>1, <1>2, <1>3, <3>1, <3>2, <3>3 DEF TypeOK
  <2>3. /\ ApplyDone' = 0 /\ \A u \in Cus : GsDone(u)' = 0
        /\ HostInv' /\ QueueInv' /\ EventInv' /\ GatherInv'
        /\ applySeen' = NotRunning
    BY <1>1, <1>3, AllDone, StepBegins
  <2>4. /\ Ping(superStep') = Pong(superStep) /\ Pong(superStep') = Ping(superStep)
        /\ superStep' - 1 = superStep
    BY <1>1, <2>1, PingPong
  <2>5. SourceInv'
    BY <1>1, <2>1, <2>4, AllDone DEF SourceInv
  <2>6. ApplyInv'
    <3>1. \A u \in Cus : \A i \in Positions :
            prop[u][Ping(superStep)][Order[i]] = superStep
      BY DEF IInv, SourceInv
    <3>2. \A i \in Positions : ~(i < 0)
      BY DEF Positions
    <3>. QED  BY <1>1, <2>3, <2>4, <3>1, <3>2 DEF ApplyInv
  <2>. QED  BY <2>2, <2>3, <2>5, <2>6 DEF IInv
<1>4. CASE pc' = "end"
  <2>1. UNCHANGED <<superStep, activity>>
    BY <1>4 DEF Query
  <2>2. TypeOK' /\ HostInv'
    BY <1>1, <1>2, <1>4, <2>1 DEF IInv, TypeOK, HostInv
  <2>3. /\ \A u \in Cus : GsEnqueued(u)' = GsEnqueued(u) /\ GsDone(u)' = GsDone(u)
        /\ ApplyEnqueued' = ApplyEnqueued /\ ApplyDone' = ApplyDone
    BY <1>1, <1>4 DEF GsEnqueued, GsDone, ApplyEnqueued, ApplyDone
  <2>4. QueueInv'
    BY <1>1, <2>1, <2>3 DEF IInv, QueueInv, LastTasks, Task
  <2>5. EventInv' /\ GatherInv' /\ SourceInv' /\ ApplyInv'
    BY <1>1, <2>1, <2>3 DEF IInv, EventInv, GatherInv, SourceInv, ApplyInv
  <2>. QED  BY <2>2, <2>4, <2>5 DEF IInv
<1>. QED  BY <1>3, <1>4 DEF Query

LEMMA ReloadInv ==
  ASSUME IInv, Reload
  PROVE  IInv'
<1>. USE StepAssumption
<1>1. /\ pc = "end" /\ pc' = "gs" /\ superStep' = 0 /\ prop' = Loaded
      /\ run < MaxRuns /\ run' = run + 1 /\ reg' = activeVertices
      /\ activity' = FALSE
      /\ UNCHANGED <<position, cu, activeVertices, dirty, gsOps, applyOps,
                     syncEvent, gsSeen, applySeen, tmpProp>>
  BY DEF Reload
<1>2. TypeOK'
  <2>1. prop' \in [Cus -> [{0, 1} -> [Part -> Steps \cup {Bad}]]]
    BY <1>1 DEF Loaded, Steps
  <2>2. activity' \in BOOLEAN
    BY <1>1
  <2>3. TypeOK
    BY DEF IInv
  <2>4. superStep' \in 0 .. MaxSteps - 1 /\ run' \in 1 .. MaxRuns
    BY <1>1, <2>3 DEF TypeOK
  <2>5. /\ pc' = "gs" /\ reg' = activeVertices
        /\ UNCHANGED <<position, cu, activeVertices, dirty, gsOps, applyOps,
                       syncEvent, gsSeen, applySeen, tmpProp>>
    BY <1>1
  <2>. QED  BY <2>1, <2>2, <2>3, <2>4, <2>5 DEF TypeOK
<1>3. /\ ApplyDone' = 0 /\ \A u \in Cus : GsDone(u)' = 0
      /\ HostInv' /\ QueueInv' /\ EventInv' /\ GatherInv'
      /\ applySeen' = NotRunning
  BY <1>1, AllDone, StepBegins
<1>4. Ping(superStep') = 0 /\ Pong(superStep') = 1
  BY <1>1 DEF Ping, Pong
<1>5. SourceInv'
  BY <1>1, <1>4 DEF SourceInv, Loaded
<1>6. ApplyInv'
  <2>1. \A i \in Positions : ~(i < 0) /\ Order[i] \in Part
    BY DEF Positions
  <2>. QED  BY <1>1, <1>3, <1>4, <2>1 DEF ApplyInv, Loaded, Bad
<1>. QED  BY <1>2, <1>3, <1>5, <1>6 DEF IInv

\* The head of a unit's queue is the task of the first position not done.
LEMMA GsHead ==
  ASSUME IInv, NEW u \in Cus, gsOps[u] # <<>>
  PROVE  /\ GsDone(u) \in Positions /\ GsDone(u) < GsEnqueued(u)
         /\ Head(gsOps[u]).part = Order[GsDone(u)]
         /\ Head(gsOps[u]).position = GsDone(u)
         /\ Head(gsOps[u]).step = superStep
         /\ Order[GsDone(u)] \in Part
         /\ GsReads(u) = {superStep}
         /\ Tail(gsOps[u]) \in Seq(TaskType)
         /\ Len(Tail(gsOps[u])) = Len(gsOps[u]) - 1
         /\ LastTasks(Tail(gsOps[u]), GsEnqueued(u))
<1>. USE StepAssumption
<1>1. /\ gsOps[u] \in Seq(TaskType) /\ GsEnqueued(u) \in Nat
      /\ LastTasks(gsOps[u], GsEnqueued(u))
  BY Counts DEF IInv, TypeOK, QueueInv
<1>2. /\ Len(Tail(gsOps[u])) = Len(gsOps[u]) - 1
      /\ Len(gsOps[u]) \in 1 .. GsEnqueued(u)
      /\ Tail(gsOps[u]) \in Seq(TaskType)
      /\ LastTasks(Tail(gsOps[u]), GsEnqueued(u))
      /\ Head(gsOps[u]) = Task(GsDone(u))
  BY <1>1, LastTasksTail DEF GsDone
<1>3. GsDone(u) < GsEnqueued(u) /\ GsDone(u) \in Positions
  BY <1>2, Counts DEF GsDone, Positions
<1>4. /\ Head(gsOps[u]).part = Order[GsDone(u)]
      /\ Head(gsOps[u]).position = GsDone(u)
      /\ Head(gsOps[u]).step = superStep
      /\ Order[GsDone(u)] \in Part
  BY <1>2, <1>3 DEF Task
<1>5. GsReads(u) = {superStep}
  <2>1. \A p \in Part : prop[u][Ping(superStep)][p] = superStep
    BY DEF IInv, SourceInv
  <2>. QED  BY <1>4, <2>1 DEF GsReads
<1>. QED  BY <1>2, <1>3, <1>4, <1>5

LEMMA GsStartInv ==
  ASSUME IInv, NEW u \in Cus, GsStart(u)
  PROVE  IInv'
<1>. USE StepAssumption
<1>1. /\ gsOps[u] # <<>>
      /\ UNCHANGED <<pc, superStep, position, cu, run, activeVertices, dirty,
                     gsOps, applyOps, syncEvent, applySeen, prop, reg, activity>>
  BY DEF GsStart, hostVars
<1>2. gsSeen' = [gsSeen EXCEPT ![u] = {superStep}]
  BY <1>1, GsHead DEF GsStart
<1>3. tmpProp' = [tmpProp EXCEPT ![Order[GsDone(u)]][u] = Bad]
  BY <1>1, GsHead DEF GsStart
<1>4. GsDone(u) \in Positions /\ Order[GsDone(u)] \in Part
  BY <1>1, GsHead
<1>5. /\ \A w \in Cus : GsEnqueued(w)' = GsEnqueued(w) /\ GsDone(w)' = GsDone(w)
      /\ ApplyEnqueued' = ApplyEnqueued /\ ApplyDone' = ApplyDone
  BY <1>1 DEF GsEnqueued, GsDone, ApplyEnqueued, ApplyDone
<1>6. TypeOK'
  <2>1. TypeOK /\ superStep \in Steps
    BY DEF IInv, TypeOK, Steps
  <2>2. gsSeen' \in [Cus -> SUBSET (Steps \cup {Bad})]
    BY <1>2, <2>1 DEF TypeOK
  <2>3. tmpProp' \in [Part -> [Cus -> Steps \cup {Bad}]]
    BY <1>3, <1>4, <2>1 DEF TypeOK
  <2>. QED  BY <1>1, <2>1, <2>2, <2>3 DEF TypeOK
<1>7. HostInv'
  BY <1>1 DEF IInv, HostInv
<1>8. QueueInv'
  BY <1>1, <1>5 DEF IInv, QueueInv, LastTasks, Task
<1>9. EventInv' /\ SourceInv' /\ ApplyInv'
  BY <1>1, <1>5 DEF IInv, EventInv, SourceInv, ApplyInv
<1>10. GatherInv'
  <2>1. ASSUME NEW w \in Cus, NEW i \in Positions, i < GsDone(w)
        PROVE  tmpProp'[Order[i]][w] = superStep
    <3>1. tmpProp[Order[i]][w] = superStep
      BY <2>1 DEF IInv, GatherInv
    <3>2. CASE w = u
      <4>1. i # GsDone(u)
        BY <2>1, <3>2, <1>4 DEF Positions
      <4>2. Order[i] # Order[GsDone(u)] /\ Order[i] \in Part
        BY <1>4, <4>1
      <4>. QED  BY <1>3, <1>4, <3>1, <4>2 DEF IInv, TypeOK
    <3>3. CASE w # u
      <4>1. Order[i] \in Part
        OBVIOUS
      <4>. QED  BY <1>3, <1>4, <3>1, <3>3, <4>1 DEF IInv, TypeOK
    <3>. QED  BY <3>2, <3>3
  <2>2. ASSUME NEW w \in Cus, gsSeen'[w] # NotRunning
        PROVE  gsOps[w] # <<>> /\ gsSeen'[w] = {superStep}
    <3>1. CASE w = u
      BY <1>1, <1>2, <3>1 DEF IInv, TypeOK
    <3>2. CASE w # u
      BY <1>2, <2>2, <3>2 DEF IInv, TypeOK, GatherInv
    <3>. QED  BY <3>1, <3>2
  <2>. QED  BY <1>1, <1>5, <2>1, <2>2 DEF GatherInv
<1>. QED  BY <1>6, <1>7, <1>8, <1>9, <1>10 DEF IInv

LEMMA GsFinishInv ==
  ASSUME IInv, NEW u \in Cus, GsFinish(u)
  PROVE  IInv'
<1>. USE StepAssumption
<1>1. /\ gsOps[u] # <<>> /\ gsSeen[u] = {superStep}
      /\ UNCHANGED <<pc, superStep, position, cu, run, activeVertices, dirty,
                     applyOps, applySeen, prop, reg, activity>>
      /\ gsSeen' = [gsSeen EXCEPT ![u] = NotRunning]
      /\ gsOps' = [gsOps EXCEPT ![u] = Tail(@)]
  BY DEF GsFinish, hostVars, IInv, GatherInv
<1>2. tmpProp' = [tmpProp EXCEPT ![Order[GsDone(u)]][u] = superStep]
  <2>1. gsSeen[u] \cup GsReads(u) = {superStep}
    BY <1>1, GsHead
  <2>. QED  BY <1>1, <2>1, GsHead, CommonOfOne DEF GsFinish
<1>3. syncEvent' = [syncEvent EXCEPT ![GsDone(u)][u] = TRUE]
  BY <1>1, GsHead DEF GsFinish
<1>4. /\ GsDone(u) \in Positions /\ Order[GsDone(u)] \in Part
      /\ GsDone(u) < GsEnqueued(u)
  BY <1>1, GsHead
<1>5. /\ gsOps'[u] = Tail(gsOps[u])
      /\ \A w \in Cus \ {u} : gsOps'[w] = gsOps[w]
  BY <1>1 DEF IInv, TypeOK
<1>6. /\ \A w \in Cus : /\ GsEnqueued(w)' = GsEnqueued(w)
                        /\ GsDone(w)' = IF w = u THEN GsDone(w) + 1 ELSE GsDone(w)
      /\ ApplyEnqueued' = ApplyEnqueued /\ ApplyDone' = ApplyDone
  <2>1. \A w \in Cus : GsEnqueued(w)' = GsEnqueued(w)
    BY <1>1 DEF GsEnqueued
  <2>2. ASSUME NEW w \in Cus
        PROVE  GsDone(w)' = IF w = u THEN GsDone(w) + 1 ELSE GsDone(w)
    <3>1. CASE w = u
      <4>1. Len(gsOps'[u]) = Len(gsOps[u]) - 1
        BY <1>1, <1>5, GsHead
      <4>. QED  BY <2>1, <3>1, <4>1, Counts DEF GsDone
    <3>2. CASE w # u
      BY <1>5, <2>1, <3>2 DEF GsDone
    <3>. QED  BY <3>1, <3>2
  <2>3. ApplyEnqueued' = ApplyEnqueued /\ ApplyDone' = ApplyDone
    BY <1>1 DEF ApplyEnqueued, ApplyDone
  <2>. QED  BY <2>1, <2>2, <2>3
<1>7. TypeOK'
  <2>1. TypeOK /\ superStep \in Steps
    BY DEF IInv, TypeOK, Steps
  <2>2. gsSeen' \in [Cus -> SUBSET (Steps \cup {Bad})]
    BY <1>1, <2>1 DEF TypeOK, NotRunning
  <2>3. tmpProp' \in [Part -> [Cus -> Steps \cup {Bad}]]
    BY <1>2, <1>4, <2>1 DEF TypeOK
  <2>4. syncEvent' \in [Positions -> [Cus -> BOOLEAN]]
    BY <1>3, <1>4, <2>1 DEF TypeOK
  <2>5. Tail(gsOps[u]) \in Seq(TaskType) /\ Len(Tail(gsOps[u])) = Len(gsOps[u]) - 1
    BY <1>1, GsHead
  <2>6. gsOps' \in [Cus -> Seq(TaskType)]
    BY <1>1, <2>1, <2>5 DEF TypeOK
  <2>7. \A w \in Cus : Len(gsOps'[w]) <= BlkNum
    <3>1. \A w \in Cus : Len(gsOps[w]) \in Nat /\ Len(gsOps[w]) <= BlkNum
      BY <2>1 DEF TypeOK
    <3>2. Len(gsOps'[u]) <= BlkNum
      BY <1>5, <2>5, <3>1
    <3>. QED  BY <1>5, <3>1, <3>2
  <2>. QED  BY <1>1, <2>1, <2>2, <2>3, <2>4, <2>6, <2>7 DEF TypeOK
<1>8. HostInv'
  <2>1. pc \notin {"query", "end"}
    BY <1>1 DEF IInv, HostInv
  <2>. QED  BY <1>1, <2>1 DEF IInv, HostInv
<1>9. QueueInv'
  <2>1. ASSUME NEW w \in Cus  PROVE LastTasks(gsOps'[w], GsEnqueued(w))
    BY <1>1, <1>5, GsHead DEF IInv, QueueInv
  <2>. QED  BY <1>1, <1>6, <2>1 DEF IInv, QueueInv, LastTasks, Task
<1>10. EventInv'
  <2>1. ASSUME NEW w \in Cus, NEW i \in Positions, i < GsEnqueued(w)
        PROVE  syncEvent'[i][w] <=> i < GsDone(w)'
    <3>1. CASE w = u /\ i = GsDone(u)
      <4>1. syncEvent'[i][w]
        BY <1>3, <1>4, <3>1 DEF IInv, TypeOK
      <4>. QED  BY <1>4, <1>6, <3>1, <4>1 DEF Positions
    <3>2. CASE ~(w = u /\ i = GsDone(u))
      <4>1. syncEvent'[i][w] = syncEvent[i][w]
        BY <1>3, <1>4, <3>2 DEF IInv, TypeOK
      <4>2. i < GsDone(w)' <=> i < GsDone(w)
        BY <1>4, <1>6, <3>2 DEF Positions
      <4>. QED  BY <2>1, <4>1, <4>2 DEF IInv, EventInv
    <3>. QED  BY <3>1, <3>2
  <2>. QED  BY <1>6, <2>1 DEF EventInv
<1>11. GatherInv'
  <2>1. ASSUME NEW w \in Cus, NEW i \in Positions, i < GsDone(w)'
        PROVE  tmpProp'[Order[i]][w] = superStep
    <3>0. Order[i] \in Part
      OBVIOUS
    <3>1. CASE w = u /\ i = GsDone(u)
      BY <1>2, <1>4, <3>1 DEF IInv, TypeOK
    <3>2. CASE ~(w = u /\ i = GsDone(u))
      <4>1. i < GsDone(w)
        BY <1>4, <1>6, <2>1, <3>2 DEF Positions
      <4>2. tmpProp[Order[i]][w] = superStep
        BY <4>1 DEF IInv, GatherInv
      <4>3. ~(w = u /\ Order[i] = Order[GsDone(u)])
        BY <1>4, <3>2
      <4>. QED  BY <1>2, <1>4, <3>0, <4>2, <4>3 DEF IInv, TypeOK
    <3>. QED  BY <3>1, <3>2
  <2>2. ASSUME NEW w \in Cus, gsSeen'[w] # NotRunning
        PROVE  gsOps'[w] # <<>> /\ gsSeen'[w] = {superStep}
    <3>1. w # u /\ gsSeen'[w] = gsSeen[w]
      BY <1>1, <2>2 DEF IInv, TypeOK
    <3>. QED  BY <1>5, <2>2, <3>1 DEF IInv, GatherInv
  <2>. QED  BY <1>1, <2>1, <2>2 DEF GatherInv
<1>12. SourceInv'
  BY <1>1 DEF IInv, SourceInv
<1>13. ApplyInv'
  <2>1. \A w \in Cus : ApplyDone < GsDone(w) => ApplyDone' < GsDone(w)'
    BY <1>6, Counts
  <2>. QED  BY <1>1, <1>6, <2>1 DEF IInv, ApplyInv
<1>. QED
  BY <1>7, <1>8, <1>9, <1>10, <1>11, <1>12, <1>13 DEF IInv

\* The head of the apply queue is the task of the first position not applied.
LEMMA ApplyHead ==
  ASSUME IInv, applyOps # <<>>
  PROVE  /\ ApplyDone \in Positions /\ ApplyDone < ApplyEnqueued
         /\ Head(applyOps).part = Order[ApplyDone]
         /\ Head(applyOps).position = ApplyDone
         /\ Head(applyOps).step = superStep
         /\ Order[ApplyDone] \in Part
         /\ Tail(applyOps) \in Seq(TaskType)
         /\ Len(Tail(applyOps)) = Len(applyOps) - 1
         /\ LastTasks(Tail(applyOps), ApplyEnqueued)
<1>. USE StepAssumption
<1>1. /\ applyOps \in Seq(TaskType) /\ ApplyEnqueued \in Nat
      /\ LastTasks(applyOps, ApplyEnqueued)
  BY Counts DEF IInv, TypeOK, QueueInv
<1>2. /\ Len(Tail(applyOps)) = Len(applyOps) - 1
      /\ Len(applyOps) \in 1 .. ApplyEnqueued
      /\ Tail(applyOps) \in Seq(TaskType)
      /\ LastTasks(Tail(applyOps), ApplyEnqueued)
      /\ Head(applyOps) = Task(ApplyDone)
  BY <1>1, LastTasksTail DEF ApplyDone
<1>3. ApplyDone < ApplyEnqueued /\ ApplyDone \in Positions
  BY <1>2, Counts DEF ApplyDone, Positions
<1>4. /\ Head(applyOps).part = Order[ApplyDone]
      /\ Head(applyOps).position = ApplyDone
      /\ Head(applyOps).step = superStep
      /\ Order[ApplyDone] \in Part
  BY <1>2, <1>3 DEF Task
<1>. QED  BY <1>2, <1>3, <1>4

\* Once every unit has gathered for its partition, an apply task reads
\* properties of the current super-step only.
LEMMA ApplyReadsStep ==
  ASSUME IInv, applyOps # <<>>, \A u \in Cus : ApplyDone < GsDone(u)
  PROVE  ApplyReads = {superStep}
<1>. USE StepAssumption
<1>1. \A u \in Cus : tmpProp[Order[ApplyDone]][u] = superStep
  BY ApplyHead DEF IInv, GatherInv
<1>2. 0 \in Cus
  BY DEF Cus
<1>3. prop[0][Ping(superStep)][Order[ApplyDone]] = superStep
  BY <1>2, ApplyHead DEF IInv, SourceInv
<1>4. ApplyReads = {tmpProp[Order[ApplyDone]][u] : u \in Cus}
                     \cup {prop[0][Ping(superStep)][Order[ApplyDone]]}
  BY ApplyHead DEF ApplyReads
<1>. QED  BY <1>1, <1>2, <1>3, <1>4

\* An apply task writes the properties of its own partition and nothing else.
LEMMA WritePropFacts ==
  ASSUME IInv, applyOps # <<>>, NEW v \in Steps \cup {Bad}, WriteProp(v)
  PROVE  /\ prop' \in [Cus -> [{0, 1} -> [Part -> Steps \cup {Bad}]]]
         /\ \A u \in Cus : prop'[u][Ping(superStep)] = prop[u][Ping(superStep)]
         /\ \A u \in Cus : \A i \in Positions :
              prop'[u][Pong(superStep)][Order[i]] =
                IF i = ApplyDone THEN v ELSE prop[u][Pong(superStep)][Order[i]]
<1>. USE StepAssumption
<1>. DEFINE b == Pong(superStep)
            q == Order[ApplyDone]
<1>1. /\ b \in {0, 1} /\ Ping(superStep) \in {0, 1} /\ Ping(superStep) # b
      /\ q \in Part /\ ApplyDone \in Positions
  BY Counts, PingPong, ApplyHead
<1>2. prop' = [u \in Cus |-> [prop[u] EXCEPT ![b][q] = v]]
  BY ApplyHead DEF WriteProp
<1>3. prop \in [Cus -> [{0, 1} -> [Part -> Steps \cup {Bad}]]]
  BY DEF IInv, TypeOK
<1>4. \A i \in Positions : Order[i] \in Part /\ (Order[i] = q <=> i = ApplyDone)
  BY <1>1
<1>. HIDE DEF b, q
<1>5. prop' \in [Cus -> [{0, 1} -> [Part -> Steps \cup {Bad}]]]
  BY <1>1, <1>2, <1>3
<1>6. \A u \in Cus : /\ prop'[u][Ping(superStep)] = prop[u][Ping(superStep)]
                     /\ \A p \in Part :
                          prop'[u][b][p] = IF p = q THEN v ELSE prop[u][b][p]
  BY <1>1, <1>2, <1>3
<1>7. \A u \in Cus : \A i \in Positions :
        prop'[u][b][Order[i]] = IF i = ApplyDone THEN v ELSE prop[u][b][Order[i]]
  BY <1>4, <1>6
<1>. QED  BY <1>5, <1>6, <1>7 DEF b

LEMMA ApplyStartInv ==
  ASSUME IInv, ApplyStart
  PROVE  IInv'
<1>. USE StepAssumption
<1>1. /\ applyOps # <<>> /\ applySeen = NotRunning
      /\ UNCHANGED <<pc, superStep, position, cu, run, activeVertices, dirty,
                     gsOps, applyOps, syncEvent, gsSeen, tmpProp, reg, activity>>
      /\ WriteProp(Bad)
  BY DEF ApplyStart, hostVars
<1>2. \A u \in Cus : ApplyDone < GsDone(u)
  <2>1. \A u \in Cus : syncEvent[ApplyDone][u]
    BY <1>1, ApplyHead DEF ApplyStart, ApplyMayStart
  <2>2. \A u \in Cus : ApplyDone \in Positions /\ ApplyDone < GsEnqueued(u)
    BY <1>1, ApplyHead, Counts DEF Positions
  <2>. QED  BY <2>1, <2>2 DEF IInv, EventInv
<1>3. applySeen' = {superStep}
  BY <1>1, <1>2, ApplyReadsStep DEF ApplyStart
<1>4. /\ \A w \in Cus : GsEnqueued(w)' = GsEnqueued(w) /\ GsDone(w)' = GsDone(w)
      /\ ApplyEnqueued' = ApplyEnqueued /\ ApplyDone' = ApplyDone
  BY <1>1 DEF GsEnqueued, GsDone, ApplyEnqueued, ApplyDone
<1>5. /\ prop' \in [Cus -> [{0, 1} -> [Part -> Steps \cup {Bad}]]]
      /\ \A u \in Cus : prop'[u][Ping(superStep)] = prop[u][Ping(superStep)]
      /\ \A u \in Cus : \A i \in Positions :
           prop'[u][Pong(superStep)][Order[i]] =
             IF i = ApplyDone THEN Bad ELSE prop[u][Pong(superStep)][Order[i]]
  BY <1>1, WritePropFacts
<1>6. TypeOK'
  <2>1. TypeOK /\ superStep \in Steps
    BY DEF IInv, TypeOK, Steps
  <2>. QED  BY <1>1, <1>3, <1>5, <2>1 DEF TypeOK
<1>7. HostInv'
  BY <1>1 DEF IInv, HostInv
<1>8. QueueInv'
  BY <1>1, <1>4 DEF IInv, QueueInv, LastTasks, Task
<1>9. EventInv' /\ GatherInv'
  BY <1>1, <1>4 DEF IInv, EventInv, GatherInv
<1>10. SourceInv'
  <2>1. \A u \in Cus : \A p \in Part : prop[u][Ping(superStep)][p] = superStep
    BY DEF IInv, SourceInv
  <2>2. superStep' = superStep
    BY <1>1
  <2>. QED  BY <1>5, <2>1, <2>2 DEF SourceInv
<1>11. ApplyInv'
  <2>1. \A i \in Positions : i < ApplyDone => i # ApplyDone
    BY <1>1, ApplyHead DEF Positions
  <2>. QED  BY <1>1, <1>2, <1>3, <1>4, <1>5, <2>1 DEF IInv, ApplyInv
<1>. QED  BY <1>6, <1>7, <1>8, <1>9, <1>10, <1>11 DEF IInv

\* What the end of an apply task does, also to the properties.
LEMMA ApplyFinishFacts ==
  ASSUME IInv, ApplyFinish
  PROVE  /\ applyOps # <<>> /\ ApplyDone \in Positions
         /\ \A u \in Cus : ApplyDone < GsDone(u)
         /\ prop' \in [Cus -> [{0, 1} -> [Part -> Steps \cup {Bad}]]]
         /\ \A u \in Cus : prop'[u][Ping(superStep)] = prop[u][Ping(superStep)]
         /\ \A u \in Cus : \A i \in Positions :
              prop'[u][Pong(superStep)][Order[i]] =
                IF i = ApplyDone THEN superStep + 1
                ELSE prop[u][Pong(superStep)][Order[i]]
<1>1. /\ applyOps # <<>> /\ applySeen = {superStep}
      /\ \A u \in Cus : ApplyDone < GsDone(u)
  BY DEF ApplyFinish, IInv, ApplyInv
<1>2. applySeen \cup ApplyReads = {superStep}
  BY <1>1, ApplyReadsStep
<1>3. superStep # Bad /\ superStep + 1 \in Steps
  BY StepAssumption DEF IInv, TypeOK, Steps, Bad
<1>4. WriteProp(superStep + 1)
  BY <1>2, <1>3, CommonOfOne DEF ApplyFinish
<1>. QED  BY <1>1, <1>3, <1>4, ApplyHead, WritePropFacts

LEMMA ApplyFinishInv ==
  ASSUME IInv, ApplyFinish
  PROVE  IInv'
<1>. USE StepAssumption
<1>1. /\ UNCHANGED <<pc, superStep, position, cu, run, activeVertices, dirty,
                     gsOps, syncEvent, gsSeen, tmpProp>>
      /\ applySeen' = NotRunning /\ applyOps' = Tail(applyOps)
  BY DEF ApplyFinish, hostVars
<1>2. /\ applyOps # <<>> /\ ApplyDone \in Positions
      /\ prop' \in [Cus -> [{0, 1} -> [Part -> Steps \cup {Bad}]]]
      /\ \A u \in Cus : prop'[u][Ping(superStep)] = prop[u][Ping(superStep)]
      /\ \A u \in Cus : \A i \in Positions :
           prop'[u][Pong(superStep)][Order[i]] =
             IF i = ApplyDone THEN superStep + 1
             ELSE prop[u][Pong(superStep)][Order[i]]
  BY ApplyFinishFacts
<1>3. /\ \A w \in Cus : GsEnqueued(w)' = GsEnqueued(w) /\ GsDone(w)' = GsDone(w)
      /\ ApplyEnqueued' = ApplyEnqueued /\ ApplyDone' = ApplyDone + 1
  <2>1. /\ \A w \in Cus : GsEnqueued(w)' = GsEnqueued(w) /\ GsDone(w)' = GsDone(w)
        /\ ApplyEnqueued' = ApplyEnqueued
    BY <1>1 DEF GsEnqueued, GsDone, ApplyEnqueued
  <2>2. Len(applyOps') = Len(applyOps) - 1
    BY <1>1, <1>2, ApplyHead
  <2>. QED  BY <2>1, <2>2, Counts DEF ApplyDone
<1>4. TypeOK'
  <2>1. TypeOK
    BY DEF IInv
  <2>2. applyOps' \in Seq(TaskType) /\ Len(applyOps') <= BlkNum
    <3>1. /\ Len(applyOps') = Len(applyOps) - 1 /\ Len(applyOps) \in Nat
          /\ Len(applyOps) <= BlkNum
      BY <1>1, <1>2, <2>1, ApplyHead DEF TypeOK
    <3>. QED  BY <1>1, <1>2, <3>1, ApplyHead
  <2>3. reg' \in {0, 1}
    BY DEF ApplyFinish
  <2>4. activity' \in BOOLEAN
    BY <2>1 DEF ApplyFinish, TypeOK
  <2>. QED  BY <1>1, <1>2, <2>1, <2>2, <2>3, <2>4 DEF TypeOK, NotRunning
<1>5. HostInv'
  <2>1. pc \notin {"query", "end"}
    BY <1>2 DEF IInv, HostInv
  <2>. QED  BY <1>1, <2>1 DEF IInv, HostInv
<1>6. QueueInv'
  <2>1. LastTasks(applyOps', ApplyEnqueued)
    BY <1>1, <1>2, ApplyHead
  <2>. QED  BY <1>1, <1>3, <2>1 DEF IInv, QueueInv, LastTasks, Task
<1>7. EventInv' /\ GatherInv'
  BY <1>1, <1>3 DEF IInv, EventInv, GatherInv
<1>8. SourceInv'
  <2>1. \A u \in Cus : \A p \in Part : prop[u][Ping(superStep)][p] = superStep
    BY DEF IInv, SourceInv
  <2>2. superStep' = superStep
    BY <1>1
  <2>. QED  BY <1>2, <2>1, <2>2 DEF SourceInv
<1>9. ApplyInv'
  <2>1. ASSUME NEW u \in Cus, NEW i \in Positions
        PROVE  IF i < ApplyDone'
               THEN prop'[u][Pong(superStep)][Order[i]] = superStep + 1
               ELSE prop'[u][Pong(superStep)][Order[i]] \in {Bad, superStep - 1}
    <3>1. CASE i = ApplyDone
      BY <1>2, <1>3, <3>1 DEF Positions
    <3>2. CASE i # ApplyDone
      <4>1. i < ApplyDone' <=> i < ApplyDone
        BY <1>2, <1>3, <3>2 DEF Positions
      <4>2. prop'[u][Pong(superStep)][Order[i]] = prop[u][Pong(superStep)][Order[i]]
        BY <1>2, <3>2
      <4>. QED  BY <4>1, <4>2 DEF IInv, ApplyInv
    <3>. QED  BY <3>1, <3>2
  <2>. QED  BY <1>1, <2>1 DEF ApplyInv
<1>. QED  BY <1>4, <1>5, <1>6, <1>7, <1>8, <1>9 DEF IInv

LEMMA NextInv == IInv /\ [Next]_vars => IInv'
<1>. SUFFICES ASSUME IInv, [Next]_vars  PROVE IInv'
  OBVIOUS
<1>1. CASE Host
  BY <1>1, EnqueueGsInv, EnqueueApplyInv, FinishInv, QueryInv, ReloadInv
  DEF Host
<1>2. CASE \E u \in Cus : GsStart(u) \/ GsFinish(u)
  BY <1>2, GsStartInv, GsFinishInv
<1>3. CASE Apply
  BY <1>3, ApplyStartInv, ApplyFinishInv DEF Apply
<1>4. CASE UNCHANGED vars
  <2>1. UNCHANGED <<pc, superStep, position, cu, run, activeVertices, dirty,
                    gsOps, applyOps, syncEvent, gsSeen, applySeen, prop,
                    tmpProp, reg, activity>>
    BY <1>4 DEF vars, hostVars, deviceVars
  <2>. QED
    BY <2>1
    DEF IInv, TypeOK, HostInv, QueueInv, EventInv, GatherInv, SourceInv,
        ApplyInv, LastTasks, Task, GsDone, GsEnqueued, ApplyDone, ApplyEnqueued
<1>. QED  BY <1>1, <1>2, <1>3, <1>4 DEF Next, Finished

LEMMA Invariance == Spec => []IInv
  BY InitInv, NextInv, PTL DEF Spec
-----------------------------------------------------------------------------
(***************************************************************************)
(* What the invariant shows.                                               *)
(***************************************************************************)

\* Every variable of the super-step control keeps its type: in particular no
\* queue grows beyond the tasks of one super-step, however far the host runs
\* ahead of the kernels.
THEOREM TypeCorrect == Spec => []TypeOK
<1>1. IInv => TypeOK
  BY DEF IInv
<1>. QED  BY <1>1, Invariance, PTL

\* A complete event of a task of the running super-step tells that the unit's
\* updates for the partition stem from this very super-step, although the
\* events of the step before stay complete until they are replaced.
THEOREM EventsSound == Spec => []EventMeansGathered
<1>1. IInv => EventMeansGathered
  <2>. SUFFICES ASSUME IInv, NEW i \in Positions, NEW u \in Cus,
                       i < Enqueued, syncEvent[i][u]
                PROVE  tmpProp[Order[i]][u] = superStep
    BY DEF EventMeansGathered
  <2>1. /\ position \in 0 .. BlkNum /\ BlkNum \in Nat
        /\ pc = "gs" => position < BlkNum
    BY StepAssumption DEF IInv, TypeOK, HostInv
  <2>2. i < GsEnqueued(u)
    BY <2>1 DEF Enqueued, GsEnqueued, Positions
  <2>3. i < GsDone(u)
    BY <2>2 DEF IInv, EventInv
  <2>. QED  BY <2>3 DEF IInv, GatherInv
<1>. QED  BY <1>1, Invariance, PTL

\* The buffer a super-step reads from is not touched while it runs, also by
\* the apply tasks that overlap with gather-scatter tasks of other partitions.
THEOREM SourcesUntouched == Spec => []SourcesStable
<1>1. IInv => SourcesStable
  BY DEF IInv, SourceInv, SourcesStable
<1>. QED  BY <1>1, Invariance, PTL

\* When clFinish has returned, the buffer read next holds the new properties
\* of every partition on every unit.
THEOREM StepsComplete == Spec => []ResultsComplete
<1>1. IInv => ResultsComplete
  BY AllDone DEF ResultsComplete
<1>. QED  BY <1>1, Invariance, PTL

\* The count of active vertices the application reads is the one the last
\* apply task has written: the flag that makes the host fetch it is always set.
THEOREM RegisterNeverStale == Spec => RegisterFresh
<1>1. IInv /\ [Next]_vars
        => [pc = "query" /\ UntilQuiet => activeVertices' = reg]_vars
  <2>. SUFFICES ASSUME IInv, Next, pc = "query", UntilQuiet
                PROVE  activeVertices' = reg
    OBVIOUS
  <2>1. /\ applyOps = <<>> /\ applySeen = NotRunning
        /\ \A u \in Cus : gsOps[u] = <<>> /\ gsSeen[u] = NotRunning
    BY AllDone
  <2>2. Query
    BY <2>1
    DEF Next, Host, EnqueueGs, EnqueueApply, Finish, Reload, GsStart, GsFinish,
        Apply, ApplyStart, ApplyFinish, Finished
  <2>3. dirty
    BY DEF IInv, HostInv
  <2>. QED  BY <2>2, <2>3 DEF Query
<1>. QED  BY <1>1, Invariance, PTL DEF Spec, RegisterFresh
-----------------------------------------------------------------------------
(***************************************************************************)
(* The overlapped super-steps implement those of BulkSync.                 *)
(***************************************************************************)

\* The step each partition's properties belong to, as the host will see them.
StepOf == [p \in Part |-> IF Written(p) THEN superStep + 1
                          ELSE prop[0][Ping(superStep)][p]]

\* The partitions applied have gone on, and no other.
AppliedAhead ==
  \A i \in Positions :
    StepOf[Order[i]] = IF i < ApplyDone THEN superStep + 1 ELSE superStep

LEMMA StepOfPositions == IInv => AppliedAhead
<1>. USE StepAssumption
<1>. SUFFICES ASSUME IInv, NEW i \in Positions
              PROVE  StepOf[Order[i]] =
                       IF i < ApplyDone THEN superStep + 1 ELSE superStep
  BY DEF AppliedAhead
<1>1. superStep \in Nat /\ 0 \in Cus
  BY Counts DEF Cus
<1>2. CASE i < ApplyDone
  <2>1. Written(Order[i])
    BY <1>2 DEF IInv, ApplyInv, Written
  <2>. QED  BY <1>2, <2>1 DEF StepOf
<1>3. CASE ~(i < ApplyDone)
  <2>1. prop[0][Pong(superStep)][Order[i]] \in {Bad, superStep - 1}
    BY <1>1, <1>3 DEF IInv, ApplyInv
  <2>2. ~Written(Order[i])
    BY <1>1, <2>1 DEF Written, Bad
  <2>3. prop[0][Ping(superStep)][Order[i]] = superStep
    BY <1>1 DEF IInv, SourceInv
  <2>. QED  BY <1>3, <2>2, <2>3 DEF StepOf
<1>. QED  BY <1>2, <1>3

LEMMA StepOfPositionsNext == IInv' => AppliedAhead'
  BY StepOfPositions, PTL

\* Two functions on the partitions that agree at every position are equal.
LEMMA ByPosition ==
  ASSUME NEW f, NEW g, f = [p \in Part |-> f[p]], g = [p \in Part |-> g[p]],
         \A i \in Positions : f[Order[i]] = g[Order[i]]
  PROVE  f = g
<1>1. \A p \in Part : f[p] = g[p]
  BY StepAssumption
<1>. QED  BY <1>1

\* Steps that write no property are invisible.
LEMMA StepOfUnchanged ==
  ASSUME UNCHANGED <<superStep, prop>>
  PROVE  UNCHANGED <<superStep, StepOf>>
  BY DEF StepOf, Written

LEMMA StepOfFunction ==
  /\ StepOf = [p \in Part |-> StepOf[p]]
  /\ StepOf' = [p \in Part |-> StepOf'[p]]
  BY DEF StepOf

\* The start of an apply task spoils only properties of no use.
LEMMA ApplyStartHidden ==
  ASSUME IInv, ApplyStart
  PROVE  UNCHANGED <<superStep, StepOf>>
<1>1. AppliedAhead /\ AppliedAhead'
  BY ApplyStartInv, StepOfPositions, StepOfPositionsNext
<1>2. superStep' = superStep /\ ApplyDone' = ApplyDone
  BY DEF ApplyStart, hostVars, ApplyDone, ApplyEnqueued
<1>3. \A i \in Positions : StepOf'[Order[i]] = StepOf[Order[i]]
  BY <1>1, <1>2 DEF AppliedAhead
<1>. QED  BY <1>2, <1>3, ByPosition, StepOfFunction

\* Its end brings its own partition to the next step.
LEMMA ApplyFinishUpdates ==
  ASSUME IInv, ApplyFinish
  PROVE  /\ ApplyDone \in Positions
         /\ StepOf[Order[ApplyDone]] = superStep
         /\ \A q \in Part : StepOf[q] \in {superStep, superStep + 1}
         /\ StepOf' = [StepOf EXCEPT ![Order[ApplyDone]] = superStep + 1]
         /\ superStep' = superStep
<1>. USE StepAssumption
<1>1. AppliedAhead /\ AppliedAhead' /\ ApplyDone \in Positions
  BY ApplyFinishInv, ApplyFinishFacts, StepOfPositions, StepOfPositionsNext
<1>2. superStep' = superStep /\ ApplyDone' = ApplyDone + 1
  <2>1. applyOps # <<>> /\ applyOps' = Tail(applyOps) /\ ApplyEnqueued' = ApplyEnqueued
        /\ superStep' = superStep
    BY ApplyFinishFacts DEF ApplyFinish, hostVars, ApplyEnqueued
  <2>. QED  BY <2>1, ApplyHead, Counts DEF ApplyDone
<1>3. StepOf[Order[ApplyDone]] = superStep
  BY <1>1 DEF AppliedAhead, Positions
<1>4. \A q \in Part : StepOf[q] \in {superStep, superStep + 1}
  BY <1>1 DEF AppliedAhead
<1>5. StepOf' = [StepOf EXCEPT ![Order[ApplyDone]] = superStep + 1]
  <2>. DEFINE g == [StepOf EXCEPT ![Order[ApplyDone]] = superStep + 1]
  <2>1. Order[ApplyDone] \in Part /\ g = [p \in Part |-> g[p]]
    BY <1>1, StepOfFunction
  <2>2. ASSUME NEW i \in Positions  PROVE StepOf'[Order[i]] = g[Order[i]]
    <3>1. CASE i = ApplyDone
      <4>1. i < ApplyDone + 1
        BY <3>1 DEF Positions
      <4>2. StepOf'[Order[i]] = superStep + 1
        BY <1>1, <1>2, <4>1 DEF AppliedAhead
      <4>. QED  BY <2>1, <3>1, <4>2, StepOfFunction
    <3>2. CASE i # ApplyDone
      <4>1. i < ApplyDone + 1 <=> i < ApplyDone
        BY <1>1, <3>2 DEF Positions
      <4>2. StepOf'[Order[i]] = StepOf[Order[i]]
        BY <1>1, <1>2, <4>1 DEF AppliedAhead
      <4>3. Order[i] # Order[ApplyDone] /\ Order[i] \in Part
        BY <1>1, <3>2
      <4>. QED  BY <4>2, <4>3, StepOfFunction
    <3>. QED  BY <3>1, <3>2
  <2>. HIDE DEF g
  <2>3. StepOf' = g
    BY <2>1, <2>2, ByPosition, StepOfFunction
  <2>. QED  BY <2>3 DEF g
<1>. QED  BY <1>1, <1>2, <1>3, <1>4, <1>5

\* After clFinish every partition is complete.
LEMMA CompleteAtEnd ==
  ASSUME IInv, pc \in {"query", "end"}
  PROVE  StepOf = [p \in Part |-> superStep + 1]
  BY AllDone DEF StepOf, Written

\* The initial properties are those of step 0.
AtLoad   == superStep = 0 /\ prop = Loaded
StepZero == superStep = 0 /\ StepOf = [p \in Part |-> 0]

LEMMA LoadedIsStepZero == AtLoad => StepZero
<1>. SUFFICES ASSUME AtLoad  PROVE StepZero
  OBVIOUS
<1>1. 0 \in Cus /\ Ping(0) = 0 /\ Pong(0) = 1
  BY StepAssumption DEF Cus, Ping, Pong
<1>2. \A p \in Part : prop[0][0][p] = 0 /\ prop[0][1][p] = Bad
  BY <1>1 DEF AtLoad, Loaded
<1>3. \A p \in Part : ~Written(p) /\ StepOf[p] = 0
  BY <1>1, <1>2 DEF AtLoad, Written, StepOf, Bad
<1>. QED  BY <1>3, StepOfFunction DEF AtLoad, StepZero

LEMMA LoadedIsStepZeroNext == AtLoad' => StepZero'
  BY LoadedIsStepZero, PTL

LEMMA InitMaps == Init => BSP!Init
  BY LoadedIsStepZero DEF Init, AtLoad, StepZero, BSP!Init, StepOf

\* The decision on another super-step is the barrier.
LEMMA QueryMaps ==
  ASSUME IInv, Query
  PROVE  BSP!Barrier \/ UNCHANGED <<superStep, StepOf>>
<1>1. pc = "query" /\ prop' = prop
  BY DEF Query
<1>2. CASE superStep' = superStep
  BY <1>1, <1>2, StepOfUnchanged
<1>3. CASE superStep' = superStep + 1
  <2>1. StepOf = [p \in Part |-> superStep + 1]
    BY <1>1, CompleteAtEnd
  <2>2. BSP!Complete
    BY <2>1 DEF BSP!Complete, StepOf
  <2>3. pc' = "gs"
    BY <1>3, Counts DEF Query
  <2>4. AppliedAhead'
    BY QueryInv, StepOfPositionsNext
  <2>5. ApplyDone' = 0
    BY <1>1, <2>3, AllDone, StepBegins DEF Query
  <2>6. \A i \in Positions : ~(i < 0) /\ Order[i] \in Part
    BY StepAssumption DEF Positions
  <2>7. \A i \in Positions : StepOf'[Order[i]] = superStep + 1
    BY <1>3, <2>4, <2>5, <2>6 DEF AppliedAhead
  <2>8. StepOf' = StepOf
    BY <2>1, <2>6, <2>7, ByPosition, StepOfFunction
  <2>. QED  BY <1>3, <2>2, <2>8 DEF BSP!Barrier, StepOf
<1>. QED  BY <1>2, <1>3 DEF Query

\* Starting over with new properties is the restart.
LEMMA ReloadMaps ==
  ASSUME IInv, Reload
  PROVE  BSP!Restart
<1>1. StepOf = [p \in Part |-> superStep + 1]
  BY CompleteAtEnd DEF Reload
<1>2. BSP!Complete
  BY <1>1 DEF BSP!Complete, StepOf
<1>3. superStep' = 0 /\ StepOf' = [p \in Part |-> 0]
  BY LoadedIsStepZeroNext DEF Reload, AtLoad, StepZero
<1>. QED  BY <1>2, <1>3 DEF BSP!Restart, StepOf

LEMMA NextMaps == IInv /\ [Next]_vars => [BSP!Next]_(BSP!vars)
<1>. SUFFICES ASSUME IInv, [Next]_vars
              PROVE  BSP!Next \/ UNCHANGED <<superStep, StepOf>>
  BY DEF BSP!vars, StepOf
<1>1. CASE EnqueueGs \/ EnqueueApply \/ Finish \/ Finished \/ UNCHANGED vars
  <2>1. UNCHANGED <<superStep, prop>>
    BY <1>1
    DEF EnqueueGs, EnqueueApply, Finish, Finished, vars, hostVars, deviceVars
  <2>. QED  BY <2>1, StepOfUnchanged
<1>2. CASE \E u \in Cus : GsStart(u) \/ GsFinish(u)
  <2>1. UNCHANGED <<superStep, prop>>
    BY <1>2 DEF GsStart, GsFinish, hostVars
  <2>. QED  BY <2>1, StepOfUnchanged
<1>3. CASE Query
  BY <1>3, QueryMaps DEF BSP!Next
<1>4. CASE Reload
  BY <1>4, ReloadMaps DEF BSP!Next
<1>5. CASE ApplyStart
  BY <1>5, ApplyStartHidden
<1>6. CASE ApplyFinish
  <2>1. PICK p \in Part : p = Order[ApplyDone]
    BY <1>6, ApplyFinishUpdates, StepAssumption
  <2>2. BSP!Update(p)
    BY <1>6, <2>1, ApplyFinishUpdates DEF BSP!Update, StepOf
  <2>. QED  BY <2>2 DEF BSP!Next
<1>. QED
  BY <1>1, <1>2, <1>3, <1>4, <1>5, <1>6 DEF Next, Host, Apply

\* Overlapping the gather-scatter and apply tasks of different partitions does
\* not show: every behaviour of the queues, events and kernels is, seen from
\* the host, one of the bulk-synchronous machine.
THEOREM ImplementsBulkSync == Spec => BulkSynchronous
  BY InitMaps, NextMaps, Invariance, PTL DEF Spec, BulkSynchronous, BSP!Spec
=============================================================================
