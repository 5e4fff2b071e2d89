----------------------------- MODULE RawSolver -----------------------------
(***************************************************************************)
(* One destination lane of the gather stage: rawSolver (fpga_raw_solver.h) *)
(* feeding dstPropertyProcess (fpga_process_edge.h) through the two-entry  *)
(* stream buildArrayRes.                                                   *)
(*                                                                         *)
(* dstPropertyProcess accumulates update tuples into a URAM whose word     *)
(* holds two destinations.  Its loop starts an iteration every two cycles  *)
(* and is told (dependence inter false) that no iteration reads the word   *)
(* the one before it writes, so a write can still be in flight when the    *)
(* next read happens.  rawSolver keeps tuples for nearby destinations      *)
(* apart in four slots and merges those for the same destination, so that  *)
(* the assumption holds.                                                   *)
(*                                                                         *)
(* A property value is the set of tuples folded into it, numbered in the   *)
(* order the lane receives them: updateMergeInRAWSolver and gatherFunc     *)
(* (PROP_COMPUTE_STAGE2 and 3) are then union, the property 0 is {}, and a *)
(* lost update is a missing number.                                        *)
(***************************************************************************)
EXTENDS Integers, Sequences, FiniteSets

CONSTANTS
  Pe,         \* this lane: the destinations it serves are Pe modulo PE_NUM
  Dst,        \* destination vertices the lane's tuples may carry
  Rows,       \* MAX_VERTICES_IN_ONE_PARTITION >> LOG2_PE_NUM
  BaseRow,    \* first row of the destination partition (a multiple of Rows)
  Depth,      \* depth of the stream buildArrayRes
  MaxTuples,  \* bound: tuples the lane receives in one invocation
  MaxRuns     \* bound: invocations of the kernel

PE_NUM       == 16
DST_INTERVEL == 32
Slots        == 0 .. 3

ASSUME LaneAssumption ==
  /\ Pe \in 0 .. (PE_NUM - 1)
  /\ Rows \in Nat /\ Rows >= 4 /\ Rows % 2 = 0
  /\ BaseRow \in Nat /\ BaseRow % Rows = 0
  /\ Dst \subseteq Nat
  /\ \A x \in Dst : /\ x % PE_NUM = Pe
                    /\ (x \div PE_NUM) \in BaseRow .. (BaseRow + Rows - 1)
  /\ Depth \in Nat \ {0}
  /\ MaxTuples \in Nat
  /\ MaxRuns \in Nat \ {0}

VARIABLES
  local_buffer, \* the four slots: destination and merged property
  vaild_flag,   \* which slots hold a tuple
  lastSend,     \* lastSendBuffered (its four copies always agree)
  phase,        \* rawSolver: "loop", "flush" or "done"
  flushAt,      \* position in the flush loop: slot * 3 + step
  out,          \* the stream buildArrayRes
  mem,          \* tmpVPropBuffer: word -> half -> property
  inflight,     \* writes of the accumulation loop not yet in the URAM
  gather,       \* dstPropertyProcess: "loop" or "done"
  result,       \* what dstPropertyProcess wrote to writeArray in this run
  routed,       \* history: destination -> tuples received in this invocation
  received,     \* history: number of tuples received in this invocation
  run           \* history: invocation number

solverVars == <<local_buffer, vaild_flag, lastSend, phase, flushAt>>
gatherVars == <<mem, inflight, gather, result>>
vars == <<solverVars, out, gatherVars, routed, received, run>>
-----------------------------------------------------------------------------
Tuples == 1 .. MaxTuples
Words  == 0 .. (Rows \div 2 - 1)
Halves == {0, 1}

\* The row of the lane's buffer and the word and half of that row's property.
Row(x)  == x \div PE_NUM
Idx(x)  == Row(x) % Rows
Word(x) == Idx(x) \div 2
Half(x) == Idx(x) % 2

Distance(x, y) == IF x > y THEN x - y ELSE y - x

\* May the tuple for x leave after a tuple for last has left?
FarNarrow(last, x) == Distance(last, x) >= PE_NUM
Far(last, x) == Distance(last, x) >= DST_INTERVEL

Token(x, y)  == [x |-> x, y |-> y, end |-> FALSE]
EndToken     == [x |-> 0, y |-> {}, end |-> TRUE]
EmptySlot    == [x |-> 0, y |-> {}]
ZeroMem      == [w \in Words |-> [h \in Halves |-> {}]]

\* The URAM once the writes in flight have landed.
Landed == [w \in Words |->
             IF inflight # <<>> /\ inflight[1].word = w
             THEN inflight[1].val ELSE mem[w]]
-----------------------------------------------------------------------------
Init ==
  /\ local_buffer = [i \in Slots |-> EmptySlot]
  /\ vaild_flag = [i \in Slots |-> FALSE]
  /\ lastSend = 0
  /\ phase = "loop"
  /\ flushAt = 0
  /\ out = <<>>
  /\ mem = ZeroMem
  /\ inflight = <<>>
  /\ gather = "loop"
  /\ result = ZeroMem
  /\ routed = [x \in Dst |-> {}]
  /\ received = 0
  /\ run = 1

Receive(x) ==
  /\ phase = "loop"
  /\ received < MaxTuples
  /\ received' = received + 1
  /\ routed' = [routed EXCEPT ![x] = @ \cup {received + 1}]

Matching(x) == {i \in Slots : vaild_flag[i] /\ local_buffer[i].x = x}

\* A tuple whose destination is buffered is folded into the slot.
MergeForgetting(x) ==
  /\ Matching(x) # {}
  /\ Receive(x)
  /\ local_buffer' =
       [i \in Slots |->
          IF i \in Matching(x)
          THEN [local_buffer[i] EXCEPT !.y = {received + 1}]
          ELSE local_buffer[i]]
  /\ UNCHANGED <<vaild_flag, lastSend, phase, flushAt, out, gatherVars, run>>

Merge(x) ==
  /\ Matching(x) # {}
  /\ Receive(x)
  /\ local_buffer' =
       [i \in Slots |->
          IF i \in Matching(x)
          THEN [local_buffer[i] EXCEPT !.y = @ \cup {received + 1}]
          ELSE local_buffer[i]]
  /\ UNCHANGED <<vaild_flag, lastSend, phase, flushAt, out, gatherVars, run>>

Free == {i \in Slots : ~vaild_flag[i]}

Least(i, S) == i \in S /\ \A j \in S : i <= j

Sendable == {i \in Slots : vaild_flag[i] /\ Far(lastSend, local_buffer[i].x)}

\* Any other tuple takes the first free slot; with no free slot it is dropped.
Insert(x) ==
  /\ Matching(x) = {}
  /\ Receive(x)
  /\ \/ /\ Free = {}
        /\ UNCHANGED <<local_buffer, vaild_flag>>
     \/ \E i \in Slots :
          /\ Least(i, Free)
          /\ local_buffer' = [local_buffer EXCEPT
                                ![i] = [x |-> x, y |-> {received + 1}]]
          /\ vaild_flag' = [vaild_flag EXCEPT ![i] = TRUE]
  /\ phase' = "select"
  /\ UNCHANGED <<lastSend, flushAt, out, gatherVars, run>>

\* The same iteration goes on to send the first slot whose destination is far
\* enough from the last one sent, if there is one.
SelectKeepingSlot ==
  /\ phase = "select"
  /\ phase' = "loop"
  /\ \/ /\ Sendable = {}
        /\ UNCHANGED <<vaild_flag, lastSend, out>>
     \/ \E i \in Slots :
          /\ Least(i, Sendable)
          /\ Len(out) < Depth
          /\ lastSend' = local_buffer[i].x
          /\ out' = Append(out, Token(local_buffer[i].x, local_buffer[i].y))
          /\ UNCHANGED vaild_flag
  /\ UNCHANGED <<local_buffer, flushAt, gatherVars, routed, received, run>>

Select ==
  /\ phase = "select"
  /\ phase' = "loop"
  /\ \/ /\ Sendable = {}
        /\ UNCHANGED <<vaild_flag, lastSend, out>>
     \/ \E i \in Slots :
          /\ Least(i, Sendable)
          /\ Len(out) < Depth
          /\ vaild_flag' = [vaild_flag EXCEPT ![i] = FALSE]
          /\ lastSend' = local_buffer[i].x
          /\ out' = Append(out, Token(local_buffer[i].x, local_buffer[i].y))
  /\ UNCHANGED <<local_buffer, flushAt, gatherVars, routed, received, run>>

\* The end token, or a padding tuple, ends the loop.
EndOfStream ==
  /\ phase = "loop"
  /\ phase' = "flush"
  /\ UNCHANGED <<local_buffer, vaild_flag, lastSend, flushAt, out, gatherVars,
                 routed, received, run>>
-----------------------------------------------------------------------------
\* The flush loop writes two dummies and then the tuple for every full slot.
FlushSlot == flushAt \div 3
FlushStep == flushAt % 3

FlushOverfull ==
  /\ phase = "flush"
  /\ flushAt < 12
  /\ flushAt' = flushAt + 1
  /\ out' = IF vaild_flag[FlushSlot]
            THEN Append(out, Token(local_buffer[FlushSlot].x, local_buffer[FlushSlot].y))
            ELSE out
  /\ UNCHANGED <<local_buffer, vaild_flag, lastSend, phase, gatherVars,
                 routed, received, run>>

Flush ==
  /\ phase = "flush"
  /\ flushAt < 12
  /\ IF vaild_flag[FlushSlot]
     THEN /\ Len(out) < Depth
          /\ out' = Append(out,
                IF FlushStep < 2
                THEN Token(local_buffer[FlushSlot].x + DST_INTERVEL, {})
                ELSE Token(local_buffer[FlushSlot].x, local_buffer[FlushSlot].y))
          /\ flushAt' = flushAt + 1
     ELSE /\ flushAt' = 3 * (FlushSlot + 1)
          /\ UNCHANGED out
  /\ UNCHANGED <<local_buffer, vaild_flag, lastSend, phase, gatherVars,
                 routed, received, run>>

FlushEndSilent ==
  /\ phase = "flush"
  /\ flushAt = 12
  /\ phase' = "done"
  /\ UNCHANGED <<local_buffer, vaild_flag, lastSend, flushAt, out, gatherVars,
                 routed, received, run>>

\* What is left of the input is drained (empty_stream) and the end token sent.
FlushEnd ==
  /\ phase = "flush"
  /\ flushAt = 12
  /\ Len(out) < Depth
  /\ out' = Append(out, EndToken)
  /\ phase' = "done"
  /\ UNCHANGED <<local_buffer, vaild_flag, lastSend, flushAt, gatherVars,
                 routed, received, run>>
-----------------------------------------------------------------------------
\* One iteration of dstPropertyProcess: the read sees the URAM without the
\* write still in flight, which lands before this iteration's own write.
Accumulate ==
  /\ gather = "loop"
  /\ out # <<>>
  /\ ~Head(out).end
  /\ LET w == Word(Head(out).x) IN
       inflight' = <<[word |-> w,
                      val  |-> [mem[w] EXCEPT ![Half(Head(out).x)] =
                                  @ \cup Head(out).y]]>>
  /\ mem' = Landed
  /\ out' = Tail(out)
  /\ UNCHANGED <<solverVars, gather, result, routed, received, run>>

\* A write in flight reaches the URAM.
Land ==
  /\ inflight # <<>>
  /\ mem' = Landed
  /\ inflight' = <<>>
  /\ UNCHANGED <<solverVars, out, gather, result, routed, received, run>>

\* After the end token the buffer is written out and zeroed for the next run.
WriteOutWithoutClear ==
  /\ gather = "loop"
  /\ inflight = <<>>
  /\ out # <<>>
  /\ Head(out).end
  /\ out' = Tail(out)
  /\ result' = mem
  /\ gather' = "done"
  /\ UNCHANGED <<solverVars, mem, inflight, routed, received, run>>

WriteOut ==
  /\ gather = "loop"
  /\ inflight = <<>>
  /\ out # <<>>
  /\ Head(out).end
  /\ out' = Tail(out)
  /\ result' = mem
  /\ mem' = ZeroMem
  /\ gather' = "done"
  /\ UNCHANGED <<solverVars, inflight, routed, received, run>>

\* The host runs the kernel again: the URAM keeps its contents.
NextRun ==
  /\ phase = "done" /\ gather = "done"
  /\ run < MaxRuns
  /\ run' = run + 1
  /\ local_buffer' = [i \in Slots |-> EmptySlot]
  /\ vaild_flag' = [i \in Slots |-> FALSE]
  /\ lastSend' = 0
  /\ phase' = "loop"
  /\ flushAt' = 0
  /\ gather' = "loop"
  /\ routed' = [x \in Dst |-> {}]
  /\ received' = 0
  /\ result' = ZeroMem
  /\ UNCHANGED <<out, mem, inflight>>

\* Every run is over: nothing is left to do.
Finished ==
  /\ phase = "done" /\ gather = "done"
  /\ run = MaxRuns
  /\ UNCHANGED vars

Solver == Select \/ EndOfStream \/ Flush \/ FlushEnd
Gather == Accumulate \/ Land \/ WriteOut

Next ==
  \/ \E x \in Dst : Merge(x) \/ Insert(x)
  \/ Solver
  \/ Gather
  \/ NextRun
  \/ Finished

Spec == Init /\ [][Next]_vars

\* The lane is hardware: each of its two loops runs on while it can.  The
\* input eventually ends because burstRead sends one end token per run.
FairSpec == Spec /\ WF_vars(Solver) /\ WF_vars(Gather)
-----------------------------------------------------------------------------

SlotType  == [x : Dst \cup {0}, y : SUBSET Tuples]
TokenType == [x : Nat, y : SUBSET Tuples, end : BOOLEAN]
WordType  == [Halves -> SUBSET Tuples]

\* Type invariant: every variable holds a value of the kind the code keeps.
TypeOK ==
  /\ local_buffer \in [Slots -> SlotType]
  /\ vaild_flag \in [Slots -> BOOLEAN]
  /\ lastSend \in Dst \cup {0}
  /\ phase \in {"loop", "select", "flush", "done"}
  /\ flushAt \in 0 .. 12
  /\ out \in Seq(TokenType) /\ Len(out) <= Depth
  /\ mem \in [Words -> WordType]
  /\ inflight \in {<<>>} \cup {<<w>> : w \in [word : Words, val : WordType]}
  /\ gather \in {"loop", "done"}
  /\ result \in [Words -> WordType]
  /\ routed \in [Dst -> SUBSET Tuples]
  /\ received \in 0 .. MaxTuples
  /\ run \in 1 .. MaxRuns

Looping == phase \in {"loop", "select"}

\* The four slots are enough: when the loop of rawSolver comes back for the
\* next tuple at least one is free, so the chain of else-if that looks for a
\* free slot never falls through and no tuple is dropped.
SlotFree == phase = "loop" => Free # {}

\* Until the flush begins, two tuples that follow each other into the URAM
\* never use the same word: neither the head of the stream and the write in
\* flight, nor two neighbours in the stream.
HazardFree ==
  Looping =>
    /\ (inflight # <<>> /\ out # <<>>) => inflight[1].word # Word(Head(out).x)
    /\ \A k \in 1 .. (Len(out) - 1) : Word(out[k].x) # Word(out[k + 1].x)

Kept(x)    == UNION {local_buffer[i].y : i \in Matching(x)}
Waiting(x) == UNION {out[k].y : k \in {j \in DOMAIN out : out[j].x = x}}
Stored(x)  == Landed[Word(x)][Half(x)]

\* Until the flush begins, the tuples received for a destination are exactly
\* those merged into its slot, on their way in the stream or accumulated.
Accounted ==
  Looping => \A x \in Dst : routed[x] = Kept(x) \cup Waiting(x) \cup Stored(x)

\* ... and each of them is in one of these places only, so that a sum does
\* not count it twice.
CountedOnce ==
  Looping =>
    \A x \in Dst :
      /\ Kept(x) \cap Waiting(x) = {}
      /\ (Kept(x) \cup Waiting(x)) \cap Stored(x) = {}
      /\ \A j, k \in DOMAIN out :
           j # k /\ out[j].x = x /\ out[k].x = x => out[j].y \cap out[k].y = {}

\* What the lane writes out for a destination was received for it, in this
\* run: nothing is added to a neighbour and nothing survives from a run before.
ResultSound ==
  gather = "done" =>
    \A x \in Dst : result[Word(x)][Half(x)] \subseteq routed[x]

\* The doc's promise (rawSolver is the RAW hazard solver): no update is lost.
ResultComplete ==
  gather = "done" =>
    \A x \in Dst : routed[x] \subseteq result[Word(x)][Half(x)]

\* A run of the lane that has started is written out: slots, stream and URAM
\* never wait for one another.
RunsFinish == (gather = "loop") ~> (gather = "done")
=============================================================================
