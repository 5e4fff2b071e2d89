-------------------------- MODULE RawSolver_proofs --------------------------
(***************************************************************************)
(* What holds of a gather lane for every partition, stream depth and tuple *)
(* sequence: the types, that a slot is always free, that neighbouring      *)
(* tuples never meet in a URAM word before the flush, that until then every*)
(* tuple received is in exactly one place, and that what is written out    *)
(* was received for its destination in the same run.                       *)
(***************************************************************************)
EXTENDS RawSolver, SequenceTheorems, TLAPS

-----------------------------------------------------------------------------
(***************************************************************************)
(* Arithmetic of rows and words.                                           *)
(***************************************************************************)

\* The row a lane keeps for a destination, read with the partition's mask, is
\* its offset from the partition's first row.
LEMMA ModOffset ==
  ASSUME NEW n \in Nat \ {0}, NEW b \in Nat, b % n = 0,
         NEW k \in 0 .. (n - 1)
  PROVE  (b + k) % n = k
  OBVIOUS

\* Destinations at least DST_INTERVEL apart lie in different words.
LEMMA FarWords ==
  ASSUME NEW x \in Dst, NEW y \in Dst, Far(x, y)
  PROVE  Word(x) # Word(y)
<1>. DEFINE ox == Row(x) - BaseRow
            oy == Row(y) - BaseRow
<1>1. ox \in 0 .. (Rows - 1) /\ oy \in 0 .. (Rows - 1)
  BY LaneAssumption DEF Row, PE_NUM
<1>2. Idx(x) = ox /\ Idx(y) = oy
  <2>1. Row(x) = BaseRow + ox /\ Row(y) = BaseRow + oy
    BY LaneAssumption DEF Row, PE_NUM
  <2>. HIDE DEF ox, oy
  <2>2. (BaseRow + ox) % Rows = ox /\ (BaseRow + oy) % Rows = oy
    <3>1. Rows \in Nat \ {0} /\ BaseRow \in Nat /\ BaseRow % Rows = 0
      BY LaneAssumption
    <3>. QED  BY <1>1, <3>1, ModOffset
  <2>. QED  BY <2>1, <2>2 DEF Idx
<1>3. ox - oy >= 2 \/ oy - ox >= 2
  <2>1. Row(x) - Row(y) >= 2 \/ Row(y) - Row(x) >= 2
    BY LaneAssumption DEF Far, Distance, DST_INTERVEL, Row, PE_NUM
  <2>. QED  BY <2>1, LaneAssumption DEF Row, PE_NUM
<1>. HIDE DEF ox, oy
<1>. QED  BY <1>1, <1>2, <1>3 DEF Word

\* At most three destinations of a lane are closer than DST_INTERVEL to the
\* last one sent, so four different ones include one that is far enough.
LEMMA Pigeonhole ==
  ASSUME NEW l \in Dst \cup {0},
         NEW a \in Dst, NEW b \in Dst, NEW c \in Dst, NEW d \in Dst,
         a # b, a # c, a # d, b # c, b # d, c # d
  PROVE  Far(l, a) \/ Far(l, b) \/ Far(l, c) \/ Far(l, d)
<1>1. /\ {a, b, c, d} \subseteq Nat
      /\ a % 16 = Pe /\ b % 16 = Pe /\ c % 16 = Pe /\ d % 16 = Pe
  BY LaneAssumption DEF PE_NUM
<1>2. CASE l = 0
  BY <1>1, <1>2, LaneAssumption DEF Far, Distance, DST_INTERVEL, PE_NUM
<1>3. CASE l \in Dst
  BY <1>1, <1>3, LaneAssumption DEF Far, Distance, DST_INTERVEL, PE_NUM
<1>. QED  BY <1>2, <1>3
-----------------------------------------------------------------------------
(***************************************************************************)
(* Types.                                                                  *)
(***************************************************************************)

LEMMA InitType == Init => TypeOK
  BY LaneAssumption
  DEF Init, TypeOK, SlotType, TokenType, WordType, EmptySlot, ZeroMem, Slots,
      Words, Halves, Tuples

\* Landing the writes in flight leaves a well-formed buffer.
LEMMA LandedType ==
  ASSUME TypeOK
  PROVE  Landed \in [Words -> WordType]
  BY DEF TypeOK, Landed

LEMMA WordRange ==
  ASSUME NEW x \in Nat
  PROVE  Word(x) \in Words /\ Half(x) \in Halves
<1>1. Row(x) \in Nat
  BY DEF Row, PE_NUM
<1>2. Idx(x) \in 0 .. (Rows - 1)
  BY <1>1, LaneAssumption DEF Idx
<1>. QED  BY <1>2, LaneAssumption DEF Word, Half, Words, Halves

\* Receiving a tuple counts it and books it for its destination.
LEMMA ReceiveType ==
  ASSUME TypeOK, NEW x \in Dst, Receive(x)
  PROVE  /\ received + 1 \in Tuples /\ received' \in 0 .. MaxTuples
         /\ routed' \in [Dst -> SUBSET Tuples]
<1>1. received \in 0 .. MaxTuples /\ received < MaxTuples /\ MaxTuples \in Nat
  BY LaneAssumption DEF TypeOK, Receive
<1>2. received + 1 \in Tuples /\ received' \in 0 .. MaxTuples
  BY <1>1 DEF Receive, Tuples
<1>. QED  BY <1>2 DEF TypeOK, Receive

LEMMA MergeType == TypeOK /\ (\E x \in Dst : Merge(x)) => TypeOK'
<1>. SUFFICES ASSUME TypeOK, NEW x \in Dst, Merge(x)  PROVE TypeOK'
  OBVIOUS
<1>1. /\ received + 1 \in Tuples /\ received' \in 0 .. MaxTuples
      /\ routed' \in [Dst -> SUBSET Tuples]
  BY ReceiveType DEF Merge
<1>2. local_buffer' \in [Slots -> SlotType]
  BY <1>1 DEF TypeOK, SlotType, Merge
<1>. QED
  BY <1>1, <1>2 DEF TypeOK, Merge, gatherVars

LEMMA InsertType == TypeOK /\ (\E x \in Dst : Insert(x)) => TypeOK'
<1>. SUFFICES ASSUME TypeOK, NEW x \in Dst, Insert(x)  PROVE TypeOK'
  OBVIOUS
<1>1. /\ received + 1 \in Tuples /\ received' \in 0 .. MaxTuples
      /\ routed' \in [Dst -> SUBSET Tuples]
  BY ReceiveType DEF Insert
<1>2. local_buffer' \in [Slots -> SlotType] /\ vaild_flag' \in [Slots -> BOOLEAN]
  <2>1. CASE UNCHANGED <<local_buffer, vaild_flag>>
    BY <2>1 DEF TypeOK
  <2>2. ASSUME NEW i \in Slots,
               local_buffer' = [local_buffer EXCEPT
                                  ![i] = [x |-> x, y |-> {received + 1}]],
               vaild_flag' = [vaild_flag EXCEPT ![i] = TRUE]
        PROVE  local_buffer' \in [Slots -> SlotType]
               /\ vaild_flag' \in [Slots -> BOOLEAN]
    <3>1. [x |-> x, y |-> {received + 1}] \in SlotType
      BY <1>1 DEF SlotType
    <3>. QED  BY <2>2, <3>1 DEF TypeOK
  <2>. QED  BY <2>1, <2>2 DEF Insert
<1>. QED
  BY <1>1, <1>2 DEF TypeOK, Insert, gatherVars

\* A token appended to a stream that has room leaves it well-formed.
LEMMA AppendType ==
  ASSUME TypeOK, Len(out) < Depth, NEW t \in TokenType, out' = Append(out, t)
  PROVE  out' \in Seq(TokenType) /\ Len(out') <= Depth
  BY LaneAssumption DEF TypeOK

LEMMA SelectType == TypeOK /\ Select => TypeOK'
<1>. SUFFICES ASSUME TypeOK, Select  PROVE TypeOK'
  OBVIOUS
<1>1. CASE Sendable = {} /\ UNCHANGED <<vaild_flag, lastSend, out>>
  BY <1>1 DEF Select, TypeOK, gatherVars
<1>2. ASSUME NEW i \in Slots,
             Len(out) < Depth,
             i \in Sendable,
             vaild_flag' = [vaild_flag EXCEPT ![i] = FALSE],
             lastSend' = local_buffer[i].x,
             out' = Append(out, Token(local_buffer[i].x, local_buffer[i].y))
      PROVE  TypeOK'
  <2>1. local_buffer[i] \in SlotType
    BY DEF TypeOK
  <2>2. Token(local_buffer[i].x, local_buffer[i].y) \in TokenType
    BY <2>1, LaneAssumption DEF Token, TokenType, SlotType
  <2>3. out' \in Seq(TokenType) /\ Len(out') <= Depth
    BY <1>2, <2>2, AppendType
  <2>. QED
    BY <1>2, <2>1, <2>3 DEF Select, TypeOK, SlotType, gatherVars
<1>. QED  BY <1>1, <1>2 DEF Select, Least

LEMMA FlushType == TypeOK /\ (Flush \/ FlushEnd \/ EndOfStream) => TypeOK'
<1>1. ASSUME TypeOK, Flush  PROVE TypeOK'
  <2>. USE <1>1
  <2>0. FlushSlot \in Slots /\ FlushStep \in 0 .. 2
    BY DEF TypeOK, Flush, FlushSlot, FlushStep, Slots
  <2>1. CASE ~vaild_flag[FlushSlot]
    <3>1. flushAt' \in 0 .. 12
      BY <2>0, <2>1 DEF Flush, Slots
    <3>. QED  BY <2>1, <3>1 DEF Flush, TypeOK, gatherVars
  <2>2. CASE vaild_flag[FlushSlot]
    <3>. DEFINE t == IF FlushStep < 2
                     THEN Token(local_buffer[FlushSlot].x + DST_INTERVEL, {})
                     ELSE Token(local_buffer[FlushSlot].x, local_buffer[FlushSlot].y)
    <3>1. local_buffer[FlushSlot] \in SlotType
      BY <2>0 DEF TypeOK
    <3>2. t \in TokenType
      <4>1. local_buffer[FlushSlot].x \in Nat /\ local_buffer[FlushSlot].y \in SUBSET Tuples
        <5>1. Dst \cup {0} \subseteq Nat
          BY LaneAssumption
        <5>. HIDE DEF t
        <5>. QED  BY <3>1, <5>1 DEF SlotType
      <4>2. local_buffer[FlushSlot].x + DST_INTERVEL \in Nat /\ {} \in SUBSET Tuples
        BY <4>1 DEF DST_INTERVEL
      <4>. QED  BY <4>1, <4>2 DEF Token, TokenType
    <3>3. out' \in Seq(TokenType) /\ Len(out') <= Depth
      BY <2>2, <3>2, AppendType DEF Flush
    <3>4. flushAt' \in 0 .. 12
      BY <2>2 DEF Flush, TypeOK
    <3>. QED  BY <3>3, <3>4 DEF Flush, TypeOK, gatherVars
  <2>. QED  BY <2>1, <2>2
<1>2. ASSUME TypeOK, FlushEnd  PROVE TypeOK'
  <2>1. EndToken \in TokenType
    BY DEF EndToken, TokenType
  <2>2. out' \in Seq(TokenType) /\ Len(out') <= Depth
    BY <1>2, <2>1, AppendType DEF FlushEnd
  <2>. QED  BY <1>2, <2>2 DEF FlushEnd, TypeOK, gatherVars
<1>3. ASSUME TypeOK, EndOfStream  PROVE TypeOK'
  BY <1>3 DEF EndOfStream, TypeOK, gatherVars
<1>. QED  BY <1>1, <1>2, <1>3

\* Taking the head off the stream leaves it well-formed.
LEMMA TailType ==
  ASSUME TypeOK, out # <<>>, out' = Tail(out)
  PROVE  /\ out' \in Seq(TokenType) /\ Len(out') <= Depth
         /\ Head(out) \in TokenType
  BY LaneAssumption DEF TypeOK

LEMMA GatherType == TypeOK /\ Gather => TypeOK'
<1>1. ASSUME TypeOK, Accumulate  PROVE TypeOK'
  <2>. DEFINE w == Word(Head(out).x)
              v == [mem[w] EXCEPT ![Half(Head(out).x)] = @ \cup Head(out).y]
  <2>1. out' \in Seq(TokenType) /\ Len(out') <= Depth /\ Head(out) \in TokenType
    BY <1>1, TailType DEF Accumulate
  <2>2. w \in Words /\ Half(Head(out).x) \in Halves
    BY <2>1, WordRange DEF TokenType
  <2>3. v \in WordType
    BY <1>1, <2>1, <2>2 DEF TypeOK, WordType, TokenType
  <2>4. inflight' = <<[word |-> w, val |-> v]>>
    BY <1>1 DEF Accumulate
  <2>5. mem' \in [Words -> WordType]
    BY <1>1, LandedType DEF Accumulate
  <2>. HIDE DEF w, v
  <2>. QED  BY <1>1, <2>1, <2>2, <2>3, <2>4, <2>5 DEF Accumulate, TypeOK, solverVars
<1>2. ASSUME TypeOK, Land  PROVE TypeOK'
  BY <1>2, LandedType DEF Land, TypeOK, solverVars
<1>3. ASSUME TypeOK, WriteOut  PROVE TypeOK'
  <2>1. out' \in Seq(TokenType) /\ Len(out') <= Depth
    BY <1>3, TailType DEF WriteOut
  <2>. QED  BY <1>3, <2>1 DEF WriteOut, TypeOK, solverVars, ZeroMem, WordType
<1>. QED  BY <1>1, <1>2, <1>3 DEF Gather

LEMMA NextRunType == TypeOK /\ NextRun => TypeOK'
  BY LaneAssumption
  DEF NextRun, TypeOK, SlotType, WordType, EmptySlot, ZeroMem

LEMMA NextType == TypeOK /\ [Next]_vars => TypeOK'
<1>1. CASE UNCHANGED vars
  BY <1>1 DEF TypeOK, vars, solverVars, gatherVars
<1>2. CASE Finished
  BY <1>2 DEF Finished, TypeOK, vars, solverVars, gatherVars
<1>. QED
  BY <1>1, <1>2, MergeType, InsertType, SelectType, FlushType, GatherType,
     NextRunType
  DEF Next, Solver

\* Every variable of a lane keeps its type.
THEOREM TypeCorrect == Spec => []TypeOK
  BY InitType, NextType, PTL DEF Spec
-----------------------------------------------------------------------------
(***************************************************************************)
(* A slot is always free.                                                  *)
(***************************************************************************)

\* Full slots hold destinations of the lane, and different ones.
SlotsServed   == \A i \in Slots : vaild_flag[i] => local_buffer[i].x \in Dst
SlotsDistinct == \A i, j \in Slots :
                   i # j /\ vaild_flag[i] /\ vaild_flag[j] =>
                     local_buffer[i].x # local_buffer[j].x
SlotInv == SlotsServed /\ SlotsDistinct /\ SlotFree

LEMMA MergeSlotInv ==
  ASSUME TypeOK, SlotInv, NEW x \in Dst, Merge(x)
  PROVE  SlotInv'
<1>1. \A i \in Slots : local_buffer'[i].x = local_buffer[i].x
  BY DEF Merge, TypeOK, SlotType
<1>. QED
  BY <1>1 DEF Merge, SlotInv, SlotsServed, SlotsDistinct, SlotFree, Free

LEMMA InsertSlotInv ==
  ASSUME TypeOK, SlotInv, NEW x \in Dst, Insert(x)
  PROVE  SlotInv'
<1>1. phase' = "select"
  BY DEF Insert
<1>2. CASE UNCHANGED <<local_buffer, vaild_flag>>
  BY <1>1, <1>2 DEF SlotInv, SlotsServed, SlotsDistinct, SlotFree
<1>3. ASSUME NEW i \in Slots,
             local_buffer' = [local_buffer EXCEPT
                                ![i] = [x |-> x, y |-> {received + 1}]],
             vaild_flag' = [vaild_flag EXCEPT ![i] = TRUE]
      PROVE  SlotInv'
  <2>1. /\ local_buffer'[i].x = x
        /\ \A j \in Slots \ {i} : /\ local_buffer'[j] = local_buffer[j]
                                  /\ vaild_flag'[j] = vaild_flag[j]
    BY <1>3 DEF TypeOK
  <2>2. \A j \in Slots : vaild_flag[j] => local_buffer[j].x # x
    BY DEF Insert, Matching
  <2>. QED
    BY <1>1, <2>1, <2>2 DEF SlotInv, SlotsServed, SlotsDistinct, SlotFree
<1>. QED  BY <1>2, <1>3 DEF Insert

LEMMA SelectSlotInv ==
  ASSUME TypeOK, SlotInv, Select
  PROVE  SlotInv'
<1>1. local_buffer' = local_buffer
  BY DEF Select
<1>2. CASE Sendable = {} /\ UNCHANGED <<vaild_flag, lastSend, out>>
  <2>1. \E i \in Slots : ~vaild_flag[i]
    <3>1. SUFFICES ASSUME \A i \in Slots : vaild_flag[i]  PROVE FALSE
      OBVIOUS
    <3>2. \A i \in Slots : ~Far(lastSend, local_buffer[i].x)
      BY <1>2, <3>1 DEF Sendable
    <3>3. /\ 0 \in Slots /\ 1 \in Slots /\ 2 \in Slots /\ 3 \in Slots
          /\ lastSend \in Dst \cup {0}
      BY DEF Slots, TypeOK
    <3>. QED
      BY <3>1, <3>2, <3>3, Pigeonhole DEF SlotInv, SlotsServed, SlotsDistinct
  <2>. QED
    BY <1>1, <1>2, <2>1 DEF SlotInv, SlotsServed, SlotsDistinct, SlotFree, Free
<1>3. ASSUME NEW i \in Slots, vaild_flag' = [vaild_flag EXCEPT ![i] = FALSE]
      PROVE  SlotInv'
  <2>1. /\ ~vaild_flag'[i]
        /\ \A j \in Slots : vaild_flag'[j] => vaild_flag[j]
    BY <1>3 DEF TypeOK
  <2>. QED
    BY <1>1, <2>1 DEF SlotInv, SlotsServed, SlotsDistinct, SlotFree, Free
<1>. QED  BY <1>2, <1>3 DEF Select

LEMMA NextSlotInv == TypeOK /\ SlotInv /\ [Next]_vars => SlotInv'
<1>. SUFFICES ASSUME TypeOK, SlotInv, [Next]_vars  PROVE SlotInv'
  OBVIOUS
<1>. USE DEF SlotInv, SlotsServed, SlotsDistinct, SlotFree, Free
<1>1. CASE \E x \in Dst : Merge(x) \/ Insert(x)
  BY <1>1, MergeSlotInv, InsertSlotInv
<1>2. CASE Select
  BY <1>2, SelectSlotInv
<1>3. CASE EndOfStream \/ Flush \/ FlushEnd
  BY <1>3 DEF EndOfStream, Flush, FlushEnd
<1>4. CASE Gather
  BY <1>4 DEF Gather, Accumulate, Land, WriteOut, solverVars
<1>5. CASE NextRun
  BY <1>5 DEF NextRun, Slots
<1>6. CASE Finished \/ UNCHANGED vars
  BY <1>6 DEF Finished, vars, solverVars
<1>. QED  BY <1>1, <1>2, <1>3, <1>4, <1>5, <1>6 DEF Next, Solver

\* No tuple is dropped for want of a slot: four slots serve every sequence of
\* destinations, because at most three of them can be too close to be sent.
THEOREM SlotAlwaysFree == Spec => []SlotFree
<1>1. Init => SlotInv
  BY DEF Init, SlotInv, SlotsServed, SlotsDistinct, SlotFree, Free, Slots
<1>2. SlotInv => SlotFree
  BY DEF SlotInv
<1>. QED  BY <1>1, <1>2, NextSlotInv, TypeCorrect, PTL DEF Spec
-----------------------------------------------------------------------------
(***************************************************************************)
(* Neighbouring tuples use different words.                                *)
(***************************************************************************)

\* Until the flush the stream carries tuples of the lane ...
StreamServed ==
  Looping => \A k \in DOMAIN out : out[k].x \in Dst /\ ~out[k].end

\* ... the last of which is the one rawSolver remembers having sent ...
LastSent ==
  Looping =>
    /\ out # <<>> => out[Len(out)].x = lastSend
    /\ (out = <<>> /\ inflight # <<>>) =>
         lastSend \in Dst /\ inflight[1].word = Word(lastSend)

\* ... an end token is the last one, and a lane written out is empty.
EndLast == \A k \in DOMAIN out : out[k].end => k = Len(out) /\ phase = "done"
Idle    == gather = "done" => phase = "done" /\ out = <<>> /\ inflight = <<>>

HazardInv == StreamServed /\ LastSent /\ EndLast /\ Idle /\ HazardFree

LEMMA SelectHazardInv ==
  ASSUME TypeOK, SlotInv, HazardInv, Select
  PROVE  HazardInv'
<1>. USE DEF HazardInv
<1>0. phase = "select" /\ phase' = "loop" /\ Looping /\ Looping'
  BY DEF Select, Looping
<1>1. CASE Sendable = {} /\ UNCHANGED <<vaild_flag, lastSend, out>>
  BY <1>0, <1>1
  DEF Select, StreamServed, LastSent, EndLast, Idle, HazardFree, gatherVars
<1>2. ASSUME NEW i \in Sendable,
             lastSend' = local_buffer[i].x,
             out' = Append(out, Token(local_buffer[i].x, local_buffer[i].y))
      PROVE  HazardInv'
  <2>. DEFINE x == local_buffer[i].x
  <2>1. x \in Dst /\ Far(lastSend, x)
    BY DEF Sendable, SlotInv, SlotsServed
  <2>2. /\ Len(out') = Len(out) + 1
        /\ \A k \in 1 .. Len(out) : out'[k] = out[k]
        /\ out'[Len(out')].x = x /\ ~out'[Len(out')].end
        /\ out' # <<>>
        /\ DOMAIN out = 1 .. Len(out) /\ DOMAIN out' = 1 .. Len(out')
        /\ Len(out) \in Nat
    BY <1>2 DEF TypeOK, Token
  <2>3. inflight' = inflight /\ gather' = gather
    BY DEF Select, gatherVars
  <2>4. StreamServed'
    BY <1>0, <2>1, <2>2 DEF StreamServed
  <2>5. LastSent'
    BY <1>2, <2>2 DEF LastSent
  <2>6. EndLast' /\ Idle'
    BY <1>0, <2>2, <2>3 DEF EndLast, Idle
  <2>7. ASSUME inflight # <<>>  PROVE inflight[1].word # Word(Head(out').x)
    <3>1. CASE out = <<>>
      <4>1. Head(out').x = x
        BY <3>1, <2>2
      <4>. QED  BY <1>0, <3>1, <4>1, <2>1, <2>7, FarWords DEF LastSent
    <3>2. CASE out # <<>>
      <4>1. Head(out') = Head(out)
        BY <2>2, <3>2
      <4>. QED  BY <1>0, <2>7, <3>2, <4>1 DEF HazardFree
    <3>. QED  BY <3>1, <3>2
  <2>8. ASSUME NEW k \in 1 .. (Len(out') - 1)
        PROVE  Word(out'[k].x) # Word(out'[k + 1].x)
    <3>1. CASE k < Len(out)
      BY <1>0, <2>2, <3>1 DEF HazardFree
    <3>2. CASE k = Len(out)
      <4>1. out'[k].x = lastSend /\ lastSend \in Dst
        BY <1>0, <2>2, <2>8, <3>2 DEF LastSent, StreamServed
      <4>. QED  BY <2>1, <2>2, <3>2, <4>1, FarWords
    <3>3. k \in Nat /\ k <= Len(out) /\ Len(out) \in Nat
      BY <2>2
    <3>. HIDE DEF x
    <3>. QED  BY <3>1, <3>2, <3>3
  <2>9. HazardFree'
    BY <2>3, <2>7, <2>8 DEF HazardFree
  <2>. QED  BY <2>4, <2>5, <2>6, <2>9
<1>. QED  BY <1>1, <1>2 DEF Select, Least

LEMMA FlushHazardInv ==
  ASSUME TypeOK, HazardInv, EndOfStream \/ Flush \/ FlushEnd
  PROVE  HazardInv'
<1>. USE DEF HazardInv
<1>1. ~Looping' /\ gather' = gather /\ inflight' = inflight
      /\ phase \in {"loop", "flush"}
  BY DEF EndOfStream, Flush, FlushEnd, Looping, gatherVars
<1>2. gather # "done"
  BY <1>1 DEF Idle
<1>3. EndLast'
  <2>1. CASE out' = out
    BY <1>1, <2>1 DEF EndLast
  <2>2. ASSUME NEW t, out' = Append(out, t), t.end => phase' = "done"
        PROVE  EndLast'
    BY <1>1, <2>2 DEF EndLast, TypeOK
  <2>. QED
    BY <2>1, <2>2 DEF EndOfStream, Flush, FlushEnd, Token, EndToken
<1>. QED
  BY <1>1, <1>2, <1>3 DEF StreamServed, LastSent, Idle, HazardFree

\* The rest of a stream, entry by entry.
LEMMA TailFacts ==
  ASSUME NEW S, NEW s \in Seq(S), s # <<>>
  PROVE  /\ Len(Tail(s)) = Len(s) - 1 /\ Len(s) \in Nat
         /\ \A k \in 1 .. Len(Tail(s)) : Tail(s)[k] = s[k + 1]
         /\ DOMAIN s = 1 .. Len(s) /\ DOMAIN Tail(s) = 1 .. Len(Tail(s))
         /\ Head(s) = s[1] /\ 1 \in DOMAIN s
         /\ Tail(s) # <<>> => Len(Tail(s)) >= 1 /\ Head(Tail(s)) = s[2]
         /\ Tail(s) = <<>> => Len(s) = 1
<1>1. /\ Len(s) \in Nat /\ Len(s) >= 1 /\ DOMAIN s = 1 .. Len(s)
      /\ Head(s) = s[1]
  OBVIOUS
<1>2. Tail(s) \in Seq(S) /\ Len(Tail(s)) = Len(s) - 1
  OBVIOUS
<1>3. \A k \in 1 .. Len(Tail(s)) : Tail(s)[k] = s[k + 1]
  BY <1>1
<1>4. DOMAIN Tail(s) = 1 .. Len(Tail(s))
  BY <1>2
<1>5. ASSUME Tail(s) # <<>>  PROVE Len(Tail(s)) >= 1 /\ Head(Tail(s)) = s[2]
  <2>1. Len(Tail(s)) >= 1 /\ Head(Tail(s)) = Tail(s)[1]
    BY <1>2, <1>5
  <2>. QED  BY <1>3, <2>1
<1>6. ASSUME Tail(s) = <<>>  PROVE Len(s) = 1
  <2>1. Len(Tail(s)) = 0
    BY <1>6, EmptySeq, Zenon
  <2>2. Len(s) - 1 = 0
    BY <1>2, <2>1, Zenon
  <2>3. \A n \in Nat : n - 1 = 0 => n = 1
    OBVIOUS
  <2>. QED  BY <1>1, <2>2, <2>3, Zenon
<1>7. 1 \in DOMAIN s
  BY <1>1
<1>. QED  BY <1>1, <1>2, <1>3, <1>4, <1>5, <1>6, <1>7, Zenon

LEMMA GatherHazardInv ==
  ASSUME TypeOK, HazardInv, Gather
  PROVE  HazardInv'
<1>. USE DEF HazardInv
<1>0. phase' = phase /\ lastSend' = lastSend /\ (Looping' <=> Looping)
  BY DEF Gather, Accumulate, Land, WriteOut, solverVars, Looping
<1>1. ASSUME out # <<>>, out' = Tail(out)
      PROVE  /\ Len(out') = Len(out) - 1 /\ Len(out) \in Nat
             /\ \A k \in 1 .. Len(out') : out'[k] = out[k + 1]
             /\ DOMAIN out = 1 .. Len(out) /\ DOMAIN out' = 1 .. Len(out')
             /\ Head(out) = out[1] /\ 1 \in DOMAIN out
             /\ out' # <<>> => Len(out') >= 1 /\ Head(out') = out[2]
             /\ out' = <<>> => Len(out) = 1
  BY <1>1, TailFacts DEF TypeOK
<1>2. CASE Accumulate
  <2>1. out # <<>> /\ out' = Tail(out) /\ gather = "loop" /\ gather' = "loop"
    BY <1>2 DEF Accumulate
  <2>2. inflight' # <<>> /\ inflight'[1].word = Word(Head(out).x)
    BY <1>2 DEF Accumulate
  <2>3. StreamServed' /\ EndLast' /\ Idle'
    BY <1>0, <1>1, <2>1 DEF StreamServed, EndLast, Idle
  <2>4. LastSent'
    BY <1>0, <1>1, <2>1, <2>2 DEF LastSent, StreamServed
  <2>5. HazardFree'
    BY <1>0, <1>1, <2>1, <2>2 DEF HazardFree
  <2>. QED  BY <2>3, <2>4, <2>5
<1>3. CASE Land
  BY <1>0, <1>3
  DEF Land, StreamServed, LastSent, EndLast, Idle, HazardFree
<1>4. CASE WriteOut
  <2>1. out # <<>> /\ out' = Tail(out) /\ Head(out).end /\ inflight = <<>>
        /\ inflight' = <<>>
    BY <1>4 DEF WriteOut
  <2>2. phase = "done" /\ Len(out) = 1
    BY <1>1, <2>1 DEF EndLast
  <2>3. out' = <<>> /\ ~Looping
    BY <1>1, <2>1, <2>2 DEF Looping, TypeOK
  <2>. QED
    BY <1>0, <2>1, <2>2, <2>3
    DEF StreamServed, LastSent, EndLast, Idle, HazardFree
<1>. QED  BY <1>2, <1>3, <1>4 DEF Gather

LEMMA NextHazardInv ==
  TypeOK /\ SlotInv /\ HazardInv /\ [Next]_vars => HazardInv'
<1>. SUFFICES ASSUME TypeOK, SlotInv, HazardInv, [Next]_vars
              PROVE  HazardInv'
  OBVIOUS
<1>1. CASE \E x \in Dst : Merge(x) \/ Insert(x)
  <2>1. Looping /\ Looping' /\ UNCHANGED <<out, inflight, gather, lastSend>>
        /\ phase = "loop"
    BY <1>1 DEF Merge, Insert, Receive, Looping, gatherVars
  <2>. QED
    BY <2>1
    DEF HazardInv, StreamServed, LastSent, EndLast, Idle, HazardFree, Looping
<1>2. CASE Select
  BY <1>2, SelectHazardInv
<1>3. CASE EndOfStream \/ Flush \/ FlushEnd
  BY <1>3, FlushHazardInv
<1>4. CASE Gather
  BY <1>4, GatherHazardInv
<1>5. CASE NextRun
  BY <1>5
  DEF NextRun, HazardInv, StreamServed, LastSent, EndLast, Idle, HazardFree
<1>6. CASE Finished \/ UNCHANGED vars
  BY <1>6
  DEF Finished, vars, solverVars, gatherVars, HazardInv, StreamServed,
      LastSent, EndLast, Idle, HazardFree, Looping
<1>. QED  BY <1>1, <1>2, <1>3, <1>4, <1>5, <1>6 DEF Next, Solver

\* In the loop of rawSolver the accumulation never reads a word that the write
\* before it has not reached: dependence inter false is justified there.
THEOREM NoHazardInLoop == Spec => []HazardFree
<1>1. Init => SlotInv /\ HazardInv
  BY DEF Init, SlotInv, SlotsServed, SlotsDistinct, SlotFree, Free, Slots,
         HazardInv, StreamServed, LastSent, EndLast, Idle, HazardFree
<1>2. HazardInv => HazardFree
  BY DEF HazardInv
<1>. QED
  BY <1>1, <1>2, NextSlotInv, NextHazardInv, TypeCorrect, PTL DEF Spec
-----------------------------------------------------------------------------
(***************************************************************************)
(* What is written out was received in this run.                           *)
(***************************************************************************)

\* Tuples are booked under the numbers given out so far ...
SoundTuples == \A x \in Dst : routed[x] \subseteq 1 .. received

\* ... and what a slot, the stream, the URAM or the write in flight holds for
\* a destination was received for it; the dummies of the flush carry nothing.
SoundSlots ==
  \A i \in Slots :
    vaild_flag[i] => local_buffer[i].y \subseteq routed[local_buffer[i].x]

SoundStream ==
  \A k \in DOMAIN out :
    out[k].y = {} \/ (out[k].x \in Dst /\ out[k].y \subseteq routed[out[k].x])

SoundUram ==
  \A x \in Dst :
    /\ mem[Word(x)][Half(x)] \subseteq routed[x]
    /\ inflight # <<>> /\ inflight[1].word = Word(x)
         => inflight[1].val[Half(x)] \subseteq routed[x]

\* The next run finds the URAM as the first one did.
Cleared == gather = "done" => mem = ZeroMem

SoundInv == /\ SoundTuples /\ SoundSlots /\ SoundStream /\ SoundUram
            /\ Cleared /\ ResultSound

\* Different destinations of a lane have different places in its URAM.
LEMMA PlaceOfOne ==
  ASSUME NEW x \in Dst, NEW y \in Dst, Word(x) = Word(y), Half(x) = Half(y)
  PROVE  x = y
<1>. DEFINE ox == Row(x) - BaseRow
            oy == Row(y) - BaseRow
<1>1. /\ ox \in 0 .. (Rows - 1) /\ oy \in 0 .. (Rows - 1)
      /\ Row(x) = BaseRow + ox /\ Row(y) = BaseRow + oy
  BY LaneAssumption DEF Row, PE_NUM
<1>2. /\ x \in Nat /\ y \in Nat
      /\ x % 16 = y % 16 /\ (ox = oy => x \div 16 = y \div 16)
  BY LaneAssumption DEF Row, PE_NUM
<1>. HIDE DEF ox, oy
<1>3. Idx(x) = ox /\ Idx(y) = oy
  <2>1. Rows \in Nat \ {0} /\ BaseRow \in Nat /\ BaseRow % Rows = 0
    BY LaneAssumption
  <2>. QED  BY <1>1, <2>1, ModOffset DEF Idx
<1>4. ox = oy
  <2>1. ox \div 2 = oy \div 2 /\ ox % 2 = oy % 2
    BY <1>3 DEF Word, Half
  <2>. QED  BY <1>1, <2>1
<1>. QED  BY <1>2, <1>4

\* What Landed holds is what mem or the write in flight holds.
LEMMA LandedSound ==
  ASSUME TypeOK, SoundUram, NEW x \in Dst
  PROVE  Landed[Word(x)][Half(x)] \subseteq routed[x]
<1>1. Word(x) \in Words
  BY WordRange, LaneAssumption
<1>. QED  BY <1>1 DEF Landed, SoundUram

LEMMA ReceiveSound ==
  ASSUME TypeOK, SoundInv, NEW x \in Dst, Receive(x)
  PROVE  /\ SoundTuples' /\ received + 1 \in routed'[x]
         /\ \A z \in Dst : routed[z] \subseteq routed'[z]
<1>1. \A z \in Dst : routed'[z] = IF z = x THEN routed[z] \cup {received + 1}
                                  ELSE routed[z]
  BY DEF Receive, TypeOK
<1>2. received \in Nat /\ received' = received + 1
  BY LaneAssumption DEF Receive, TypeOK
<1>3. SoundTuples'
  <2>1. \A z \in Dst : routed[z] \subseteq 1 .. received
    BY DEF SoundInv, SoundTuples
  <2>2. 1 .. received \subseteq 1 .. (received + 1)
        /\ received + 1 \in 1 .. (received + 1)
    BY <1>2
  <2>. QED  BY <1>1, <1>2, <2>1, <2>2 DEF SoundTuples
<1>. QED  BY <1>1, <1>3

\* More tuples received leave the rest of the lane sound.
LEMMA MoreReceived ==
  ASSUME SoundInv, UNCHANGED <<out, mem, inflight, gather, result>>,
         \A z \in Dst : routed[z] \subseteq routed'[z]
  PROVE  SoundStream' /\ SoundUram' /\ Cleared' /\ ResultSound'
<1>1. SoundStream'
  BY DEF SoundInv, SoundStream
<1>2. SoundUram'
  <2>1. ASSUME NEW x \in Dst
        PROVE  /\ mem[Word(x)][Half(x)] \subseteq routed'[x]
               /\ inflight # <<>> /\ inflight[1].word = Word(x)
                    => inflight[1].val[Half(x)] \subseteq routed'[x]
    <3>1. /\ mem[Word(x)][Half(x)] \subseteq routed[x]
          /\ inflight # <<>> /\ inflight[1].word = Word(x)
               => inflight[1].val[Half(x)] \subseteq routed[x]
          /\ routed[x] \subseteq routed'[x]
      BY DEF SoundInv, SoundUram
    <3>. QED  BY <3>1
  <2>. QED  BY <2>1 DEF SoundUram
<1>3. Cleared'
  BY DEF SoundInv, Cleared
<1>4. ResultSound'
  <2>1. ASSUME gather = "done", NEW x \in Dst
        PROVE  result[Word(x)][Half(x)] \subseteq routed'[x]
    <3>1. /\ result[Word(x)][Half(x)] \subseteq routed[x]
          /\ routed[x] \subseteq routed'[x]
      BY <2>1 DEF SoundInv, ResultSound
    <3>. QED  BY <3>1
  <2>. QED  BY <2>1 DEF ResultSound
<1>. QED  BY <1>1, <1>2, <1>3, <1>4

LEMMA MergeSound ==
  ASSUME TypeOK, SlotInv, SoundInv, NEW x \in Dst, Merge(x)
  PROVE  SoundInv'
<1>1. /\ Receive(x) /\ UNCHANGED <<vaild_flag, out, mem, inflight, gather, result>>
  BY DEF Merge, gatherVars
<1>2. /\ SoundTuples' /\ received + 1 \in routed'[x]
      /\ \A z \in Dst : routed[z] \subseteq routed'[z]
  BY <1>1, ReceiveSound
<1>3. SoundSlots'
  <2>1. ASSUME NEW i \in Slots, vaild_flag[i]
        PROVE  local_buffer'[i].y \subseteq routed'[local_buffer'[i].x]
    <3>1. /\ local_buffer[i].y \subseteq routed[local_buffer[i].x]
          /\ local_buffer[i].x \in Dst
      BY <2>1 DEF SoundInv, SoundSlots, SlotInv, SlotsServed
    <3>2. local_buffer'[i] =
            IF i \in Matching(x)
            THEN [local_buffer[i] EXCEPT !.y = @ \cup {received + 1}]
            ELSE local_buffer[i]
      BY DEF Merge
    <3>3. local_buffer[i] \in SlotType
      BY DEF TypeOK
    <3>4. CASE i \in Matching(x)
      <4>1. local_buffer[i].x = x
        BY <3>4 DEF Matching
      <4>2. /\ local_buffer'[i].x = x
            /\ local_buffer'[i].y = local_buffer[i].y \cup {received + 1}
        BY <3>2, <3>3, <3>4, <4>1 DEF SlotType
      <4>. QED  BY <1>2, <3>1, <4>1, <4>2
    <3>5. CASE i \notin Matching(x)
      BY <1>2, <3>1, <3>2, <3>5
    <3>. QED  BY <3>4, <3>5
  <2>. QED  BY <1>1, <2>1 DEF SoundSlots
<1>. QED  BY <1>1, <1>2, <1>3, MoreReceived DEF SoundInv

LEMMA InsertSound ==
  ASSUME TypeOK, SlotInv, SoundInv, NEW x \in Dst, Insert(x)
  PROVE  SoundInv'
<1>1. Receive(x) /\ UNCHANGED <<out, mem, inflight, gather, result>>
  BY DEF Insert, gatherVars
<1>2. /\ SoundTuples' /\ received + 1 \in routed'[x]
      /\ \A z \in Dst : routed[z] \subseteq routed'[z]
  BY <1>1, ReceiveSound
<1>3. ASSUME NEW j \in Slots, vaild_flag[j]
      PROVE  local_buffer[j].y \subseteq routed'[local_buffer[j].x]
  BY <1>2, <1>3 DEF SoundInv, SoundSlots, SlotInv, SlotsServed
<1>4. SoundSlots'
  <2>1. CASE UNCHANGED <<local_buffer, vaild_flag>>
    BY <1>3, <2>1 DEF SoundSlots
  <2>2. ASSUME NEW i \in Slots,
               local_buffer' = [local_buffer EXCEPT
                                  ![i] = [x |-> x, y |-> {received + 1}]],
               vaild_flag' = [vaild_flag EXCEPT ![i] = TRUE]
        PROVE  SoundSlots'
    <3>1. /\ local_buffer'[i].x = x /\ local_buffer'[i].y = {received + 1}
          /\ \A j \in Slots \ {i} : /\ local_buffer'[j] = local_buffer[j]
                                    /\ vaild_flag'[j] = vaild_flag[j]
      BY <2>2 DEF TypeOK
    <3>2. ASSUME NEW j \in Slots, vaild_flag'[j]
          PROVE  local_buffer'[j].y \subseteq routed'[local_buffer'[j].x]
      <4>1. CASE j = i
        BY <1>2, <3>1, <4>1
      <4>2. CASE j # i
        BY <1>3, <3>1, <3>2, <4>2
      <4>. QED  BY <4>1, <4>2
    <3>. QED  BY <3>2 DEF SoundSlots
  <2>. QED  BY <2>1, <2>2 DEF Insert
<1>. QED  BY <1>1, <1>2, <1>4, MoreReceived DEF SoundInv

\* A token that is empty or carries tuples of its own destination may be sent.
LEMMA AppendSound ==
  ASSUME TypeOK, SoundInv, NEW t, out' = Append(out, t),
         t.y = {} \/ (t.x \in Dst /\ t.y \subseteq routed[t.x]),
         UNCHANGED routed
  PROVE  SoundStream'
<1>1. /\ Len(out') = Len(out) + 1 /\ Len(out) \in Nat
      /\ DOMAIN out' = 1 .. Len(out') /\ DOMAIN out = 1 .. Len(out)
      /\ \A k \in 1 .. Len(out) : out'[k] = out[k]
      /\ out'[Len(out) + 1] = t
  BY DEF TypeOK
<1>2. ASSUME NEW k \in DOMAIN out'
      PROVE  out'[k].y = {} \/ (/\ out'[k].x \in Dst
                                /\ out'[k].y \subseteq routed[out'[k].x])
  <2>1. CASE k \in DOMAIN out
    BY <1>1, <2>1 DEF SoundInv, SoundStream
  <2>2. CASE k = Len(out) + 1
    BY <1>1, <2>2
  <2>. QED  BY <1>1, <2>1, <2>2
<1>. QED  BY <1>2 DEF SoundStream

LEMMA SolverSound ==
  ASSUME TypeOK, SlotInv, SoundInv, Solver
  PROVE  SoundInv'
<1>1. /\ UNCHANGED <<local_buffer, mem, inflight, gather, result, routed, received>>
      /\ \A i \in Slots : vaild_flag'[i] => vaild_flag[i]
  <2>1. ASSUME NEW i \in Slots, vaild_flag' = [vaild_flag EXCEPT ![i] = FALSE]
        PROVE  \A j \in Slots : vaild_flag'[j] => vaild_flag[j]
    BY <2>1 DEF TypeOK
  <2>. QED
    BY <2>1
    DEF Solver, Select, EndOfStream, Flush, FlushEnd, gatherVars
<1>2. SoundTuples' /\ SoundSlots' /\ SoundUram' /\ Cleared' /\ ResultSound'
  BY <1>1
  DEF SoundInv, SoundTuples, SoundSlots, SoundUram, Cleared, ResultSound
<1>3. ASSUME NEW i \in Slots, vaild_flag[i]
      PROVE  /\ local_buffer[i].x \in Dst
             /\ local_buffer[i].y \subseteq routed[local_buffer[i].x]
  BY <1>3 DEF SoundInv, SoundSlots, SlotInv, SlotsServed
<1>4. SoundStream'
  <2>0. CASE UNCHANGED out
    BY <1>1, <2>0 DEF SoundInv, SoundStream
  <2>1. CASE Select
    <3>1. ASSUME NEW i \in Sendable,
                 out' = Append(out, Token(local_buffer[i].x, local_buffer[i].y))
          PROVE  SoundStream'
      <4>. DEFINE t == Token(local_buffer[i].x, local_buffer[i].y)
      <4>1. i \in Slots /\ vaild_flag[i]
        BY DEF Sendable
      <4>2. t.x \in Dst /\ t.y \subseteq routed[t.x]
        BY <1>3, <4>1 DEF Token
      <4>. QED  BY <1>1, <3>1, <4>2, AppendSound
    <3>. QED  BY <2>0, <2>1, <3>1 DEF Select, Least
  <2>2. CASE EndOfStream
    BY <2>0, <2>2 DEF EndOfStream
  <2>3. CASE Flush
    <3>1. FlushSlot \in Slots
      BY <2>3 DEF TypeOK, Flush, FlushSlot, Slots
    <3>2. CASE vaild_flag[FlushSlot]
      <4>. DEFINE d == Token(local_buffer[FlushSlot].x + DST_INTERVEL, {})
                  t == Token(local_buffer[FlushSlot].x, local_buffer[FlushSlot].y)
      <4>1. d.y = {}
        BY DEF Token
      <4>2. t.x \in Dst /\ t.y \subseteq routed[t.x]
        BY <1>3, <3>1, <3>2 DEF Token
      <4>3. out' = Append(out, d) \/ out' = Append(out, t)
        BY <2>3, <3>2 DEF Flush
      <4>. HIDE DEF d, t
      <4>. QED  BY <1>1, <4>1, <4>2, <4>3, AppendSound
    <3>3. CASE ~vaild_flag[FlushSlot]
      BY <2>0, <2>3, <3>3 DEF Flush
    <3>. QED  BY <3>2, <3>3
  <2>4. CASE FlushEnd
    <3>1. EndToken.y = {} /\ out' = Append(out, EndToken)
      BY <2>4 DEF FlushEnd, EndToken
    <3>. QED  BY <1>1, <3>1, AppendSound
  <2>. QED  BY <2>1, <2>2, <2>3, <2>4 DEF Solver
<1>. QED  BY <1>1, <1>2, <1>4 DEF SoundInv

\* The accumulation reads and writes the places of one destination only.
LEMMA AccumulateSound ==
  ASSUME TypeOK, SoundInv, HazardInv, Accumulate
  PROVE  SoundUram'
<1>. DEFINE t == Head(out)
            w == Word(t.x)
            v == [mem[w] EXCEPT ![Half(t.x)] = @ \cup t.y]
<1>1. t \in TokenType /\ t = out[1] /\ 1 \in DOMAIN out
  BY TailFacts, TailType DEF Accumulate, TypeOK
<1>2. w \in Words /\ Half(t.x) \in Halves
  BY <1>1, WordRange DEF TokenType
<1>3. t.y = {} \/ (t.x \in Dst /\ t.y \subseteq routed[t.x])
  BY <1>1 DEF SoundInv, SoundStream
<1>4. /\ inflight' = <<[word |-> w, val |-> v]>>
      /\ mem' = Landed /\ routed' = routed
  BY DEF Accumulate
<1>5. mem[w] \in [Halves -> SUBSET Tuples]
  BY <1>2 DEF TypeOK, WordType
<1>6. \A h \in Halves : v[h] = IF h = Half(t.x) THEN mem[w][h] \cup t.y
                                               ELSE mem[w][h]
  BY <1>2, <1>5
<1>. HIDE DEF v
<1>7. ASSUME NEW x \in Dst, w = Word(x)
      PROVE  v[Half(x)] \subseteq routed[x]
  <2>1. mem[w][Half(x)] \subseteq routed[x]
    BY <1>7 DEF SoundInv, SoundUram
  <2>2. Half(x) \in Halves
    BY WordRange, LaneAssumption
  <2>3. CASE t.y = {} \/ Half(x) # Half(t.x)
    BY <1>6, <2>1, <2>2, <2>3
  <2>4. CASE t.x \in Dst /\ t.y \subseteq routed[t.x] /\ Half(x) = Half(t.x)
    <3>1. x = t.x
      BY <1>7, <2>4, PlaceOfOne
    <3>. QED  BY <1>6, <2>1, <2>2, <2>4, <3>1
  <2>. QED  BY <1>3, <2>3, <2>4
<1>8. ASSUME NEW x \in Dst
      PROVE  /\ mem'[Word(x)][Half(x)] \subseteq routed'[x]
             /\ inflight' # <<>> /\ inflight'[1].word = Word(x)
                  => inflight'[1].val[Half(x)] \subseteq routed'[x]
  <2>1. mem'[Word(x)][Half(x)] \subseteq routed'[x]
    BY <1>4, LandedSound DEF SoundInv
  <2>2. inflight'[1].word = w /\ inflight'[1].val = v
    BY <1>4
  <2>. HIDE DEF w
  <2>. QED  BY <1>4, <1>7, <2>1, <2>2
<1>. HIDE DEF w, t
<1>. QED  BY <1>8 DEF SoundUram

LEMMA GatherSound ==
  ASSUME TypeOK, SoundInv, HazardInv, Gather
  PROVE  SoundInv'
<1>1. /\ UNCHANGED <<local_buffer, vaild_flag, routed, received>>
      /\ SoundTuples' /\ SoundSlots'
  BY DEF Gather, Accumulate, Land, WriteOut, solverVars, SoundInv, SoundTuples,
         SoundSlots
<1>2. SoundStream'
  <2>1. CASE UNCHANGED out
    BY <1>1, <2>1 DEF SoundInv, SoundStream
  <2>2. CASE out # <<>> /\ out' = Tail(out)
    <3>1. /\ DOMAIN out' = 1 .. Len(out') /\ DOMAIN out = 1 .. Len(out)
          /\ Len(out') = Len(out) - 1 /\ Len(out) \in Nat
          /\ \A k \in 1 .. Len(out') : out'[k] = out[k + 1]
      BY <2>2, TailFacts DEF TypeOK
    <3>2. ASSUME NEW k \in DOMAIN out'
          PROVE  out'[k].y = {} \/ (/\ out'[k].x \in Dst
                                    /\ out'[k].y \subseteq routed'[out'[k].x])
      <4>1. k + 1 \in DOMAIN out /\ out'[k] = out[k + 1]
        BY <3>1
      <4>. QED  BY <1>1, <4>1 DEF SoundInv, SoundStream
    <3>. QED  BY <3>2 DEF SoundStream
  <2>. QED  BY <2>1, <2>2 DEF Gather, Accumulate, Land, WriteOut
<1>3. CASE Accumulate
  <2>1. SoundUram'
    BY <1>3, AccumulateSound
  <2>2. gather' # "done"
    BY <1>3 DEF Accumulate
  <2>. QED  BY <1>1, <1>2, <2>1, <2>2 DEF SoundInv, Cleared, ResultSound
<1>4. CASE Land
  <2>1. mem' = Landed /\ inflight' = <<>> /\ UNCHANGED <<gather, result>>
    BY <1>4 DEF Land
  <2>2. SoundUram'
    BY <1>1, <2>1, LandedSound DEF SoundInv, SoundUram
  <2>3. gather # "done"
    BY <1>4 DEF Land, HazardInv, Idle
  <2>. QED  BY <1>1, <1>2, <2>1, <2>2, <2>3 DEF SoundInv, Cleared, ResultSound
<1>5. CASE WriteOut
  <2>1. mem' = ZeroMem /\ inflight' = <<>> /\ result' = mem
    BY <1>5 DEF WriteOut
  <2>2. \A x \in Dst : ZeroMem[Word(x)][Half(x)] = {}
    BY WordRange, LaneAssumption DEF ZeroMem
  <2>3. SoundUram'
    BY <2>1, <2>2 DEF SoundUram
  <2>4. ResultSound'
    BY <1>1, <2>1 DEF SoundInv, SoundUram, ResultSound
  <2>. QED  BY <1>1, <1>2, <2>1, <2>3, <2>4 DEF SoundInv, Cleared
<1>. QED  BY <1>3, <1>4, <1>5 DEF Gather

\* Nothing received, buffered or accumulated is sound.
LEMMA EmptySound ==
  ASSUME routed = [x \in Dst |-> {}], vaild_flag = [i \in Slots |-> FALSE],
         out = <<>>, mem = ZeroMem, inflight = <<>>, gather = "loop"
  PROVE  SoundInv
<1>1. \A x \in Dst : ZeroMem[Word(x)][Half(x)] = {}
  BY WordRange, LaneAssumption DEF ZeroMem
<1>2. SoundUram
  BY <1>1 DEF SoundUram
<1>. QED
  BY <1>2
  DEF SoundInv, SoundTuples, SoundSlots, SoundStream, Cleared, ResultSound

LEMMA InitSound == Init => SoundInv
  BY EmptySound DEF Init

LEMMA NextRunSound ==
  ASSUME SoundInv, HazardInv, NextRun
  PROVE  SoundInv'
<1>1. /\ routed' = [x \in Dst |-> {}] /\ vaild_flag' = [i \in Slots |-> FALSE]
      /\ gather' = "loop" /\ gather = "done" /\ UNCHANGED <<out, mem, inflight>>
  BY DEF NextRun
<1>2. out' = <<>> /\ inflight' = <<>> /\ mem' = ZeroMem
  BY <1>1 DEF HazardInv, Idle, SoundInv, Cleared
<1>3. \A x \in Dst : ZeroMem[Word(x)][Half(x)] = {}
  BY WordRange, LaneAssumption DEF ZeroMem
<1>4. SoundUram'
  BY <1>1, <1>2, <1>3 DEF SoundUram
<1>. QED
  BY <1>1, <1>2, <1>4
  DEF SoundInv, SoundTuples, SoundSlots, SoundStream, Cleared, ResultSound

LEMMA NextSound ==
  TypeOK /\ SlotInv /\ HazardInv /\ SoundInv /\ [Next]_vars => SoundInv'
<1>. SUFFICES ASSUME TypeOK, SlotInv, HazardInv, SoundInv, [Next]_vars
              PROVE  SoundInv'
  OBVIOUS
<1>1. CASE Finished \/ UNCHANGED vars
  BY <1>1
  DEF Finished, vars, solverVars, gatherVars, SoundInv, SoundTuples,
      SoundSlots, SoundStream, SoundUram, Cleared, ResultSound
<1>. QED
  BY <1>1, MergeSound, InsertSound, SolverSound, GatherSound, NextRunSound
  DEF Next

\* The lane's four invariants hold together from the start.
LEMMA LaneInvariants == Spec => [](TypeOK /\ SlotInv /\ HazardInv /\ SoundInv)
<1>1. Init => SlotInv /\ HazardInv
  BY DEF Init, SlotInv, SlotsServed, SlotsDistinct, SlotFree, Free, Slots,
         HazardInv, StreamServed, LastSent, EndLast, Idle, HazardFree
<1>. QED
  BY <1>1, InitType, InitSound, NextType, NextSlotInv, NextHazardInv, NextSound,
     PTL DEF Spec

\* What dstPropertyProcess writes out for a destination was received for it in
\* this run: no slot, stream entry or URAM half is credited to a neighbour, and
\* zeroing the buffer leaves nothing of the run before, even where the flush
\* lets two tuples meet in a word.
THEOREM WrittenOutSound == Spec => []ResultSound
<1>1. SoundInv => ResultSound
  BY DEF SoundInv
<1>. QED  BY <1>1, LaneInvariants, PTL
-----------------------------------------------------------------------------
(***************************************************************************)
(* Every tuple received is in exactly one place until the flush.           *)
(***************************************************************************)

BookInv == Accounted /\ CountedOnce

\* A tuple received for x goes to x's slot, and is a new one.
LEMMA ReceiveBooks ==
  ASSUME TypeOK, SoundInv, BookInv, Looping, NEW x \in Dst, Receive(x),
         UNCHANGED <<out, mem, inflight>>,
         \A z \in Dst : Kept(z)' = IF z = x THEN Kept(z) \cup {received + 1}
                                   ELSE Kept(z)
  PROVE  BookInv'
<1>1. \A z \in Dst : routed'[z] = IF z = x THEN routed[z] \cup {received + 1}
                                  ELSE routed[z]
  BY DEF Receive, TypeOK
<1>2. \A z \in Dst : received + 1 \notin routed[z]
  <2>1. received \in Nat
    BY LaneAssumption DEF TypeOK
  <2>2. received + 1 \notin 1 .. received
    BY <2>1
  <2>. QED  BY <2>2 DEF SoundInv, SoundTuples
<1>3. \A z \in Dst : Waiting(z)' = Waiting(z) /\ Stored(z)' = Stored(z)
  BY DEF Waiting, Stored, Landed
<1>4. ASSUME NEW z \in Dst
      PROVE  /\ routed[z] = Kept(z) \cup Waiting(z) \cup Stored(z)
             /\ Kept(z) \cap Waiting(z) = {}
             /\ (Kept(z) \cup Waiting(z)) \cap Stored(z) = {}
  BY DEF BookInv, Accounted, CountedOnce
<1>5. ASSUME NEW z \in Dst
      PROVE  /\ routed'[z] = Kept(z)' \cup Waiting(z)' \cup Stored(z)'
             /\ Kept(z)' \cap Waiting(z)' = {}
             /\ (Kept(z)' \cup Waiting(z)') \cap Stored(z)' = {}
  <2>1. Waiting(z)' = Waiting(z) /\ Stored(z)' = Stored(z)
    BY <1>3
  <2>2. received + 1 \notin Kept(z) \cup Waiting(z) \cup Stored(z)
    BY <1>2, <1>4
  <2>3. CASE z = x
    <3>1. /\ Kept(z)' = Kept(z) \cup {received + 1}
          /\ routed'[z] = routed[z] \cup {received + 1}
      BY <1>1, <2>3
    <3>. QED  BY <1>4, <2>1, <2>2, <3>1
  <2>4. CASE z # x
    <3>1. Kept(z)' = Kept(z) /\ routed'[z] = routed[z]
      BY <1>1, <2>4
    <3>. QED  BY <1>4, <2>1, <3>1
  <2>. QED  BY <2>3, <2>4
<1>6. Accounted'
  BY <1>5 DEF Accounted
<1>7. \A z \in Dst : \A j, k \in DOMAIN out' :
        j # k /\ out'[j].x = z /\ out'[k].x = z => out'[j].y \cap out'[k].y = {}
  BY DEF BookInv, CountedOnce
<1>8. CountedOnce'
  BY <1>5, <1>7 DEF CountedOnce
<1>. QED  BY <1>6, <1>8 DEF BookInv

LEMMA MergeBooks ==
  ASSUME TypeOK, SoundInv, BookInv, NEW x \in Dst, Merge(x)
  PROVE  BookInv'
<1>1. /\ Receive(x) /\ UNCHANGED <<vaild_flag, out, mem, inflight>> /\ Looping
      /\ Matching(x) # {}
  BY DEF Merge, gatherVars, Receive, Looping
<1>2. ASSUME NEW i \in Slots
      PROVE  /\ local_buffer'[i].x = local_buffer[i].x
             /\ local_buffer'[i].y = IF i \in Matching(x)
                                     THEN local_buffer[i].y \cup {received + 1}
                                     ELSE local_buffer[i].y
  BY DEF Merge, TypeOK, SlotType
<1>3. ASSUME NEW z \in Dst  PROVE Matching(z)' = Matching(z)
  BY <1>1, <1>2 DEF Matching
<1>4. ASSUME NEW z \in Dst
      PROVE  Kept(z)' = IF z = x THEN Kept(z) \cup {received + 1} ELSE Kept(z)
  <2>. DEFINE n == received + 1
  <2>1. Matching(z) \subseteq Slots /\ Matching(z)' = Matching(z)
    BY <1>3 DEF Matching
  <2>2. \A m : m \in Kept(z)' <=> \E i \in Matching(z) : m \in local_buffer'[i].y
    BY <2>1 DEF Kept
  <2>3. \A m : m \in Kept(z) <=> \E i \in Matching(z) : m \in local_buffer[i].y
    BY DEF Kept
  <2>4. CASE z = x
    <3>1. \A i \in Matching(z) : local_buffer'[i].y = local_buffer[i].y \cup {n}
      BY <1>2, <2>1, <2>4
    <3>2. \A m : m \in Kept(z)' <=> m \in Kept(z) \/ m = n
      <4>. HIDE DEF n
      <4>. QED  BY <1>1, <2>2, <2>3, <2>4, <3>1
    <3>. QED  BY <2>4, <3>2
  <2>5. CASE z # x
    <3>1. \A i \in Matching(z) : local_buffer'[i].y = local_buffer[i].y
      <4>1. \A i \in Matching(z) : i \notin Matching(x)
        BY <2>5 DEF Matching
      <4>. QED  BY <1>2, <2>1, <4>1
    <3>2. \A m : m \in Kept(z)' <=> m \in Kept(z)
      BY <2>2, <2>3, <3>1
    <3>. QED  BY <2>5, <3>2
  <2>. QED  BY <2>4, <2>5
<1>. QED  BY <1>1, <1>4, ReceiveBooks

LEMMA InsertBooks ==
  ASSUME TypeOK, SlotInv, SoundInv, BookInv, NEW x \in Dst, Insert(x)
  PROVE  BookInv'
<1>1. /\ Receive(x) /\ UNCHANGED <<out, mem, inflight>> /\ Looping
      /\ Matching(x) = {} /\ Free # {}
  BY DEF Insert, gatherVars, Receive, Looping, SlotInv, SlotFree
<1>2. PICK i \in Slots :
        /\ i \in Free
        /\ local_buffer' = [local_buffer EXCEPT
                              ![i] = [x |-> x, y |-> {received + 1}]]
        /\ vaild_flag' = [vaild_flag EXCEPT ![i] = TRUE]
  BY <1>1 DEF Insert, Least
<1>3. /\ ~vaild_flag[i] /\ vaild_flag'[i]
      /\ local_buffer'[i].x = x /\ local_buffer'[i].y = {received + 1}
      /\ \A j \in Slots \ {i} : /\ local_buffer'[j] = local_buffer[j]
                                /\ vaild_flag'[j] = vaild_flag[j]
  BY <1>2 DEF TypeOK, Free
<1>4. ASSUME NEW z \in Dst
      PROVE  Kept(z)' = IF z = x THEN Kept(z) \cup {received + 1} ELSE Kept(z)
  <2>1. CASE z = x
    <3>1. Matching(z)' = {i}
      BY <1>1, <1>3, <2>1 DEF Matching
    <3>2. Kept(z) = {}
      BY <1>1, <2>1 DEF Kept
    <3>. QED  BY <1>3, <2>1, <3>1, <3>2 DEF Kept
  <2>2. CASE z # x
    <3>1. Matching(z)' = Matching(z) /\ i \notin Matching(z)
      BY <1>3, <2>2 DEF Matching
    <3>2. \A j \in Matching(z) : local_buffer'[j] = local_buffer[j]
      BY <1>3, <3>1 DEF Matching
    <3>. QED  BY <2>2, <3>1, <3>2 DEF Kept
  <2>. QED  BY <2>1, <2>2
<1>. QED  BY <1>1, <1>4, ReceiveBooks

\* Sending a token adds its tuples to those on their way, taking the head of
\* the stream removes that token's.
LEMMA WaitingAppend ==
  ASSUME TypeOK, NEW t, out' = Append(out, t), NEW z
  PROVE  Waiting(z)' = IF t.x = z THEN Waiting(z) \cup t.y ELSE Waiting(z)
<1>1. /\ Len(out') = Len(out) + 1 /\ Len(out) \in Nat
      /\ DOMAIN out' = 1 .. Len(out') /\ DOMAIN out = 1 .. Len(out)
      /\ \A k \in 1 .. Len(out) : out'[k] = out[k]
      /\ out'[Len(out) + 1] = t
  BY DEF TypeOK
<1>2. /\ \A m : m \in Waiting(z)' <=>
                  \E k \in DOMAIN out' : out'[k].x = z /\ m \in out'[k].y
      /\ \A m : m \in Waiting(z) <=>
                  \E k \in DOMAIN out : out[k].x = z /\ m \in out[k].y
  BY DEF Waiting
<1>3. DOMAIN out' = DOMAIN out \cup {Len(out) + 1}
  BY <1>1
<1>4. \A m : m \in Waiting(z)' <=> m \in Waiting(z) \/ (t.x = z /\ m \in t.y)
  BY <1>1, <1>2, <1>3
<1>. QED  BY <1>4

LEMMA WaitingTail ==
  ASSUME TypeOK, out # <<>>, out' = Tail(out), NEW z
  PROVE  Waiting(z) = IF Head(out).x = z THEN Head(out).y \cup Waiting(z)'
                                         ELSE Waiting(z)'
<1>1. /\ Len(out') = Len(out) - 1 /\ Len(out) \in Nat
      /\ DOMAIN out = 1 .. Len(out) /\ DOMAIN out' = 1 .. Len(out')
      /\ \A k \in 1 .. Len(out') : out'[k] = out[k + 1]
      /\ Head(out) = out[1] /\ 1 \in DOMAIN out
  BY TailFacts DEF TypeOK
<1>2. /\ \A m : m \in Waiting(z)' <=>
                  \E k \in DOMAIN out' : out'[k].x = z /\ m \in out'[k].y
      /\ \A m : m \in Waiting(z) <=>
                  \E k \in DOMAIN out : out[k].x = z /\ m \in out[k].y
  BY DEF Waiting
<1>3. /\ \A k \in DOMAIN out' : k + 1 \in DOMAIN out
      /\ \A k \in DOMAIN out : k = 1 \/ (k - 1 \in DOMAIN out' /\ (k - 1) + 1 = k)
  BY <1>1
<1>4. \A m : m \in Waiting(z) <=>
               (Head(out).x = z /\ m \in Head(out).y) \/ m \in Waiting(z)'
  <2>1. ASSUME NEW m, m \in Waiting(z), m \notin Waiting(z)'
        PROVE  Head(out).x = z /\ m \in Head(out).y
    <3>1. PICK k \in DOMAIN out : out[k].x = z /\ m \in out[k].y
      BY <1>2, <2>1
    <3>2. CASE k = 1
      BY <1>1, <3>1, <3>2
    <3>3. CASE k # 1
      <4>1. k - 1 \in DOMAIN out' /\ out'[k - 1] = out[k]
        BY <1>1, <1>3, <3>3
      <4>. QED  BY <1>2, <2>1, <3>1, <4>1
    <3>. QED  BY <3>2, <3>3
  <2>2. ASSUME NEW m, m \in Waiting(z)'  PROVE m \in Waiting(z)
    <3>1. PICK k \in DOMAIN out' : out'[k].x = z /\ m \in out'[k].y
      BY <1>2, <2>2
    <3>2. k + 1 \in DOMAIN out /\ out'[k] = out[k + 1]
      BY <1>1, <1>3
    <3>. QED  BY <1>2, <3>1, <3>2
  <2>3. ASSUME NEW m, Head(out).x = z, m \in Head(out).y
        PROVE  m \in Waiting(z)
    BY <1>1, <1>2, <2>3
  <2>. QED  BY <2>1, <2>2, <2>3
<1>. QED  BY <1>4

\* No two tokens for z share a tuple.
TokensApart(z) ==
  \A j, k \in DOMAIN out :
    j # k /\ out[j].x = z /\ out[k].x = z => out[j].y \cap out[k].y = {}

LEMMA SelectBooks ==
  ASSUME TypeOK, SlotInv, BookInv, Select
  PROVE  BookInv'
<1>1. /\ Looping /\ UNCHANGED <<local_buffer, mem, inflight, routed>>
  BY DEF Select, Looping, gatherVars
<1>2. \A z \in Dst : Stored(z)' = Stored(z)
  BY <1>1 DEF Stored, Landed
<1>3. ASSUME NEW z \in Dst
      PROVE  /\ routed[z] = Kept(z) \cup Waiting(z) \cup Stored(z)
             /\ Kept(z) \cap Waiting(z) = {}
             /\ (Kept(z) \cup Waiting(z)) \cap Stored(z) = {}
             /\ TokensApart(z)
  BY <1>1 DEF BookInv, Accounted, CountedOnce, TokensApart
<1>4. CASE UNCHANGED <<vaild_flag, out>>
  <2>1. /\ \A z \in Dst : Kept(z)' = Kept(z) /\ Waiting(z)' = Waiting(z)
        /\ \A z \in Dst : TokensApart(z)' <=> TokensApart(z)
    BY <1>1, <1>4 DEF Kept, Matching, Waiting, TokensApart
  <2>. QED  BY <1>1, <1>2, <1>3, <2>1
            DEF BookInv, Accounted, CountedOnce, TokensApart
<1>5. ASSUME NEW i \in Sendable,
             vaild_flag' = [vaild_flag EXCEPT ![i] = FALSE],
             out' = Append(out, Token(local_buffer[i].x, local_buffer[i].y))
      PROVE  BookInv'
  <2>. DEFINE x == local_buffer[i].x
              t == Token(x, local_buffer[i].y)
  <2>1. /\ i \in Slots /\ vaild_flag[i] /\ x \in Dst
        /\ t.x = x /\ t.y = local_buffer[i].y
    BY DEF Sendable, SlotInv, SlotsServed, Token
  <2>2. /\ ~vaild_flag'[i]
        /\ \A j \in Slots \ {i} : vaild_flag'[j] = vaild_flag[j]
    BY <1>5 DEF TypeOK, Sendable
  <2>3. ASSUME NEW z \in Dst
        PROVE  /\ z = x => Kept(z) = t.y /\ Kept(z)' = {}
               /\ z # x => Kept(z)' = Kept(z)
    <3>1. CASE z = x
      <4>1. Matching(z) = {i} /\ Matching(z)' = {}
        BY <1>1, <2>1, <2>2, <3>1 DEF Matching, SlotInv, SlotsDistinct
      <4>. QED  BY <2>1, <3>1, <4>1 DEF Kept
    <3>2. CASE z # x
      <4>1. Matching(z)' = Matching(z)
        BY <1>1, <2>1, <2>2, <3>2 DEF Matching
      <4>. QED  BY <1>1, <3>2, <4>1 DEF Kept
    <3>. QED  BY <3>1, <3>2
  <2>. HIDE DEF t
  <2>4. ASSUME NEW z \in Dst
        PROVE  Waiting(z)' = IF z = x THEN Waiting(z) \cup t.y ELSE Waiting(z)
    <3>1. out' = Append(out, t)
      BY <1>5 DEF t
    <3>. QED  BY <2>1, <3>1, WaitingAppend
  <2>5. ASSUME NEW z \in Dst
        PROVE  /\ routed[z] = Kept(z)' \cup Waiting(z)' \cup Stored(z)
               /\ Kept(z)' \cap Waiting(z)' = {}
               /\ (Kept(z)' \cup Waiting(z)') \cap Stored(z) = {}
    <3>1. CASE z = x
      BY <1>3, <2>3, <2>4, <3>1
    <3>2. CASE z # x
      BY <1>3, <2>3, <2>4, <3>2
    <3>. QED  BY <3>1, <3>2
  <2>6. ASSUME NEW z \in Dst  PROVE TokensApart(z)'
    <3>1. /\ Len(out') = Len(out) + 1 /\ Len(out) \in Nat
          /\ DOMAIN out' = 1 .. Len(out') /\ DOMAIN out = 1 .. Len(out)
          /\ \A k \in 1 .. Len(out) : out'[k] = out[k]
          /\ out'[Len(out) + 1] = t
      BY <1>5 DEF TypeOK, t
    <3>2. DOMAIN out' = DOMAIN out \cup {Len(out) + 1}
      BY <3>1
    <3>3. ASSUME NEW k \in DOMAIN out, out[k].x = z, z = x
          PROVE  out[k].y \cap t.y = {}
      <4>1. out[k].y \subseteq Waiting(z)
        BY <3>3 DEF Waiting
      <4>. QED  BY <1>3, <2>3, <3>3, <4>1
    <3>4. ASSUME NEW j \in DOMAIN out', NEW k \in DOMAIN out', j # k,
                 out'[j].x = z, out'[k].x = z
          PROVE  out'[j].y \cap out'[k].y = {}
      <4>1. CASE j \in DOMAIN out /\ k \in DOMAIN out
        BY <1>3, <3>1, <3>4, <4>1 DEF TokensApart
      <4>2. CASE j \in DOMAIN out /\ k = Len(out) + 1
        BY <2>1, <3>1, <3>3, <3>4, <4>2
      <4>3. CASE k \in DOMAIN out /\ j = Len(out) + 1
        BY <2>1, <3>1, <3>3, <3>4, <4>3
      <4>. QED  BY <3>2, <3>4, <4>1, <4>2, <4>3
    <3>. QED  BY <3>4 DEF TokensApart
  <2>7. Accounted'
    BY <1>1, <1>2, <2>5 DEF Accounted
  <2>8. CountedOnce'
    BY <1>2, <2>5, <2>6 DEF CountedOnce, TokensApart
  <2>. QED  BY <2>7, <2>8 DEF BookInv
<1>. QED  BY <1>4, <1>5 DEF Select, Least

\* An iteration of the accumulation moves the head of the stream into its
\* destination's half and disturbs no other: the word it reads is not the one
\* still being written.
LEMMA AccumulateStores ==
  ASSUME TypeOK, HazardInv, Looping, Accumulate, NEW z \in Dst
  PROVE  Stored(z)' = IF Head(out).x = z THEN Stored(z) \cup Head(out).y
                                         ELSE Stored(z)
<1>. DEFINE t == Head(out)
            w == Word(t.x)
            v == [mem[w] EXCEPT ![Half(t.x)] = @ \cup t.y]
<1>1. t = out[1] /\ 1 \in DOMAIN out /\ out # <<>>
  BY TailFacts DEF Accumulate, TypeOK
<1>2. t.x \in Dst
  BY <1>1 DEF HazardInv, StreamServed
<1>3. /\ w \in Words /\ Half(t.x) \in Halves
      /\ Word(z) \in Words /\ Half(z) \in Halves
  BY <1>2, WordRange, LaneAssumption
<1>4. mem' = Landed /\ inflight' = <<[word |-> w, val |-> v]>>
  BY DEF Accumulate
<1>5. Landed[w] = mem[w]
  <2>1. inflight # <<>> => inflight[1].word # w
    BY <1>1 DEF HazardInv, HazardFree
  <2>. HIDE DEF w
  <2>. QED  BY <1>3, <2>1 DEF Landed
<1>6. mem[w] \in [Halves -> SUBSET Tuples]
  BY <1>3 DEF TypeOK, WordType
<1>7. \A h \in Halves : v[h] = IF h = Half(t.x) THEN mem[w][h] \cup t.y
                                               ELSE mem[w][h]
  BY <1>3, <1>6
<1>. HIDE DEF v
<1>8. Landed'[Word(z)] = IF Word(z) = w THEN v ELSE Landed[Word(z)]
  <2>1. /\ inflight' # <<>> /\ inflight'[1].word = w /\ inflight'[1].val = v
    BY <1>4
  <2>. HIDE DEF w
  <2>. QED  BY <1>3, <1>4, <2>1 DEF Landed
<1>9. Stored(z)' = IF Word(z) = w THEN v[Half(z)] ELSE Stored(z)
  BY <1>8 DEF Stored
<1>10. CASE Word(z) = w
  <2>1. Stored(z) = mem[w][Half(z)]
    BY <1>5, <1>10 DEF Stored
  <2>2. z = t.x <=> Half(z) = Half(t.x)
    BY <1>2, <1>10, PlaceOfOne
  <2>. QED  BY <1>3, <1>7, <1>9, <1>10, <2>1, <2>2
<1>11. CASE Word(z) # w
  BY <1>9, <1>11
<1>. QED  BY <1>10, <1>11

LEMMA AccumulateBooks ==
  ASSUME TypeOK, HazardInv, BookInv, Looping, Accumulate
  PROVE  BookInv'
<1>. DEFINE t == Head(out)
<1>1. /\ UNCHANGED <<local_buffer, vaild_flag, routed>>
      /\ out # <<>> /\ out' = Tail(out)
  BY DEF Accumulate, solverVars
<1>2. \A z \in Dst : Kept(z)' = Kept(z)
  BY <1>1 DEF Kept, Matching
<1>3. ASSUME NEW z \in Dst
      PROVE  /\ Waiting(z) = IF t.x = z THEN t.y \cup Waiting(z)' ELSE Waiting(z)'
             /\ Stored(z)' = IF t.x = z THEN Stored(z) \cup t.y ELSE Stored(z)
  BY <1>1, WaitingTail, AccumulateStores
<1>4. ASSUME NEW z \in Dst
      PROVE  /\ routed[z] = Kept(z) \cup Waiting(z) \cup Stored(z)
             /\ Kept(z) \cap Waiting(z) = {}
             /\ (Kept(z) \cup Waiting(z)) \cap Stored(z) = {}
             /\ TokensApart(z)
  BY DEF BookInv, Accounted, CountedOnce, TokensApart
<1>5. /\ DOMAIN out = 1 .. Len(out) /\ DOMAIN out' = 1 .. Len(out')
      /\ Len(out') = Len(out) - 1 /\ Len(out) \in Nat
      /\ \A k \in 1 .. Len(out') : out'[k] = out[k + 1]
      /\ t = out[1] /\ 1 \in DOMAIN out
  BY <1>1, TailFacts DEF TypeOK
<1>. HIDE DEF t
<1>6. ASSUME NEW k \in DOMAIN out'
      PROVE  k + 1 \in DOMAIN out /\ k + 1 # 1 /\ out'[k] = out[k + 1]
  BY <1>5
<1>7. ASSUME NEW z \in Dst  PROVE TokensApart(z)'
  <2>1. ASSUME NEW j \in DOMAIN out', NEW k \in DOMAIN out', j # k,
               out'[j].x = z, out'[k].x = z
        PROVE  out'[j].y \cap out'[k].y = {}
    <3>1. j + 1 # k + 1
      BY <1>5, <2>1
    <3>. QED  BY <1>4, <1>6, <2>1, <3>1 DEF TokensApart
  <2>. QED  BY <2>1 DEF TokensApart
<1>8. ASSUME NEW z \in Dst, t.x = z  PROVE t.y \cap Waiting(z)' = {}
  <2>1. ASSUME NEW m, m \in t.y, m \in Waiting(z)'  PROVE FALSE
    <3>1. PICK k \in DOMAIN out' : out'[k].x = z /\ m \in out'[k].y
      BY <2>1 DEF Waiting
    <3>2. out[1].y \cap out[k + 1].y = {}
      BY <1>4, <1>5, <1>6, <1>8, <3>1 DEF TokensApart
    <3>. QED  BY <1>5, <1>6, <2>1, <3>1, <3>2
  <2>. QED  BY <2>1
<1>9. ASSUME NEW z \in Dst
      PROVE  /\ routed[z] = Kept(z) \cup Waiting(z)' \cup Stored(z)'
             /\ Kept(z) \cap Waiting(z)' = {}
             /\ (Kept(z) \cup Waiting(z)') \cap Stored(z)' = {}
  <2>1. CASE t.x = z
    BY <1>3, <1>4, <1>8, <2>1
  <2>2. CASE t.x # z
    BY <1>3, <1>4, <2>2
  <2>. QED  BY <2>1, <2>2
<1>10. Accounted'
  BY <1>1, <1>2, <1>9 DEF Accounted
<1>11. CountedOnce'
  BY <1>2, <1>7, <1>9 DEF CountedOnce, TokensApart
<1>. QED  BY <1>10, <1>11 DEF BookInv

\* A write reaching the URAM changes what mem holds, not what is stored.
LEMMA LandBooks ==
  ASSUME TypeOK, BookInv, Looping, Land
  PROVE  BookInv'
<1>1. /\ mem' = Landed /\ inflight' = <<>>
      /\ UNCHANGED <<local_buffer, vaild_flag, phase, out, routed>>
  BY DEF Land, solverVars
<1>2. Landed' = Landed
  BY <1>1 DEF Landed
<1>3. ASSUME NEW z \in Dst
      PROVE  /\ Kept(z)' = Kept(z) /\ Waiting(z)' = Waiting(z)
             /\ Stored(z)' = Stored(z)
  BY <1>1, <1>2 DEF Kept, Matching, Waiting, Stored
<1>4. Accounted'
  BY <1>1, <1>3 DEF BookInv, Accounted
<1>5. CountedOnce'
  BY <1>1, <1>3 DEF BookInv, CountedOnce
<1>. QED  BY <1>4, <1>5 DEF BookInv

\* An empty lane has nothing to account for.
LEMMA EmptyBooks ==
  /\ routed = [x \in Dst |-> {}] /\ vaild_flag = [i \in Slots |-> FALSE]
  /\ out = <<>> /\ mem = ZeroMem /\ inflight = <<>>
  => BookInv
<1>. SUFFICES ASSUME routed = [x \in Dst |-> {}],
                     vaild_flag = [i \in Slots |-> FALSE],
                     out = <<>>, mem = ZeroMem, inflight = <<>>
              PROVE  BookInv
  OBVIOUS
<1>1. ASSUME NEW z \in Dst
      PROVE  Kept(z) = {} /\ Waiting(z) = {} /\ Stored(z) = {}
  <2>1. Matching(z) = {} /\ DOMAIN out = {}
    BY DEF Matching
  <2>2. Word(z) \in Words /\ Half(z) \in Halves
    BY WordRange, LaneAssumption
  <2>. QED  BY <2>1, <2>2 DEF Kept, Waiting, Stored, Landed, ZeroMem
<1>2. Accounted
  BY <1>1 DEF Accounted
<1>3. CountedOnce
  BY <1>1 DEF CountedOnce
<1>. QED  BY <1>2, <1>3 DEF BookInv

LEMMA EmptyBooksNext ==
  (/\ routed = [x \in Dst |-> {}] /\ vaild_flag = [i \in Slots |-> FALSE]
   /\ out = <<>> /\ mem = ZeroMem /\ inflight = <<>>)'
  => BookInv'
  BY EmptyBooks, PTL

LEMMA NextBooks ==
  /\ TypeOK /\ SlotInv /\ HazardInv /\ SoundInv /\ BookInv /\ [Next]_vars
  => BookInv'
<1>. SUFFICES ASSUME TypeOK, SlotInv, HazardInv, SoundInv, BookInv, [Next]_vars
              PROVE  BookInv'
  OBVIOUS
<1>1. CASE \E x \in Dst : Merge(x) \/ Insert(x)
  BY <1>1, MergeBooks, InsertBooks
<1>2. CASE Select
  BY <1>2, SelectBooks
<1>3. CASE EndOfStream \/ Flush \/ FlushEnd
  <2>1. ~Looping'
    BY <1>3 DEF EndOfStream, Flush, FlushEnd, Looping
  <2>. QED  BY <2>1 DEF BookInv, Accounted, CountedOnce
<1>4. CASE Gather
  <2>1. phase' = phase /\ (Looping' <=> Looping)
    BY <1>4 DEF Gather, Accumulate, Land, WriteOut, solverVars, Looping
  <2>2. CASE ~Looping
    BY <2>1, <2>2 DEF BookInv, Accounted, CountedOnce
  <2>3. CASE Looping /\ WriteOut
    <3>1. Head(out).end /\ Head(out) = out[1] /\ 1 \in DOMAIN out
      BY <2>3, TailFacts DEF WriteOut, TypeOK
    <3>. QED  BY <2>3, <3>1 DEF HazardInv, StreamServed
  <2>. QED  BY <1>4, <2>2, <2>3, AccumulateBooks, LandBooks DEF Gather
<1>5. CASE NextRun
  <2>1. /\ routed' = [x \in Dst |-> {}]
        /\ vaild_flag' = [i \in Slots |-> FALSE]
        /\ gather = "done" /\ UNCHANGED <<out, mem, inflight>>
    BY <1>5 DEF NextRun
  <2>2. out' = <<>> /\ inflight' = <<>> /\ mem' = ZeroMem
    BY <2>1 DEF HazardInv, Idle, SoundInv, Cleared
  <2>. QED  BY <2>1, <2>2, EmptyBooksNext
<1>6. CASE Finished \/ UNCHANGED vars
  <2>1. UNCHANGED vars
    BY <1>6 DEF Finished
  <2>2. \A z \in Dst : /\ Kept(z)' = Kept(z) /\ Waiting(z)' = Waiting(z)
                       /\ Stored(z)' = Stored(z)
    BY <2>1 DEF vars, solverVars, gatherVars, Kept, Matching, Waiting, Stored,
                Landed
  <2>3. UNCHANGED <<out, routed>> /\ (Looping' <=> Looping)
    BY <2>1 DEF vars, solverVars, Looping
  <2>4. Accounted'
    BY <2>2, <2>3 DEF BookInv, Accounted
  <2>5. CountedOnce'
    BY <2>2, <2>3 DEF BookInv, CountedOnce
  <2>. QED  BY <2>4, <2>5 DEF BookInv
<1>. QED  BY <1>1, <1>2, <1>3, <1>4, <1>5, <1>6 DEF Next, Solver

LEMMA Books == Spec => []BookInv
<1>1. Init => BookInv
  BY EmptyBooks DEF Init
<1>. QED  BY <1>1, LaneInvariants, NextBooks, PTL DEF Spec

\* Until the flush no tuple is lost: what was received for a destination is in
\* its slot, in the stream or accumulated, however the two loops interleave and
\* whenever a write reaches the URAM.
THEOREM AllAccounted == Spec => []Accounted
<1>1. BookInv => Accounted
  BY DEF BookInv
<1>. QED  BY <1>1, Books, PTL

\* ... and in one of these places only: a sum never counts a tuple twice.
THEOREM NothingCountedTwice == Spec => []CountedOnce
<1>1. BookInv => CountedOnce
  BY DEF BookInv
<1>. QED  BY <1>1, Books, PTL
=============================================================================
