------------------------------- MODULE Apply -------------------------------
(***************************************************************************)
(* From the accumulation lanes to the new vertex properties: the write-out *)
(* of a gather-scatter kernel (processEdgeWrite) and the whole dataflow of *)
(* the apply kernel vertexApply, one concurrent process per HLS function,  *)
(* for one partition after another.  The streams are the bounded queues of *)
(* the code and a word is a function from lanes to values.                 *)
(*                                                                         *)
(* A value names what it was made from: an accumulated property is the set *)
(* of the updates <<unit, destination>> folded into it, a vertex property  *)
(* or an out-degree is its vertex, a new property the record of all three. *)
(***************************************************************************)
EXTENDS Integers, Sequences, FiniteSets, FiniteSetsExt

CONSTANTS
  CuNum,          \* SUB_PARTITION_NUM, gather-scatter kernels
  PeNum,          \* PE_NUM lanes, and SIZE_BY_INT values of a word
  BurstBuffer,    \* BURSTBUFFERSIZE, words a reader fetches at a time
  BurstWrite,     \* BURST_WRITE_SIZE, WRITE_BACK_BURST_LENGTH, words
  MaxVertices,    \* MAX_VERTICES_IN_ONE_PARTITION
  CompressedNum,  \* info->compressedVertexNum
  Active          \* the vertices applyFunc reports as active

Cus       == 0 .. CuNum - 1
Lanes     == 0 .. PeNum - 1
AlignSize == BurstBuffer * PeNum
BlkNum    == (CompressedNum + MaxVertices - 1) \div MaxVertices
Part      == 0 .. BlkNum - 1
Vertices  == 0 .. BlkNum * MaxVertices - 1

\* What global_config.h and the generator make of the sizes: powers of two,
\* a partition of whole bursts and whole read buffers.
ASSUME ApplyAssumption ==
  /\ {CuNum, PeNum, BurstBuffer, BurstWrite, MaxVertices, CompressedNum}
       \subseteq Nat \ {0}
  /\ BurstWrite % 2 = 0
  /\ BurstBuffer % BurstWrite = 0
  /\ MaxVertices % AlignSize = 0
  /\ \E k \in 0 .. MaxVertices : MaxVertices = 2 ^ k  \* the mask of Row
  /\ Active \subseteq Vertices

VARIABLES
  phase,       \* "idle", "gather", "writeOut" or "apply"
  todo, part,  \* partitions not begun, the current one
  cu,          \* the unit whose kernel writes out
  tmpVPropBuffer,           \* unit -> lane -> address -> <<lsb, msb>>
  sent, writeArrayLayer1,   \* lane -> addresses sent; lane -> stream
  sliced, writeArray,       \* lane -> pairs passed on; lane -> stream
  writeBuffer, bursts,      \* words of a burst, bursts written (i)
  tmpProp,     \* partition -> unit -> word address -> word
  vertexNum, addrOffset,    \* arguments of the apply kernel
  chunk, readBuffer,        \* reader -> loop variable i; what it has fetched
  stream,      \* reader -> its output stream
  merged, tmpStream,        \* unit -> loop counter of cuMerge; its output
  applied, infoArray,       \* applyFunction: loop counter, lane -> count
  newStream, newArray,      \* its output; unit -> the copy for its memory
  duplicated,  \* loop counter of cuDuplicate
  ram, counter,             \* unit -> writeBackLite's buffer and counter
  newProp,     \* unit -> word address -> word: the property memory of the step
  outReg       \* partition -> the result its kernel stored, -1 before

writeVars == <<sent, writeArrayLayer1, sliced, writeArray, writeBuffer, bursts>>
readVars  == <<chunk, readBuffer, stream>>
applyVars == <<merged, tmpStream, applied, infoArray, newStream>>
backVars  == <<newArray, duplicated, ram, counter>>
vars == <<phase, todo, part, cu, tmpVPropBuffer, writeVars, tmpProp, vertexNum,
          addrOffset, readVars, applyVars, backVars, newProp, outReg>>
-----------------------------------------------------------------------------
Depth    == 2    \* of the streams between the processes
DepthNew == 2    \* newVertexPropStream, 16 in the code
DepthOf(r) == 2  \* vertexPropStream 128, outDegreeStream 256, the others 2

\* The streams a reader feeds: one of the vertex properties, one of the
\* out-degrees and one per unit with its accumulated properties.
VertexProp    == <<"vertexProp", 0>>
OutDegree     == <<"outDegree", 0>>
TmpProp(u)    == <<"tmpVertexProp", u>>
Readers == {VertexProp, OutDegree} \cup {TmpProp(u) : u \in Cus}

Addresses == 0 .. MaxVertices \div (2 * PeNum) - 1   \* of a lane's buffer
WordsOf(n) == 0 .. n \div PeNum - 1

Unset   == {}                       \* a value nobody has written
NoWord  == [l \in Lanes |-> Unset]  \* also the accumulated zero
Empty   == [l \in Lanes |-> [a \in Addresses |-> <<{}, {}>>]]

\* A stream that takes a word when it is full.
HasRoomForOneMore(s, depth) == Len(s) <= depth

HasRoom(s, depth) == Len(s) < depth

\* What applyFunc makes of a property, an out-degree and the updates.
NewValue(own, deg, updates) == [own |-> own, deg |-> deg, updates |-> updates]
OldWord == [l \in Lanes |-> NewValue(-1, -1, {})]

DstVertexStart(p) == p * MaxVertices
DstVertexEnd(p) ==
  (IF (p + 1) * MaxVertices > CompressedNum THEN CompressedNum
   ELSE (p + 1) * MaxVertices) - 1

Init ==
  /\ phase = "idle" /\ todo = Part /\ part = 0 /\ cu = 0
  /\ tmpVPropBuffer = [u \in Cus |-> Empty]
  /\ sent = [l \in Lanes |-> 0] /\ writeArrayLayer1 = [l \in Lanes |-> <<>>]
  /\ sliced = [l \in Lanes |-> 0] /\ writeArray = [l \in Lanes |-> <<>>]
  /\ writeBuffer = <<>> /\ bursts = 0
  /\ tmpProp = [p \in Part |-> [u \in Cus |-> [w \in WordsOf(MaxVertices) |-> NoWord]]]
  /\ vertexNum = 0 /\ addrOffset = 0
  /\ chunk = [r \in Readers |-> 0]
  /\ readBuffer = [r \in Readers |-> <<>>] /\ stream = [r \in Readers |-> <<>>]
  /\ merged = [u \in Cus |-> 0] /\ tmpStream = [u \in Cus |-> <<>>]
  /\ applied = 0 /\ infoArray = [l \in Lanes |-> 0] /\ newStream = <<>>
  /\ newArray = [u \in Cus |-> <<>>] /\ duplicated = 0
  /\ ram = [u \in Cus |-> <<>>] /\ counter = [u \in Cus |-> 0]
  /\ newProp = [u \in Cus |-> [w \in WordsOf(BlkNum * MaxVertices) |-> OldWord]]
  /\ outReg = [p \in Part |-> -1]
-----------------------------------------------------------------------------
\* The partitions are executed in the order of the scheduler: any.
Begin(p) ==
  /\ phase = "idle" /\ p \in todo
  /\ phase' = "gather" /\ part' = p /\ todo' = todo \ {p} /\ cu' = 0
  /\ UNCHANGED <<tmpVPropBuffer, writeVars, tmpProp, vertexNum, addrOffset,
                 readVars, applyVars, backVars, newProp, outReg>>

\* Where an update for destination d is accumulated.
LaneOf(d)    == d % PeNum
Row(d)       == (d \div PeNum) % (MaxVertices \div PeNum)
AddressOf(d) == Row(d) \div 2
Half(d)      == IF Row(d) % 2 = 1 THEN 2 ELSE 1

\* The unit has accumulated one update for every destination.
Gather ==
  LET dst == DstVertexStart(part) .. DstVertexEnd(part)
      At(l, a, h) == {<<cu, d>> : d \in {e \in dst : LaneOf(e) = l
                                        /\ AddressOf(e) = a /\ Half(e) = h}}
  IN /\ phase = "gather"
     /\ phase' = "writeOut"
     /\ tmpVPropBuffer' = [tmpVPropBuffer EXCEPT ![cu] =
          [l \in Lanes |-> [a \in Addresses |->
             <<@[l][a][1] \cup At(l, a, 1), @[l][a][2] \cup At(l, a, 2)>>]]]
     /\ sent' = [l \in Lanes |-> 0] /\ sliced' = [l \in Lanes |-> 0] /\ bursts' = 0
     /\ UNCHANGED <<todo, part, cu, writeArrayLayer1, writeArray, writeBuffer, tmpProp,
                    vertexNum, addrOffset, readVars, applyVars, backVars, newProp, outReg>>

\* The end of dstPropertyProcess: a lane sends its buffer and clears it.
LaneWrite(l) ==
  /\ phase = "writeOut"
  /\ sent[l] \in Addresses
  /\ HasRoom(writeArrayLayer1[l], Depth)
  /\ writeArrayLayer1' = [writeArrayLayer1 EXCEPT ![l] =
                            Append(@, tmpVPropBuffer[cu][l][sent[l]])]
  /\ tmpVPropBuffer' = [tmpVPropBuffer EXCEPT ![cu][l][sent[l]] = <<{}, {}>>]
  /\ sent' = [sent EXCEPT ![l] = @ + 1]
  /\ UNCHANGED <<phase, todo, part, cu, sliced, writeArray, writeBuffer, bursts, tmpProp,
                 vertexNum, addrOffset, readVars, applyVars, backVars, newProp, outReg>>

\* processEdgesSlice passes on as many pairs as the lane has addresses; it has
\* no end flag to look for.
SliceWrite(l) ==
  /\ phase = "writeOut"
  /\ sliced[l] \in Addresses
  /\ writeArrayLayer1[l] # <<>> /\ HasRoom(writeArray[l], Depth)
  /\ writeArray' = [writeArray EXCEPT ![l] = Append(@, Head(writeArrayLayer1[l]))]
  /\ writeArrayLayer1' = [writeArrayLayer1 EXCEPT ![l] = Tail(@)]
  /\ sliced' = [sliced EXCEPT ![l] = @ + 1]
  /\ UNCHANGED <<phase, todo, part, cu, tmpVPropBuffer, sent, writeBuffer, bursts, tmpProp,
                 vertexNum, addrOffset, readVars, applyVars, backVars, newProp, outReg>>

AllBursts == MaxVertices \div (BurstWrite * PeNum)

\* processEdgeWrite takes one value pair of every lane and makes two words.
CollectRow ==
  /\ phase = "writeOut"
  /\ bursts < AllBursts
  /\ Len(writeBuffer) < BurstWrite
  /\ \A l \in Lanes : writeArray[l] # <<>>
  /\ writeBuffer' = writeBuffer \o [h \in 1 .. 2 |->
                      [l \in Lanes |-> Head(writeArray[l])[h]]]
  /\ writeArray' = [l \in Lanes |-> Tail(writeArray[l])]
  /\ UNCHANGED <<phase, todo, part, cu, tmpVPropBuffer, sent, writeArrayLayer1, sliced,
                 bursts, tmpProp, vertexNum, addrOffset, readVars, applyVars, backVars,
                 newProp, outReg>>

\* The burst of words written at i << LOG2_BURST_WRITE_SIZE.
WriteBurst ==
  /\ phase = "writeOut"
  /\ Len(writeBuffer) = BurstWrite
  /\ tmpProp' = [tmpProp EXCEPT ![part][cu] = [w \in DOMAIN @ |->
       IF w \div BurstWrite = bursts THEN writeBuffer[(w % BurstWrite) + 1] ELSE @[w]]]
  /\ bursts' = bursts + 1 /\ writeBuffer' = <<>>
  /\ UNCHANGED <<phase, todo, part, cu, tmpVPropBuffer, sent, writeArrayLayer1, sliced,
                 writeArray, vertexNum, addrOffset, readVars, applyVars, backVars,
                 newProp, outReg>>
-----------------------------------------------------------------------------
RoundedNum(p) ==
  ((DstVertexEnd(p) - DstVertexStart(p)) \div AlignSize + 1) * AlignSize

\* applyFunction's counters without their loop of zeroes.
InfoKept == infoArray

InfoStart == [l \in Lanes |-> 0]

\* The end of the unit's kernel; after the last one setApplyKernel and the
\* start of the apply kernel.
EndWriteOut ==
  /\ phase = "writeOut"
  /\ bursts = AllBursts
  /\ \A l \in Lanes : sent[l] \notin Addresses /\ sliced[l] \notin Addresses
  /\ IF cu + 1 < CuNum
     THEN /\ cu' = cu + 1 /\ phase' = "gather"
          /\ UNCHANGED <<vertexNum, addrOffset, readVars, applyVars, backVars>>
     ELSE /\ cu' = 0 /\ phase' = "apply"
          /\ vertexNum' = RoundedNum(part)
          /\ addrOffset' = DstVertexStart(part)
          /\ chunk' = [r \in Readers |-> 0]
          /\ merged' = [u \in Cus |-> 0]
          /\ applied' = 0 /\ infoArray' = InfoStart
          /\ duplicated' = 0 /\ counter' = [u \in Cus |-> 0]
          /\ UNCHANGED <<readBuffer, stream, tmpStream, newStream, newArray, ram>>
  /\ UNCHANGED <<todo, part, tmpVPropBuffer, writeVars, tmpProp, newProp, outReg>>

stageVars == <<phase, todo, part, cu, tmpVPropBuffer, writeVars, tmpProp,
               vertexNum, addrOffset>>
LoopNum == vertexNum \div PeNum   \* vertexNum >> 4

\* The chunks of burstReadLite if every memory were read at the offset.
FirstChunkOffset(r) == addrOffset \div AlignSize

\* burstReadLite: the chunks from offset on, end of them.  The accumulated
\* properties of a partition start at 0 of their own memory.
FirstChunk(r) ==
  (IF r \in {VertexProp, OutDegree} THEN addrOffset ELSE 0) \div AlignSize
ChunkNum == (vertexNum - 1) \div AlignSize + 1

\* What lies at word w of the memory a reader reads.
Memory(r, w) ==
  IF r \in {VertexProp, OutDegree} THEN [l \in Lanes |-> w * PeNum + l]
  ELSE IF w \in WordsOf(MaxVertices) THEN tmpProp[part][r[2]][w]
       ELSE NoWord

ReadChunk(r) ==
  /\ phase = "apply"
  /\ chunk[r] < ChunkNum /\ readBuffer[r] = <<>>
  /\ readBuffer' = [readBuffer EXCEPT ![r] = [k \in 1 .. BurstBuffer |->
       Memory(r, (FirstChunk(r) + chunk[r]) * BurstBuffer + k - 1)]]
  /\ chunk' = [chunk EXCEPT ![r] = @ + 1]
  /\ UNCHANGED <<stageVars, stream, applyVars, backVars, newProp, outReg>>

EmitWord(r) ==
  /\ phase = "apply"
  /\ readBuffer[r] # <<>> /\ HasRoom(stream[r], DepthOf(r))
  /\ stream' = [stream EXCEPT ![r] = Append(@, Head(readBuffer[r]))]
  /\ readBuffer' = [readBuffer EXCEPT ![r] = Tail(@)]
  /\ UNCHANGED <<stageVars, chunk, applyVars, backVars, newProp, outReg>>
-----------------------------------------------------------------------------
\* cuMerge folds the unit's word into what comes from the unit before.  The
\* first unit's second input, tmpVertexPropStream[0], has no writer: reading
\* it gives zero and does not wait.
Merge(u) ==
  LET before == IF u = 0 THEN NoWord ELSE Head(tmpStream[u - 1])
      word   == Head(stream[TmpProp(u)])
  IN /\ phase = "apply"
     /\ merged[u] < LoopNum
     /\ stream[TmpProp(u)] # <<>>
     /\ u > 0 => tmpStream[u - 1] # <<>>
     /\ HasRoom(tmpStream[u], Depth)
     /\ tmpStream' = [v \in Cus |->
          IF v = u THEN Append(tmpStream[u], [l \in Lanes |-> before[l] \cup word[l]])
          ELSE IF v = u - 1 THEN Tail(tmpStream[v]) ELSE tmpStream[v]]
     /\ stream' = [stream EXCEPT ![TmpProp(u)] = Tail(@)]
     /\ merged' = [merged EXCEPT ![u] = @ + 1]
     /\ UNCHANGED <<stageVars, chunk, readBuffer, applied, infoArray, newStream,
                    backVars, newProp, outReg>>

\* What applyFunc reports in its info word.
Info(v) == IF v \in Active THEN 1 ELSE 0

\* One word of applyFunction.
ApplyWord ==
  LET own   == Head(stream[VertexProp])
      deg   == Head(stream[OutDegree])
      accum == Head(tmpStream[CuNum - 1])
  IN /\ phase = "apply"
     /\ applied < LoopNum
     /\ stream[VertexProp] # <<>> /\ stream[OutDegree] # <<>>
     /\ tmpStream[CuNum - 1] # <<>>
     /\ HasRoom(newStream, DepthNew)
     /\ newStream' = Append(newStream,
                            [l \in Lanes |-> NewValue(own[l], deg[l], accum[l])])
     /\ infoArray' = [l \in Lanes |-> infoArray[l] + Info(own[l])]
     /\ stream' = [stream EXCEPT ![VertexProp] = Tail(@), ![OutDegree] = Tail(@)]
     /\ tmpStream' = [tmpStream EXCEPT ![CuNum - 1] = Tail(@)]
     /\ applied' = applied + 1
     /\ UNCHANGED <<stageVars, chunk, readBuffer, merged, backVars, newProp, outReg>>

\* cuDuplicate: the word goes to the memory of every unit.
Duplicate ==
  /\ phase = "apply"
  /\ duplicated < LoopNum /\ newStream # <<>>
  /\ \A u \in Cus : HasRoom(newArray[u], Depth)
  /\ newArray' = [u \in Cus |-> Append(newArray[u], Head(newStream))]
  /\ newStream' = Tail(newStream)
  /\ duplicated' = duplicated + 1
  /\ UNCHANGED <<stageVars, readVars, merged, tmpStream, applied, infoArray, ram,
                 counter, newProp, outReg>>

\* The bursts of a writer that counts a started one as well.
BackBurstsUp == (vertexNum \div BurstWrite) \div PeNum + 1

BackBursts == (vertexNum \div BurstWrite) \div PeNum

\* writeBackLite fills its buffer ...
FillBack(u) ==
  /\ phase = "apply"
  /\ counter[u] < BackBursts /\ Len(ram[u]) < BurstWrite
  /\ newArray[u] # <<>>
  /\ ram' = [ram EXCEPT ![u] = Append(@, Head(newArray[u]))]
  /\ newArray' = [newArray EXCEPT ![u] = Tail(@)]
  /\ UNCHANGED <<stageVars, readVars, applyVars, duplicated, counter, newProp, outReg>>

\* The first word of the burst if the counter is left out.
BackAtStart(u) == addrOffset \div PeNum

BackAt(u) == addrOffset \div PeNum + counter[u] * BurstWrite

\* ... and writes it behind what it has written, from addrOffset >> 4 on.
WriteBack(u) ==
  LET at == BackAt(u)
  IN /\ phase = "apply"
     /\ Len(ram[u]) = BurstWrite
     /\ newProp' = [newProp EXCEPT ![u] = [w \in DOMAIN @ |->
          IF w - at \in 0 .. BurstWrite - 1 THEN ram[u][w - at + 1] ELSE @[w]]]
     /\ ram' = [ram EXCEPT ![u] = <<>>]
     /\ counter' = [counter EXCEPT ![u] = @ + 1]
     /\ UNCHANGED <<stageVars, readVars, applyVars, newArray, duplicated, outReg>>

\* The kernel ends when every process has; applyFunction stores the result.
KernelDone ==
  /\ \A r \in Readers : chunk[r] = ChunkNum /\ readBuffer[r] = <<>>
  /\ \A u \in Cus : merged[u] = LoopNum /\ counter[u] = BackBursts
  /\ applied = LoopNum /\ duplicated = LoopNum

EndApply ==
  /\ phase = "apply" /\ KernelDone
  /\ phase' = "idle"
  /\ outReg' = [outReg EXCEPT ![part] = MapThenSumSet(LAMBDA l : infoArray[l], Lanes)]
  /\ UNCHANGED <<todo, part, cu, tmpVPropBuffer, writeVars, tmpProp, vertexNum,
                 addrOffset, readVars, applyVars, backVars, newProp>>

\* The super-step is over; nothing more happens here.
Finished == phase = "idle" /\ todo = {} /\ UNCHANGED vars

Step ==
  \/ \E p \in Part : Begin(p)
  \/ Gather \/ CollectRow \/ WriteBurst \/ EndWriteOut
  \/ \E l \in Lanes : LaneWrite(l) \/ SliceWrite(l)
  \/ \E r \in Readers : ReadChunk(r) \/ EmitWord(r)
  \/ \E u \in Cus : Merge(u) \/ FillBack(u) \/ WriteBack(u)
  \/ ApplyWord \/ Duplicate \/ EndApply

Next == Step \/ Finished

Spec == Init /\ [][Next]_vars

\* The processes are circuits of their own: one that can step does.  A step
\* is lost to no other, so that fairness of the whole is enough.
FairSpec == Spec /\ WF_vars(Step)
-----------------------------------------------------------------------------
(***************************************************************************)
(* Properties.                                                             *)
(***************************************************************************)
\* Every process is inside its loop and no stream above its depth.
TypeOK ==
  /\ phase \in {"idle", "gather", "writeOut", "apply"}
  /\ todo \subseteq Part /\ part \in Part /\ cu \in Cus
  /\ bursts \in 0 .. AllBursts /\ Len(writeBuffer) \in 0 .. BurstWrite
  /\ \A l \in Lanes : /\ sent[l] \in Nat /\ Len(writeArrayLayer1[l]) \in 0 .. Depth
                      /\ sliced[l] \in Nat /\ Len(writeArray[l]) \in 0 .. Depth
  /\ vertexNum \in 0 .. MaxVertices /\ addrOffset \in Vertices
  /\ \A r \in Readers : /\ chunk[r] \in 0 .. MaxVertices \div AlignSize
                        /\ Len(readBuffer[r]) \in 0 .. BurstBuffer
                        /\ Len(stream[r]) \in 0 .. DepthOf(r)
  /\ \A u \in Cus : /\ Len(tmpStream[u]) \in 0 .. Depth
                    /\ Len(newArray[u]) \in 0 .. Depth
                    /\ Len(ram[u]) \in 0 .. BurstWrite
  /\ Len(newStream) \in 0 .. DepthNew

Done(p) == p \notin todo /\ ~(phase # "idle" /\ part = p)
ValueAt(u, v) == newProp[u][v \div PeNum][v % PeNum]

\* When a partition's kernel has ended, the new property of each of its
\* vertices stands in the memory of every unit, at the vertex's own place,
\* made of this vertex's old property and out-degree and of this vertex's
\* updates from every unit, each once and none of another partition.  It
\* crosses three layouts: lanes and rows of uram words, bursts of the
\* accumulated array from 0, and bursts of the property array from the
\* partition's offset.
NewPropertiesOwn ==
  \A p \in Part : Done(p) =>
    \A v \in DstVertexStart(p) .. DstVertexEnd(p), u \in Cus :
      ValueAt(u, v) = NewValue(v, v, {<<c, v>> : c \in Cus})

\* The result register of a partition that is done holds its active vertices,
\* those of the rounded size included, and none of the partition before it:
\* applyFunction's counters start again with each kernel.
ActiveCounted ==
  \A p \in Part : Done(p) =>
    outReg[p] = Cardinality({v \in Active :
                   v - DstVertexStart(p) \in 0 .. RoundedNum(p) - 1})

\* The rounding up of a partition's size never makes its kernel write a word
\* of another partition, and no word is written twice in a super-step: the
\* bursts of writeBackLite tile the property array.
WordsWrittenOnce ==
  [][\A u \in Cus : \A w \in DOMAIN newProp[u] :
       newProp'[u][w] # newProp[u][w] =>
         newProp[u][w] = OldWord /\ (w * PeNum) \div MaxVertices = part]_vars

\* The loop counts of the readers, the merges, applyFunction, cuDuplicate and
\* the writers are computed apart from the same vertexNum: with streams of
\* their depths no process is left waiting and every partition is finished.
AllApplied == <>[](phase = "idle" /\ todo = {})
=============================================================================
