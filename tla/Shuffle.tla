------------------------------ MODULE Shuffle ------------------------------
(***************************************************************************)
(* The streams from the source cache to the lanes (libfpga/fpga_gs_top.h): *)
(* propProcess or propProcessSelf combines each edge with its own          *)
(* property, two levels of duplicateStream4 give every tuple to every      *)
(* lane, shuffleEntry picks the edges of one lane, two slices and          *)
(* tupleFilter turn them into single tokens, and rawSolver reads these.    *)
(*                                                                         *)
(* Every process runs until it has seen an end flag.  The cache sends its  *)
(* end block as two tuples that both carry the flag, so the process behind *)
(* it has one tuple too many, and throws it away (clear_stream).           *)
(*                                                                         *)
(* An edge is its destination, whether its update is active, and its       *)
(* place: the number of its tuple and its position in it.  An edge         *)
(* property is the number of the tuple it belongs to.                      *)
(***************************************************************************)
EXTENDS Integers, SequencesExt

CONSTANTS
  PE_NUM,    \* lanes
  EDGE_NUM,  \* edges in a tuple
  LAYER1,    \* outputs of the first duplicateStream4
  Lists,     \* lists of tuples the kernel may be started on
  Junk,      \* what the data of an end tuple may be
  PadDst,    \* ENDFLAG - 1, the destination of padding
  Depth      \* stream -> its depth

Lanes     == 0 .. PE_NUM - 1
Layer1    == 0 .. LAYER1 - 1
Positions == 1 .. EDGE_NUM
Streams   == {"edgePropSliceStream", "halfPropStream", "edgeTuplesBuffer",
              "edgeTuplesCoupled", "edgeTuplesLayer1", "edgeTuplesArray",
              "toFilterArraySlice", "toFilterArray", "toFilterArraySlice2",
              "buildArray", "buildArraySlice"}
Processes == {"half", "prop", "dup", "dup4", "entry", "slice", "slice2",
              "filter", "build", "solver"}

Tuples == [Positions -> [x : Nat, active : BOOLEAN]]

\* Lists are cut at multiples of a burst, two tuples a block; padding comes
\* last.
ASSUME ShuffleAssumption ==
  /\ {PE_NUM, EDGE_NUM, LAYER1} \subseteq Nat \ {0}
  /\ PE_NUM % LAYER1 = 0
  /\ Depth \in [Streams -> Nat \ {0}]
  /\ Lists \subseteq Seq(Tuples) /\ Junk \subseteq Tuples
  /\ \A s \in Lists :
       /\ s # <<>> /\ Len(s) % 2 = 0
       /\ \A m, n \in DOMAIN s, j, k \in Positions :
            s[m][j].x = PadDst /\ (m < n \/ (m = n /\ j < k)) => s[n][k].x = PadDst

VARIABLES
  list,          \* the list of this invocation, and what end tuples hold
  junk,
  haveEdgeProp,  \* HAVE_EDGE_PROP of the build
  fed,           \* tuples readEdgesStage has written
  bursts,        \* bursts of edge properties burstRead has written
  second,        \* halfEdgeProp is between its two writes
  chan,          \* stream -> index -> contents
  emit,          \* lane -> tokens tupleFilter has still to write
  pc,            \* process -> index -> "loop", "clear", "clearProp" or "done"
  sent,          \* history: lane -> its active edges among those fed
  taken          \* history: lane -> edges rawSolver has accepted

inputVars == <<list, junk, haveEdgeProp>>
vars == <<inputVars, fed, sent, bursts, second, chan, emit, pc, taken>>
-----------------------------------------------------------------------------
\* The streams and processes there is one of have index 0.
Width(name) ==
  CASE name \in {"edgePropSliceStream", "halfPropStream", "edgeTuplesBuffer",
                 "edgeTuplesCoupled", "half", "prop", "dup"} -> {0}
    [] name \in {"edgeTuplesLayer1", "dup4"} -> Layer1
    [] OTHER -> Lanes

HasItem(s, i) == chan[s][i] # <<>>
Item(s, i)    == Head(chan[s][i])
HasRoomForOneMore(s, I) == \A i \in I : Len(chan[s][i]) <= Depth[s]
HasRoom(s, I) == \A i \in I : Len(chan[s][i]) < Depth[s]
Popped(s, i)  == [chan EXCEPT ![s][i] = Tail(@)]

Written(c, s, I, v) ==
  [c EXCEPT ![s] = [i \in DOMAIN @ |-> IF i \in I THEN Append(@[i], v) ELSE @[i]]]

In(p, i, where) == pc[p][i] = where
Goto(p, i, where) == pc' = [pc EXCEPT ![p][i] = where]
StopAfter(p, i, item) == IF item.end THEN Goto(p, i, "done") ELSE UNCHANGED pc

Running  == [p \in Processes |-> [i \in Width(p) |-> "loop"]]
NoTokens == [l \in Lanes |-> <<>>]

Init ==
  /\ list \in Lists /\ junk \in Junk /\ haveEdgeProp \in BOOLEAN
  /\ fed = 0 /\ bursts = 0 /\ second = FALSE
  /\ chan = [s \in Streams |-> [i \in Width(s) |-> <<>>]]
  /\ emit = NoTokens /\ sent = NoTokens /\ taken = NoTokens
  /\ pc = Running
-----------------------------------------------------------------------------
\* What lane l is to get out of tuple t: its active edges, in order.
RouteOf(t, no, l) ==
  LET mine == SelectSeq([k \in Positions |-> k],
                        LAMBDA k : t[k].active /\ t[k].x % PE_NUM = l) IN
    [j \in DOMAIN mine |-> [x |-> t[mine[j]].x, at |-> <<no, mine[j]>>]]

\* readEdgesStage writes the tuples of the list, then the two halves of the
\* end block, both with the flag.
TuplesToFeed == Len(list) + 2

FeedTuple ==
  /\ fed < TuplesToFeed
  /\ HasRoom("edgeTuplesBuffer", {0})
  /\ fed' = fed + 1
  /\ LET end == fed' > Len(list) IN
       chan' = Written(chan, "edgeTuplesBuffer", {0},
                 [no |-> fed', prop |-> 0, end |-> end,
                  edges |-> IF end THEN junk ELSE list[fed']])
  /\ sent' = IF fed < Len(list)
             THEN [l \in Lanes |-> sent[l] \o RouteOf(list[fed + 1], fed + 1, l)]
             ELSE sent
  /\ UNCHANGED <<inputVars, bursts, second, emit, pc, taken>>

\* burstRead and its slices: the properties of the edges, two tuples a burst,
\* and an end token.
FeedProp ==
  /\ haveEdgeProp
  /\ 2 * bursts < TuplesToFeed
  /\ HasRoom("edgePropSliceStream", {0})
  /\ bursts' = bursts + 1
  /\ chan' = Written(chan, "edgePropSliceStream", {0},
               [no |-> bursts', end |-> 2 * bursts' = TuplesToFeed])
  /\ UNCHANGED <<inputVars, fed, sent, second, emit, pc, taken>>

\* halfEdgeProp writes the two halves of a burst one after the other.
HalfEdgeProp ==
  /\ haveEdgeProp
  /\ In("half", 0, "loop")
  /\ HasItem("edgePropSliceStream", 0) /\ HasRoom("halfPropStream", {0})
  /\ LET b == Item("edgePropSliceStream", 0)
         c == IF second THEN Popped("edgePropSliceStream", 0) ELSE chan IN
       /\ chan' = Written(c, "halfPropStream", {0},
                    IF second THEN 2 * b.no ELSE 2 * b.no - 1)
       /\ IF second THEN StopAfter("half", 0, b) ELSE UNCHANGED pc
  /\ second' = ~second
  /\ UNCHANGED <<inputVars, fed, sent, bursts, emit, taken>>

\* edgePropCouple: a tuple meets the next half burst of edge properties;
\* without edge properties (propProcessSelf) it goes on alone.
Couple ==
  /\ In("prop", 0, "loop")
  /\ HasItem("edgeTuplesBuffer", 0) /\ HasRoom("edgeTuplesCoupled", {0})
  /\ haveEdgeProp => HasItem("halfPropStream", 0)
  /\ LET t == Item("edgeTuplesBuffer", 0)
         c == IF haveEdgeProp
              THEN [Popped("edgeTuplesBuffer", 0) EXCEPT !["halfPropStream"][0] = Tail(@)]
              ELSE Popped("edgeTuplesBuffer", 0) IN
       /\ chan' = Written(c, "edgeTuplesCoupled", {0},
                    IF haveEdgeProp THEN [t EXCEPT !.prop = Item("halfPropStream", 0)]
                                    ELSE t)
       /\ IF t.end THEN Goto("prop", 0, "clear") ELSE UNCHANGED pc
  /\ UNCHANGED <<inputVars, fed, sent, bursts, second, emit, taken>>

AfterTuplesForgetting == "done"
AfterTuples == IF haveEdgeProp THEN "clearProp" ELSE "done"

\* clear_stream, of the tuples and then of the edge properties, reads until
\* the writer has long been silent.
ClearTuples ==
  /\ In("prop", 0, "clear")
  /\ \/ /\ HasItem("edgeTuplesBuffer", 0)
        /\ chan' = Popped("edgeTuplesBuffer", 0)
        /\ UNCHANGED pc
     \/ /\ ~HasItem("edgeTuplesBuffer", 0) /\ fed = TuplesToFeed
        /\ Goto("prop", 0, AfterTuples)
        /\ UNCHANGED chan
  /\ UNCHANGED <<inputVars, fed, sent, bursts, second, emit, taken>>

ClearProps ==
  /\ In("prop", 0, "clearProp")
  /\ \/ /\ HasItem("halfPropStream", 0)
        /\ chan' = Popped("halfPropStream", 0)
        /\ UNCHANGED pc
     \/ /\ ~HasItem("halfPropStream", 0) /\ In("half", 0, "done")
        /\ Goto("prop", 0, "done")
        /\ UNCHANGED chan
  /\ UNCHANGED <<inputVars, fed, sent, bursts, second, emit, taken>>
-----------------------------------------------------------------------------
\* duplicateStream4, filterSlice and processEdgesBuildSlice: an item is
\* written to every output, and the one with the flag is the last.
Forward(p, i, from, to, outputs) ==
  /\ In(p, i, "loop")
  /\ HasItem(from, i) /\ HasRoom(to, outputs)
  /\ chan' = Written(Popped(from, i), to, outputs, Item(from, i))
  /\ StopAfter(p, i, Item(from, i))
  /\ UNCHANGED <<inputVars, fed, sent, bursts, second, emit, taken>>

Group(i) == {l \in Lanes : l \div (PE_NUM \div LAYER1) = i}

Duplicate ==
  \/ Forward("dup", 0, "edgeTuplesCoupled", "edgeTuplesLayer1", Layer1)
  \/ \E i \in Layer1 : Forward("dup4", i, "edgeTuplesLayer1", "edgeTuplesArray", Group(i))

Slice(l) ==
  \/ Forward("slice", l, "toFilterArraySlice", "toFilterArray", {l})
  \/ Forward("slice2", l, "toFilterArray", "toFilterArraySlice2", {l})
  \/ Forward("build", l, "buildArray", "buildArraySlice", {l})

\* The tables of shuffleDecoder, a row for every opcode: how many bits are
\* set, and their positions in ascending order, three bits each.
SetBits(opcode) == {j \in 0 .. 7 : (opcode \div 2 ^ j) % 2 = 1}
lutNum == [opcode \in 0 .. 255 |-> Cardinality(SetBits(opcode))]
lutIdx == [opcode \in 0 .. 255 |->
  MapThenSumSet(
    LAMBDA j : j * 8 ^ Cardinality({i \in SetBits(opcode) : i < j}),
    SetBits(opcode))]

\* shuffleEntry: a bit for every edge of the tuple that is the lane's and
\* active, and the edges its row of the tables names.
valid_r(t, l, k) == t.edges[k].x % PE_NUM = l /\ t.edges[k].active
OpcodeOf(S)  == MapThenSumSet(LAMBDA k : 2 ^ (k - 1), S)
Opcode(t, l) == OpcodeOf({k \in Positions : valid_r(t, l, k)})
Unpacked(opcode) ==
  [j \in 1 .. lutNum[opcode] |-> ((lutIdx[opcode] \div 8 ^ (j - 1)) % 8) + 1]

\* Mutant: edges that are not active are taken as well.
DecodedAll(t, l) ==
  SelectSeq([k \in Positions |-> k], LAMBDA k : t.edges[k].x % PE_NUM = l)

Decoded(t, l) == Unpacked(Opcode(t, l))

\* The row of an opcode names the positions of its bits, in their order.
RowsRight(edgeNum) ==
  \A S \in SUBSET (1 .. edgeNum) :
    LET idx == Unpacked(OpcodeOf(S)) IN
      /\ idx \in Seq(S) /\ Len(idx) = Cardinality(S)
      /\ \A j, k \in DOMAIN idx : j < k => idx[j] < idx[k]

ASSUME DecoderAssumption == RowsRight(EDGE_NUM)

Data(t, k) == [x |-> t.edges[k].x, at |-> <<t.no, k>>]

\* shuffleDispatcher: is the tuple passed on?
DispatchedIfAny(t, idx) == idx # <<>>
Dispatched(t, idx) == idx # <<>> \/ t.end

\* shuffleEntry: the lane's edges of a tuple go on together, a tuple without
\* any is dropped, an end tuple goes on with the first word of its data.
ShuffleEntry(l) ==
  /\ In("entry", l, "loop")
  /\ HasItem("edgeTuplesArray", l)
  /\ LET t   == Item("edgeTuplesArray", l)
         idx == Decoded(t, l) IN
       /\ IF Dispatched(t, idx)
          THEN /\ HasRoom("toFilterArraySlice", {l})
               /\ chan' = Written(Popped("edgeTuplesArray", l), "toFilterArraySlice", {l},
                    [end |-> t.end,
                     data |-> IF t.end
                              THEN <<Data(t, IF idx = <<>> THEN 1 ELSE idx[1])>>
                              ELSE [j \in DOMAIN idx |-> Data(t, idx[j])]])
          ELSE chan' = Popped("edgeTuplesArray", l)
       /\ StopAfter("entry", l, t)
  /\ UNCHANGED <<inputVars, fed, sent, bursts, second, emit, taken>>

TokensBackwards(f) ==
  LET n == Len(f.data) IN
    [j \in 1 .. n |-> [data |-> f.data[n + 1 - j], end |-> j = n /\ f.end]]

Tokens(f) ==
  LET n == Len(f.data) IN
    [j \in 1 .. n |-> [data |-> f.data[j], end |-> j = n /\ f.end]]

\* tupleFilter reads an item and writes its edges one by one; the last one
\* carries the item's flag.
FilterRead(l) ==
  /\ In("filter", l, "loop")
  /\ emit[l] = <<>>
  /\ HasItem("toFilterArraySlice2", l)
  /\ emit' = [emit EXCEPT ![l] = Tokens(Item("toFilterArraySlice2", l))]
  /\ chan' = Popped("toFilterArraySlice2", l)
  /\ UNCHANGED <<inputVars, fed, sent, bursts, second, pc, taken>>

FilterWrite(l) ==
  /\ emit[l] # <<>>
  /\ HasRoom("buildArray", {l})
  /\ chan' = Written(chan, "buildArray", {l}, Head(emit[l]))
  /\ emit' = [emit EXCEPT ![l] = Tail(@)]
  /\ StopAfter("filter", l, Head(emit[l]))
  /\ UNCHANGED <<inputVars, fed, sent, bursts, second, taken>>

\* rawSolver accepts edges up to the end or the first padding, then throws
\* away what still comes (empty_stream).
Solve(l) ==
  /\ In("solver", l, "loop")
  /\ HasItem("buildArraySlice", l)
  /\ LET token == Item("buildArraySlice", l) IN
       IF token.end \/ token.data.x = PadDst
       THEN Goto("solver", l, "clear") /\ UNCHANGED taken
       ELSE /\ taken' = [taken EXCEPT ![l] = Append(@, token.data)]
            /\ UNCHANGED pc
  /\ chan' = Popped("buildArraySlice", l)
  /\ UNCHANGED <<inputVars, fed, sent, bursts, second, emit>>

EmptyStreamImpatient(l) ==
  /\ In("solver", l, "clear")
  /\ \/ /\ HasItem("buildArraySlice", l)
        /\ chan' = Popped("buildArraySlice", l)
        /\ UNCHANGED pc
     \/ /\ ~HasItem("buildArraySlice", l)
        /\ Goto("solver", l, "done")
        /\ UNCHANGED chan
  /\ UNCHANGED <<inputVars, fed, sent, bursts, second, emit, taken>>

EmptyStream(l) ==
  /\ In("solver", l, "clear")
  /\ \/ /\ HasItem("buildArraySlice", l)
        /\ chan' = Popped("buildArraySlice", l)
        /\ UNCHANGED pc
     \/ /\ ~HasItem("buildArraySlice", l) /\ In("build", l, "done")
        /\ Goto("solver", l, "done")
        /\ UNCHANGED chan
  /\ UNCHANGED <<inputVars, fed, sent, bursts, second, emit, taken>>
-----------------------------------------------------------------------------
Done ==
  /\ fed = TuplesToFeed
  /\ haveEdgeProp => 2 * bursts = TuplesToFeed /\ In("half", 0, "done")
  /\ \A p \in Processes \ {"half"} : \A i \in Width(p) : In(p, i, "done")

\* The kernel returns and is started again; what is left in a stream stays.
NextRun ==
  /\ Done
  /\ list' \in Lists /\ junk' \in Junk
  /\ fed' = 0 /\ bursts' = 0 /\ second' = FALSE
  /\ pc' = Running
  /\ emit' = NoTokens /\ sent' = NoTokens /\ taken' = NoTokens
  /\ UNCHANGED <<haveEdgeProp, chan>>

Lane(l) == \/ ShuffleEntry(l) \/ Slice(l) \/ FilterRead(l) \/ FilterWrite(l)
           \/ Solve(l) \/ EmptyStream(l)

Kernel == \/ FeedTuple \/ FeedProp \/ HalfEdgeProp \/ Couple \/ ClearTuples
          \/ ClearProps \/ Duplicate
          \/ \E l \in Lanes : Lane(l)

Next == Kernel \/ NextRun

Spec == Init /\ [][Next]_vars

\* An invocation is a finite number of steps, each of which a process that
\* acts when it can will take: it is enough that one of them acts.
FairSpec == Spec /\ WF_vars(Kernel)
-----------------------------------------------------------------------------
TupleStreams == {"edgeTuplesBuffer", "edgeTuplesCoupled", "edgeTuplesLayer1", "edgeTuplesArray"}
TupleType(s) == \A i \in Width(s) : \A n \in DOMAIN chan[s][i] :
                  LET t == chan[s][i][n] IN
                    /\ t.edges \in Tuples /\ t.no \in 1 .. TuplesToFeed
                    /\ t.prop \in 0 .. TuplesToFeed /\ t.end \in BOOLEAN

\* Types, and the depth of every stream.
TypeOK ==
  /\ list \in Lists /\ junk \in Junk /\ haveEdgeProp \in BOOLEAN
  /\ fed \in 0 .. TuplesToFeed /\ 2 * bursts \in 0 .. TuplesToFeed
  /\ \A s \in Streams : \A i \in Width(s) : Len(chan[s][i]) <= Depth[s]
  /\ \A s \in TupleStreams : TupleType(s)
  /\ \A l \in Lanes : Len(emit[l]) <= EDGE_NUM
  /\ \A p \in Processes : \A i \in Width(p) :
       pc[p][i] \in {"loop", "clear", "clearProp", "done"}

\* Tuples and edge properties come from two memories at their own pace and
\* are paired by nothing but their order: every edge still meets its own
\* property, in each invocation.
Coupled ==
  haveEdgeProp =>
    \A n \in DOMAIN chan["edgeTuplesCoupled"][0] :
      LET t == chan["edgeTuplesCoupled"][0][n] IN t.prop = t.no

\* All that is on its way to lane l, from the lane back to the cache.
TuplesFor(s, i, l) ==
  FlattenSeq([n \in DOMAIN chan[s][i] |->
    LET t == chan[s][i][n] IN IF t.end THEN <<>> ELSE RouteOf(t.edges, t.no, l)])

ItemsIn(s, l) ==
  FlattenSeq([n \in DOMAIN chan[s][l] |->
    IF chan[s][l][n].end THEN <<>> ELSE chan[s][l][n].data])

TokensIn(tokens) ==
  FlattenSeq([n \in DOMAIN tokens |->
    IF tokens[n].end THEN <<>> ELSE <<tokens[n].data>>])

InFlight(l) ==
  TokensIn(chan["buildArraySlice"][l]) \o TokensIn(chan["buildArray"][l])
    \o TokensIn(emit[l]) \o ItemsIn("toFilterArraySlice2", l)
    \o ItemsIn("toFilterArray", l) \o ItemsIn("toFilterArraySlice", l)
    \o TuplesFor("edgeTuplesArray", l, l)
    \o TuplesFor("edgeTuplesLayer1", l \div (PE_NUM \div LAYER1), l)
    \o TuplesFor("edgeTuplesCoupled", 0, l) \o TuplesFor("edgeTuplesBuffer", 0, l)

ListTuples == UNION {{[t |-> s[n], no |-> n] : n \in DOMAIN s} : s \in Lists}
AllBatches == {[l \in Lanes |-> RouteOf(b.t, b.no, l)] : b \in ListTuples}
AllItems   == UNION {UNION {ToSet(b[l]) : l \in Lanes} : b \in AllBatches}

Accepts == [l \in Lanes |-> In("solver", l, "loop")]

R == INSTANCE Router WITH
       Items   <- AllItems,
       Padding <- {i \in AllItems : i.x = PadDst},
       Batches <- AllBatches,
       queue   <- [l \in Lanes |-> IF Accepts[l] THEN InFlight(l) ELSE <<>>],
       open    <- Accepts,
       ended   <- fed > Len(list)

\* What RouterDelivers assumes of the router's edges and tuples.
ASSUME BatchesAssumption == R!RouterAssumption

\* The tree of streams is a router: seen from outside, each tuple puts its
\* active edges into the queues of their lanes at once, and every step inside
\* moves edges without losing, doubling or overtaking.
Routes == R!Spec

\* When a lane has seen its end it has accepted every real edge of the list
\* that is its own, in the order of the list, and no junk.
Delivered ==
  Done => \A l \in Lanes : taken[l] = SelectSeq(sent[l], LAMBDA i : i.x # PadDst)

\* A kernel that has returned has left nothing in its streams: neither the
\* second half of the end block nor what comes behind padding can be taken
\* for input by the next invocation.
NothingLeft == Done => \A s \in Streams : \A i \in Width(s) : chan[s][i] = <<>>

\* Every invocation comes to its end: the flag reaches all lanes, also those
\* whose last edges came long before, and no full stream holds up another.
Completes == (fed = 0) ~> Done
=============================================================================
