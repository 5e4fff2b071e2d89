---------------------------- MODULE Shuffle_proofs ----------------------------
(***************************************************************************)
(* Proof, for any number of lanes, edges in a tuple, lists, depths of the  *)
(* streams and invocations, that the types are right, that an edge meets   *)
(* its own property, and that a kernel that has returned has left its      *)
(* streams empty.                                                          *)
(*                                                                         *)
(* Two ideas carry the proof.  In front of propProcess everything is       *)
(* counted: a stream holds consecutive tuples, bursts or halves, and until *)
(* the end tuple as many halves as tuples have been taken.  Behind it an   *)
(* end flag is the last item of its stream, its writer has stopped, and    *)
(* its reader stops at it: what is left over is nothing.                   *)
(***************************************************************************)
EXTENDS Shuffle, SequenceTheorems, FiniteSetTheorems, TLAPS

Edges == [x : Nat, at : Nat \X Positions]

TupleItems(T) == [no : 1 .. T, prop : 0 .. T, end : BOOLEAN, edges : Tuples]
BurstItems  == [no : Nat, end : BOOLEAN]
FilterItems == {f \in [end : BOOLEAN, data : Seq(Edges)] : Len(f.data) \in 1 .. EDGE_NUM}
TokenItems  == [data : Edges, end : BOOLEAN]

\* What a stream carries.
Contents(s, T) ==
  CASE s \in TupleStreams -> TupleItems(T)
    [] s = "edgePropSliceStream" -> BurstItems
    [] s = "halfPropStream" -> Nat
    [] s \in {"toFilterArraySlice", "toFilterArray", "toFilterArraySlice2"} -> FilterItems
    [] OTHER -> TokenItems

ChanOK(c, T) ==
  /\ c = [s \in Streams |-> c[s]]
  /\ \A s \in Streams :
       /\ c[s] \in [Width(s) -> Seq(Contents(s, T))]
       /\ \A i \in Width(s) : Len(c[s][i]) <= Depth[s]

Places == {"loop", "clear", "clearProp", "done"}

PcOK(q) ==
  /\ q = [p \in Processes |-> q[p]]
  /\ \A p \in Processes :
       q[p] \in [Width(p) -> Places]

InputsOK == list \in Lists /\ junk \in Junk /\ haveEdgeProp \in BOOLEAN

\* The front: tuples, bursts and halves in their order.
Numbered(c, f) == \A n \in DOMAIN c : c[n].no = f + n

FedTuples == {t \in TupleItems(TuplesToFeed) : t.end <=> t.no > Len(list)}
FedBursts == {b \in BurstItems : b.end <=> 2 * b.no = TuplesToFeed}

TuplesInOrder(c) ==
  LET B == c["edgeTuplesBuffer"][0] IN
    B \in Seq(FedTuples) /\ Len(B) <= fed /\ Numbered(B, fed - Len(B))

BurstsInOrder(c) ==
  LET P == c["edgePropSliceStream"][0] IN
    P \in Seq(FedBursts) /\ Len(P) <= bursts /\ Numbered(P, bursts - Len(P))

\* Halves halfEdgeProp has written.
Halves(P) == 2 * (bursts - Len(P)) + (IF second THEN 1 ELSE 0)

HalvesInOrder(c) ==
  LET P == c["edgePropSliceStream"][0]
      H == c["halfPropStream"][0] IN
    /\ Len(H) <= Halves(P)
    /\ \A n \in DOMAIN H : H[n] = Halves(P) - Len(H) + n

HalfWorks(c, q) ==
  LET P == c["edgePropSliceStream"][0] IN
    /\ second => P # <<>>
    /\ q["half"][0] = IF 2 * (bursts - Len(P)) < TuplesToFeed THEN "loop" ELSE "done"
    /\ ~haveEdgeProp => bursts = 0 /\ ~second /\ c["halfPropStream"][0] = <<>>

\* As many halves have been taken as tuples, and of those none is the second
\* half of the end block.
PropWorks(c, q) ==
  LET B == c["edgeTuplesBuffer"][0]
      H == c["halfPropStream"][0] IN
    /\ q["prop"][0] = "loop" =>
         /\ fed - Len(B) <= Len(list)
         /\ haveEdgeProp => Halves(c["edgePropSliceStream"][0]) - Len(H) = fed - Len(B)
    /\ q["prop"][0] \in {"clearProp", "done"} => fed = TuplesToFeed /\ B = <<>>
    /\ q["prop"][0] = "done" /\ haveEdgeProp => q["half"][0] = "done" /\ H = <<>>

Pairs(c) ==
  haveEdgeProp => \A n \in DOMAIN c["edgeTuplesCoupled"][0] :
    c["edgeTuplesCoupled"][0][n].prop = c["edgeTuplesCoupled"][0][n].no

InFront(c, q) ==
  /\ fed \in 0 .. TuplesToFeed /\ bursts \in Nat /\ 2 * bursts <= TuplesToFeed
  /\ second \in BOOLEAN
  /\ TuplesInOrder(c) /\ BurstsInOrder(c) /\ HalvesInOrder(c)
  /\ HalfWorks(c, q) /\ PropWorks(c, q) /\ Pairs(c)

\* The streams behind propProcess, up to rawSolver's own, their writers and
\* their readers.
Chain == {"edgeTuplesCoupled", "edgeTuplesLayer1", "edgeTuplesArray",
          "toFilterArraySlice", "toFilterArray", "toFilterArraySlice2", "buildArray"}

Writer(s) ==
  CASE s = "edgeTuplesCoupled"   -> "prop"
    [] s = "edgeTuplesLayer1"    -> "dup"
    [] s = "edgeTuplesArray"     -> "dup4"
    [] s = "toFilterArraySlice"  -> "entry"
    [] s = "toFilterArray"       -> "slice"
    [] s = "toFilterArraySlice2" -> "slice2"
    [] s = "buildArray"          -> "filter"
    [] s = "buildArraySlice"     -> "build"

WriterIndex(s, i) ==
  CASE s = "edgeTuplesLayer1" -> 0
    [] s = "edgeTuplesArray"  -> i \div (PE_NUM \div LAYER1)
    [] OTHER                  -> i

Reader(s) ==
  CASE s = "edgeTuplesCoupled"   -> "dup"
    [] s = "edgeTuplesLayer1"    -> "dup4"
    [] s = "edgeTuplesArray"     -> "entry"
    [] s = "toFilterArraySlice"  -> "slice"
    [] s = "toFilterArray"       -> "slice2"
    [] s = "toFilterArraySlice2" -> "filter"
    [] s = "buildArray"          -> "build"

NoEnd(c) == \A n \in DOMAIN c : ~c[n].end

\* The writer of stream s, i has not sent the end, its reader not read it.
Writing(s, i, q) == q[Writer(s)][WriterIndex(s, i)] = "loop"
Reading(s, i, q, e) ==
  /\ q[Reader(s)][i] = "loop"
  /\ s = "toFilterArraySlice2" => NoEnd(e[i])

\* The end is the last item, sent by the writer that has stopped and not yet
\* read by the reader.
Ends(c, writing, reading) ==
  /\ writing => reading /\ NoEnd(c)
  /\ \A n \in DOMAIN c : c[n].end => n = Len(c)
  /\ ~writing /\ reading => c # <<>> /\ c[Len(c)].end
  /\ ~reading => c = <<>>

Streaming(c, q, e) ==
  \A s \in Chain : \A i \in Width(s) :
    Ends(c[s][i], Writing(s, i, q), Reading(s, i, q, e))

EmitOK(q, e) ==
  /\ e \in [Lanes -> Seq(TokenItems)]
  /\ \A l \in Lanes :
       /\ Len(e[l]) <= EDGE_NUM
       /\ \A n \in DOMAIN e[l] : e[l][n].end => n = Len(e[l])
       /\ q["filter"][l] # "loop" => e[l] = <<>>

Solved(c, q) ==
  \A l \in Lanes : q["solver"][l] = "done" =>
    q["build"][l] = "done" /\ c["buildArraySlice"][l] = <<>>

IInv ==
  /\ InputsOK
  /\ ChanOK(chan, TuplesToFeed) /\ PcOK(pc)
  /\ InFront(chan, pc)
  /\ Streaming(chan, pc, emit) /\ EmitOK(pc, emit) /\ Solved(chan, pc)
-----------------------------------------------------------------------------
(***************************************************************************)
(* Streams.                                                                *)
(***************************************************************************)

LEMMA AppendFacts ==
  ASSUME NEW S, NEW c \in Seq(S), NEW v \in S
  PROVE  /\ Append(c, v) \in Seq(S)
         /\ Len(c) \in Nat /\ Len(Append(c, v)) = Len(c) + 1
         /\ DOMAIN c = 1 .. Len(c)
         /\ DOMAIN Append(c, v) = 1 .. Len(c) + 1
         /\ \A n \in 1 .. Len(c) : Append(c, v)[n] = c[n]
         /\ Append(c, v)[Len(c) + 1] = v
         /\ Append(c, v) # <<>>
  OBVIOUS

LEMMA TailFacts ==
  ASSUME NEW S, NEW c \in Seq(S), c # <<>>
  PROVE  /\ Tail(c) \in Seq(S) /\ Head(c) \in S /\ Head(c) = c[1]
         /\ Len(c) \in Nat \ {0} /\ Len(Tail(c)) = Len(c) - 1
         /\ DOMAIN c = 1 .. Len(c)
         /\ DOMAIN Tail(c) = 1 .. Len(c) - 1
         /\ \A n \in 1 .. Len(c) - 1 : Tail(c)[n] = c[n + 1]
         /\ Tail(c) = <<>> <=> Len(c) = 1
<1>1. Len(c) \in Nat \ {0} /\ DOMAIN c = 1 .. Len(c) /\ Head(c) = c[1]
  OBVIOUS
<1>2. Head(c) \in S
  BY <1>1
<1>3. /\ Tail(c) \in Seq(S) /\ Len(Tail(c)) = Len(c) - 1
      /\ \A n \in 1 .. Len(c) - 1 : Tail(c)[n] = c[n + 1]
  OBVIOUS
<1>4. DOMAIN Tail(c) = 1 .. Len(c) - 1
  BY <1>3
<1>5. Tail(c) = <<>> <=> Len(c) = 1
  <2>1. Tail(c) = <<>> <=> Len(Tail(c)) = 0
    BY <1>3, EmptySeq
  <2>. QED  BY <1>1, <1>3, <2>1
<1>. QED  BY <1>1, <1>2, <1>3, <1>4, <1>5

LEMMA NumberedAppend ==
  ASSUME NEW S, NEW c \in Seq(S), NEW v \in S, NEW f \in Int,
         Numbered(c, f), v.no = f + Len(c) + 1
  PROVE  Numbered(Append(c, v), f)
<1>. SUFFICES ASSUME NEW n \in 1 .. Len(c) + 1 PROVE Append(c, v)[n].no = f + n
  BY AppendFacts DEF Numbered
<1>1. CASE n \in 1 .. Len(c)
  BY <1>1, AppendFacts DEF Numbered
<1>2. CASE n = Len(c) + 1
  <2>1. f + (Len(c) + 1) = f + Len(c) + 1
    BY AppendFacts
  <2>. QED  BY <1>2, <2>1, AppendFacts
<1>. QED  BY <1>1, <1>2, AppendFacts

LEMMA NumberedTail ==
  ASSUME NEW S, NEW c \in Seq(S), c # <<>>, NEW f \in Int, Numbered(c, f)
  PROVE  Head(c).no = f + 1 /\ Numbered(Tail(c), f + 1)
<1>1. 1 \in DOMAIN c /\ \A n \in 1 .. Len(c) - 1 : n + 1 \in DOMAIN c
  BY TailFacts
<1>2. Head(c).no = f + 1
  BY <1>1, TailFacts DEF Numbered
<1>3. ASSUME NEW n \in 1 .. Len(c) - 1 PROVE Tail(c)[n].no = (f + 1) + n
  <2>1. Tail(c)[n].no = f + (n + 1)
    BY <1>1, TailFacts DEF Numbered
  <2>. QED  BY <2>1
<1>. QED  BY <1>2, <1>3, TailFacts DEF Numbered

\* The same of numbers themselves.
LEMMA CountAppend ==
  ASSUME NEW c \in Seq(Nat), NEW v \in Nat, NEW f \in Int,
         \A n \in DOMAIN c : c[n] = f + n, v = f + Len(c) + 1
  PROVE  \A n \in DOMAIN Append(c, v) : Append(c, v)[n] = f + n
<1>. SUFFICES ASSUME NEW n \in 1 .. Len(c) + 1 PROVE Append(c, v)[n] = f + n
  BY AppendFacts
<1>1. CASE n \in 1 .. Len(c)
  BY <1>1, AppendFacts
<1>2. CASE n = Len(c) + 1
  BY <1>2, AppendFacts
<1>. QED  BY <1>1, <1>2, AppendFacts

LEMMA CountTail ==
  ASSUME NEW c \in Seq(Nat), c # <<>>, NEW f \in Int, \A n \in DOMAIN c : c[n] = f + n
  PROVE  Head(c) = f + 1 /\ \A n \in DOMAIN Tail(c) : Tail(c)[n] = (f + 1) + n
<1>1. 1 \in DOMAIN c /\ \A n \in 1 .. Len(c) - 1 : n + 1 \in DOMAIN c
  BY TailFacts
<1>2. Head(c) = f + 1
  BY <1>1, TailFacts
<1>3. ASSUME NEW n \in 1 .. Len(c) - 1 PROVE Tail(c)[n] = (f + 1) + n
  <2>1. Tail(c)[n] = f + (n + 1)
    BY <1>1, TailFacts
  <2>. QED  BY <2>1
<1>. QED  BY <1>2, <1>3, TailFacts

\* The end goes behind everything else, and is taken last.
LEMMA EndsAppend ==
  ASSUME NEW S, NEW c \in Seq(S), NEW v \in S, NEW w, NEW r, NEW w2,
         Ends(c, w, r), w, w2 <=> ~v.end
  PROVE  Ends(Append(c, v), w2, r)
<1>1. r /\ \A n \in DOMAIN c : ~c[n].end
  BY DEF Ends, NoEnd
<1>2. \A n \in 1 .. Len(c) + 1 : Append(c, v)[n].end => n = Len(c) + 1 /\ v.end
  <2>1. \A n \in 1 .. Len(c) + 1 : n \in 1 .. Len(c) \/ n = Len(c) + 1
    BY AppendFacts
  <2>. QED  BY <1>1, <2>1, AppendFacts
<1>3. w2 => NoEnd(Append(c, v))
  BY <1>2, AppendFacts DEF NoEnd
<1>4. ~w2 => Append(c, v)[Len(c) + 1].end
  BY AppendFacts
<1>. QED  BY <1>1, <1>2, <1>3, <1>4, AppendFacts DEF Ends

LEMMA EndsTake ==
  ASSUME NEW S, NEW c \in Seq(S), c # <<>>, NEW w, NEW r, NEW r2,
         Ends(c, w, r), r, r2 <=> ~Head(c).end
  PROVE  Ends(Tail(c), w, r2)
<1>1. \A n \in 1 .. Len(c) : c[n].end => n = Len(c)
  BY TailFacts DEF Ends
<1>2. w => \A n \in 1 .. Len(c) : ~c[n].end
  BY TailFacts DEF Ends, NoEnd
<1>3. ~w => c[Len(c)].end
  BY DEF Ends
<1>4. 1 \in 1 .. Len(c) /\ \A n \in 1 .. Len(c) - 1 : n + 1 \in 1 .. Len(c)
  BY TailFacts
<1>5. w => r2 /\ NoEnd(Tail(c))
  BY <1>2, <1>4, TailFacts DEF NoEnd
<1>6. \A n \in DOMAIN Tail(c) : Tail(c)[n].end => n = Len(Tail(c))
  <2>1. \A n \in 1 .. Len(c) - 1 : Tail(c)[n].end => n + 1 = Len(c)
    BY <1>1, <1>4, TailFacts
  <2>2. \A n \in 1 .. Len(c) - 1 : n + 1 = Len(c) => n = Len(c) - 1
    BY TailFacts
  <2>. QED  BY <2>1, <2>2, TailFacts
<1>7. ~w /\ r2 => Tail(c) # <<>> /\ Tail(c)[Len(Tail(c))].end
  <2>. SUFFICES ASSUME ~w, r2 PROVE Tail(c) # <<>> /\ Tail(c)[Len(Tail(c))].end
    OBVIOUS
  <2>1. ~c[1].end
    BY TailFacts
  <2>2. Len(c) # 1
    BY <1>3, <2>1
  <2>3. Len(c) - 1 \in 1 .. Len(c) - 1 /\ (Len(c) - 1) + 1 = Len(c)
    BY <2>2, TailFacts
  <2>. QED  BY <1>3, <2>2, <2>3, TailFacts
<1>8. ~r2 => Tail(c) = <<>>
  BY <1>1, <1>4, TailFacts
<1>. QED  BY <1>5, <1>6, <1>7, <1>8 DEF Ends

LEMMA EndsEmpty == Ends(<<>>, TRUE, TRUE)
  BY DEF Ends, NoEnd

LEMMA EndsClosed ==
  ASSUME NEW c, NEW w, NEW r, Ends(c, w, r), ~r
  PROVE  c = <<>>
  BY DEF Ends

(***************************************************************************)
(* What a step does to the streams and to the places of the processes.     *)
(***************************************************************************)

LEMMA Put ==
  ASSUME NEW S, NEW c, c = [t \in S |-> c[t]], NEW s \in S, NEW new,
         NEW d, d = [c EXCEPT ![s] = new]
  PROVE  d = [t \in S |-> d[t]] /\ d[s] = new /\ \A t \in S : t # s => d[t] = c[t]
<1>1. d = [t \in S |-> IF t = s THEN new ELSE c[t]]
  OBVIOUS
<1>. QED  BY <1>1

LEMMA Write ==
  ASSUME NEW T, NEW c, ChanOK(c, T), NEW s \in Streams, NEW I,
         NEW v \in Contents(s, T), NEW d, d = Written(c, s, I, v),
         \A i \in I : i \in Width(s) => Len(c[s][i]) < Depth[s]
  PROVE  /\ ChanOK(d, T)
         /\ \A t \in Streams : t # s => d[t] = c[t]
         /\ \A i \in Width(s) : d[s][i] = IF i \in I THEN Append(c[s][i], v) ELSE c[s][i]
<1>. DEFINE new == [i \in Width(s) |-> IF i \in I THEN Append(c[s][i], v) ELSE c[s][i]]
<1>1. c = [t \in Streams |-> c[t]] /\ c[s] \in [Width(s) -> Seq(Contents(s, T))]
  BY DEF ChanOK
<1>2. d = [c EXCEPT ![s] = new]
  BY <1>1 DEF Written
<1>4. \A i \in Width(s) : c[s][i] \in Seq(Contents(s, T))
  BY <1>1
<1>5. new \in [Width(s) -> Seq(Contents(s, T))]
  BY <1>4, AppendFacts
<1>6. ASSUME NEW i \in Width(s) PROVE Len(new[i]) <= Depth[s]
  <2>1. Len(c[s][i]) <= Depth[s] /\ Depth[s] \in Nat
    BY ShuffleAssumption DEF ChanOK
  <2>2. CASE i \in I
    BY <1>4, <2>1, <2>2, AppendFacts
  <2>3. CASE i \notin I
    BY <2>1, <2>3
  <2>. QED  BY <2>2, <2>3
<1>. HIDE DEF new
<1>7. d = [t \in Streams |-> d[t]] /\ d[s] = new /\ \A t \in Streams : t # s => d[t] = c[t]
  <2>1. c = [t \in Streams |-> c[t]]
    BY <1>1
  <2>. QED  BY <2>1, <1>2, Put, Zenon
<1>8. ChanOK(d, T)
  <2>1. \A t \in Streams : /\ d[t] \in [Width(t) -> Seq(Contents(t, T))]
                           /\ \A i \in Width(t) : Len(d[t][i]) <= Depth[t]
    BY <1>5, <1>6, <1>7 DEF ChanOK
  <2>. QED  BY <1>7, <2>1 DEF ChanOK
<1>9. \A i \in Width(s) : d[s][i] = IF i \in I THEN Append(c[s][i], v) ELSE c[s][i]
  BY <1>7 DEF new
<1>. QED  BY <1>7, <1>8, <1>9

TailAt(c, s, i) == [c EXCEPT ![s][i] = Tail(@)]

LEMMA Pop ==
  ASSUME NEW T, NEW c, ChanOK(c, T), NEW s \in Streams, NEW i \in Width(s),
         c[s][i] # <<>>, NEW d, d = TailAt(c, s, i)
  PROVE  /\ ChanOK(d, T)
         /\ \A t \in Streams : t # s => d[t] = c[t]
         /\ \A j \in Width(s) : d[s][j] = IF j = i THEN Tail(c[s][i]) ELSE c[s][j]
<1>. DEFINE new == [c[s] EXCEPT ![i] = Tail(c[s][i])]
<1>1. c = [t \in Streams |-> c[t]] /\ c[s] \in [Width(s) -> Seq(Contents(s, T))]
  BY DEF ChanOK
<1>2. d = [c EXCEPT ![s] = new]
  BY DEF TailAt
<1>4. /\ c[s][i] \in Seq(Contents(s, T))
      /\ Tail(c[s][i]) \in Seq(Contents(s, T))
      /\ Len(Tail(c[s][i])) = Len(c[s][i]) - 1 /\ Len(c[s][i]) \in Nat
  BY <1>1, TailFacts
<1>5. /\ new \in [Width(s) -> Seq(Contents(s, T))]
      /\ \A j \in Width(s) : new[j] = IF j = i THEN Tail(c[s][i]) ELSE c[s][j]
  BY <1>1, <1>4
<1>6. ASSUME NEW j \in Width(s) PROVE Len(new[j]) <= Depth[s]
  <2>1. Len(c[s][j]) <= Depth[s] /\ Len(c[s][i]) <= Depth[s] /\ Depth[s] \in Nat
    BY ShuffleAssumption DEF ChanOK
  <2>. QED  BY <1>4, <1>5, <2>1
<1>. HIDE DEF new
<1>7. d = [t \in Streams |-> d[t]] /\ d[s] = new /\ \A t \in Streams : t # s => d[t] = c[t]
  <2>1. c = [t \in Streams |-> c[t]]
    BY <1>1
  <2>. QED  BY <2>1, <1>2, Put, Zenon
<1>8. ChanOK(d, T)
  <2>1. \A t \in Streams : /\ d[t] \in [Width(t) -> Seq(Contents(t, T))]
                           /\ \A j \in Width(t) : Len(d[t][j]) <= Depth[t]
    BY <1>5, <1>6, <1>7 DEF ChanOK
  <2>. QED  BY <1>7, <2>1 DEF ChanOK
<1>. QED  BY <1>5, <1>7, <1>8

PutAt(q, p, i, w) == [q EXCEPT ![p][i] = w]

LEMMA Went ==
  ASSUME NEW q, PcOK(q), NEW p \in Processes, NEW i \in Width(p),
         NEW w \in Places,
         NEW r, r = PutAt(q, p, i, w)
  PROVE  /\ PcOK(r)
         /\ \A t \in Processes : t # p => r[t] = q[t]
         /\ \A j \in Width(p) : r[p][j] = IF j = i THEN w ELSE q[p][j]
<1>. DEFINE new == [q[p] EXCEPT ![i] = w]
<1>1. q = [t \in Processes |-> q[t]] /\ q[p] \in [Width(p) -> Places]
  BY DEF PcOK
<1>2. r = [t \in Processes |-> IF t = p THEN new ELSE q[t]]
  BY <1>1 DEF PutAt
<1>3. /\ new \in [Width(p) -> Places]
      /\ \A j \in Width(p) : new[j] = IF j = i THEN w ELSE q[p][j]
  BY <1>1
<1>. HIDE DEF new
<1>4. r = [t \in Processes |-> r[t]] /\ r[p] = new /\ \A t \in Processes : t # p => r[t] = q[t]
  BY <1>2
<1>5. PcOK(r)
  BY <1>3, <1>4 DEF PcOK
<1>. QED  BY <1>3, <1>4, <1>5

\* The streams and processes there is one of, and those of the lanes.
LEMMA Widths ==
  /\ \A s \in {"edgePropSliceStream", "halfPropStream", "edgeTuplesBuffer",
               "edgeTuplesCoupled", "half", "prop", "dup"} : Width(s) = {0}
  /\ \A s \in {"edgeTuplesLayer1", "dup4"} : Width(s) = Layer1
  /\ \A s \in {"edgeTuplesArray", "toFilterArraySlice", "toFilterArray",
               "toFilterArraySlice2", "buildArray", "buildArraySlice", "entry",
               "slice", "slice2", "filter", "build", "solver"} : Width(s) = Lanes
  BY DEF Width

LEMMA ContentsOf ==
  ASSUME NEW T
  PROVE  /\ \A s \in {"edgeTuplesBuffer", "edgeTuplesCoupled", "edgeTuplesLayer1",
                      "edgeTuplesArray"} : Contents(s, T) = TupleItems(T)
         /\ Contents("edgePropSliceStream", T) = BurstItems
         /\ Contents("halfPropStream", T) = Nat
         /\ \A s \in {"toFilterArraySlice", "toFilterArray", "toFilterArraySlice2"} :
              Contents(s, T) = FilterItems
         /\ \A s \in {"buildArray", "buildArraySlice"} : Contents(s, T) = TokenItems
  BY DEF Contents, TupleStreams

LEMMA Typed ==
  ASSUME NEW T, NEW c, ChanOK(c, T), NEW s \in Streams, NEW i \in Width(s)
  PROVE  c[s][i] \in Seq(Contents(s, T)) /\ Len(c[s][i]) \in Nat
<1>1. c[s][i] \in Seq(Contents(s, T))
  BY DEF ChanOK
<1>. QED  BY <1>1, LenProperties

LEMMA FrontTyped ==
  ASSUME NEW T, NEW c, ChanOK(c, T)
  PROVE  /\ c["edgeTuplesBuffer"][0] \in Seq(TupleItems(T))
         /\ c["edgePropSliceStream"][0] \in Seq(BurstItems)
         /\ c["halfPropStream"][0] \in Seq(Nat)
         /\ c["edgeTuplesCoupled"][0] \in Seq(TupleItems(T))
<1>1. {"edgeTuplesBuffer", "edgePropSliceStream", "halfPropStream", "edgeTuplesCoupled"}
         \subseteq Streams
  BY DEF Streams
<1>. QED  BY <1>1, Typed, Widths, ContentsOf

\* Lists are of even length: the bursts, two tuples each, come out even.
LEMMA ListFacts ==
  ASSUME InputsOK
  PROVE  /\ list \in Seq(Tuples) /\ junk \in Tuples /\ haveEdgeProp \in BOOLEAN
         /\ Len(list) \in Nat \ {0} /\ TuplesToFeed = Len(list) + 2
         /\ \E h \in Nat : TuplesToFeed = 2 * h
<1>1. list \in Seq(Tuples) /\ junk \in Tuples /\ list # <<>> /\ Len(list) % 2 = 0
  BY ShuffleAssumption DEF InputsOK
<1>2. Len(list) \in Nat \ {0}
  BY <1>1, EmptySeq
<1>3. \A n \in Nat : n % 2 = 0 => \E h \in Nat : n + 2 = 2 * h
  <2>. SUFFICES ASSUME NEW n \in Nat, n % 2 = 0 PROVE \E h \in Nat : n + 2 = 2 * h
    OBVIOUS
  <2>1. n \div 2 + 1 \in Nat /\ n + 2 = 2 * (n \div 2 + 1)
    OBVIOUS
  <2>. QED  BY <2>1
<1>. QED  BY <1>1, <1>2, <1>3 DEF TuplesToFeed, InputsOK

(***************************************************************************)
(* What a step leaves alone.                                               *)
(***************************************************************************)

LEMMA CoupledFrame ==
  ASSUME Streaming(chan, pc, emit), EmitOK(pc, emit), Solved(chan, pc),
         \A s \in (Chain \ {"edgeTuplesCoupled"}) \cup {"buildArraySlice"} :
           chan'[s] = chan[s],
         emit' = emit,
         \A p \in Processes \ {"half", "prop"} : pc'[p] = pc[p],
         Ends(chan'["edgeTuplesCoupled"][0], pc'["prop"][0] = "loop", pc["dup"][0] = "loop")
  PROVE  Streaming(chan, pc, emit)' /\ EmitOK(pc, emit)' /\ Solved(chan, pc)'
<1>1. ASSUME NEW s \in Chain, NEW i \in Width(s)
      PROVE  Ends(chan[s][i], Writing(s, i, pc), Reading(s, i, pc, emit))'
  <2>1. CASE s = "edgeTuplesCoupled"
    <3>1. i = 0 /\ pc'["dup"] = pc["dup"]
      BY <2>1, Widths DEF Processes
    <3>2. Writing(s, i, pc)' <=> pc'["prop"][0] = "loop"
      BY <2>1, <3>1 DEF Writing, Writer, WriterIndex
    <3>3. Reading(s, i, pc, emit)' <=> pc["dup"][0] = "loop"
      BY <2>1, <3>1 DEF Reading, Reader
    <3>. QED  BY <2>1, <3>1, <3>2, <3>3 DEF Ends
  <2>2. CASE s # "edgeTuplesCoupled"
    <3>1. Ends(chan[s][i], Writing(s, i, pc), Reading(s, i, pc, emit))
      BY DEF Streaming
    <3>2. chan'[s][i] = chan[s][i]
      BY <2>2
    <3>3. Reader(s) \in Processes \ {"half", "prop"} /\ Writer(s) \in Processes \ {"half", "prop"}
      BY <2>2 DEF Reader, Writer, Chain, Processes
    <3>4. Reading(s, i, pc, emit)' <=> Reading(s, i, pc, emit)
      BY <3>3 DEF Reading
    <3>5. Writing(s, i, pc)' <=> Writing(s, i, pc)
      BY <3>3 DEF Writing
    <3>. QED  BY <3>1, <3>2, <3>4, <3>5 DEF Ends
  <2>. QED  BY <2>1, <2>2
<1>2. Streaming(chan, pc, emit)'
  BY <1>1 DEF Streaming
<1>3. pc'["filter"] = pc["filter"] /\ pc'["solver"] = pc["solver"] /\ pc'["build"] = pc["build"]
  BY DEF Processes
<1>. QED  BY <1>2, <1>3 DEF EmitOK, Solved

LEMMA CoupledEnds ==
  ASSUME Streaming(chan, pc, emit)
  PROVE  Ends(chan["edgeTuplesCoupled"][0], pc["prop"][0] = "loop", pc["dup"][0] = "loop")
<1>. DEFINE s == "edgeTuplesCoupled"
<1>1. s \in Chain /\ 0 \in Width(s)
  BY Widths DEF Chain
<1>2. Ends(chan[s][0], Writing(s, 0, pc), Reading(s, 0, pc, emit))
  BY <1>1 DEF Streaming
<1>3. (Writing(s, 0, pc) <=> pc["prop"][0] = "loop") /\ (Reading(s, 0, pc, emit) <=> pc["dup"][0] = "loop")
  BY DEF Writing, Writer, WriterIndex, Reading, Reader
<1>. QED  BY <1>2, <1>3 DEF Ends

LEMMA RearFrame ==
  ASSUME Streaming(chan, pc, emit), EmitOK(pc, emit), Solved(chan, pc),
         \A s \in Chain \cup {"buildArraySlice"} : chan'[s] = chan[s],
         emit' = emit,
         \A p \in Processes \ {"half", "prop"} : pc'[p] = pc[p],
         (pc'["prop"][0] = "loop") <=> (pc["prop"][0] = "loop")
  PROVE  Streaming(chan, pc, emit)' /\ EmitOK(pc, emit)' /\ Solved(chan, pc)'
<1>1. chan'["edgeTuplesCoupled"] = chan["edgeTuplesCoupled"]
  BY DEF Chain
<1>2. Ends(chan["edgeTuplesCoupled"][0], pc["prop"][0] = "loop", pc["dup"][0] = "loop")
  BY CoupledEnds
<1>3. Ends(chan'["edgeTuplesCoupled"][0], pc'["prop"][0] = "loop", pc["dup"][0] = "loop")
  BY <1>1, <1>2 DEF Ends
<1>. QED  BY <1>3, CoupledFrame

FrontStreams == {"edgePropSliceStream", "halfPropStream", "edgeTuplesBuffer"}

LEMMA FrontFrame ==
  ASSUME InFront(chan, pc), UNCHANGED <<list, haveEdgeProp, fed, bursts, second>>,
         \A s \in FrontStreams : chan'[s] = chan[s],
         pc'["half"][0] = pc["half"][0], pc'["prop"][0] = pc["prop"][0],
         Pairs(chan)'
  PROVE  InFront(chan, pc)'
<1>1. /\ chan'["edgePropSliceStream"] = chan["edgePropSliceStream"]
      /\ chan'["halfPropStream"] = chan["halfPropStream"]
      /\ chan'["edgeTuplesBuffer"] = chan["edgeTuplesBuffer"]
  BY DEF FrontStreams
<1>2. TuplesToFeed' = TuplesToFeed
  BY DEF TuplesToFeed
<1>3. TuplesInOrder(chan)' /\ BurstsInOrder(chan)' /\ HalvesInOrder(chan)'
  <2>1. TuplesInOrder(chan)'
    BY <1>1, <1>2 DEF InFront, TuplesInOrder, FedTuples
  <2>2. BurstsInOrder(chan)'
    BY <1>1, <1>2 DEF InFront, BurstsInOrder, FedBursts
  <2>3. HalvesInOrder(chan)'
    BY <1>1 DEF InFront, HalvesInOrder, Halves
  <2>. QED  BY <2>1, <2>2, <2>3
<1>4. HalfWorks(chan, pc)' /\ PropWorks(chan, pc)'
  BY <1>1, <1>2 DEF InFront, HalfWorks, PropWorks, Halves
<1>5. fed' \in 0 .. TuplesToFeed' /\ bursts' \in Nat /\ 2 * bursts' <= TuplesToFeed' /\ second' \in BOOLEAN
  BY <1>2 DEF InFront
<1>. QED  BY <1>3, <1>4, <1>5 DEF InFront

LEMMA InputsFrame ==
  ASSUME InputsOK, UNCHANGED inputVars
  PROVE  InputsOK' /\ TuplesToFeed' = TuplesToFeed
  BY DEF InputsOK, inputVars, TuplesToFeed

LEMMA GotoFacts ==
  ASSUME PcOK(pc), NEW p \in Processes, NEW i \in Width(p),
         NEW w \in Places, Goto(p, i, w)
  PROVE  /\ PcOK(pc')
         /\ \A t \in Processes : t # p => pc'[t] = pc[t]
         /\ \A j \in Width(p) : pc'[p][j] = IF j = i THEN w ELSE pc[p][j]
<1>1. PICK r : r = pc'
  OBVIOUS
<1>2. r = PutAt(pc, p, i, w)
  BY <1>1 DEF Goto, PutAt
<1>3. PcOK(r)
  BY <1>2, Went
<1>4. \A t \in Processes : t # p => r[t] = pc[t]
  BY <1>2, Went
<1>5. \A j \in Width(p) : r[p][j] = IF j = i THEN w ELSE pc[p][j]
  BY <1>2, Went
<1>. QED  BY <1>1, <1>3, <1>4, <1>5

LEMMA StopFacts ==
  ASSUME PcOK(pc), NEW p \in Processes, NEW i \in Width(p), NEW item,
         pc[p][i] = "loop", StopAfter(p, i, item)
  PROVE  /\ PcOK(pc')
         /\ \A t \in Processes : t # p => pc'[t] = pc[t]
         /\ \A j \in Width(p) : j # i => pc'[p][j] = pc[p][j]
         /\ pc'[p][i] = IF item.end THEN "done" ELSE "loop"
<1>1. CASE item.end
  <2>1. Goto(p, i, "done") /\ "done" \in Places
    BY <1>1 DEF StopAfter, Places
  <2>. QED  BY <1>1, <2>1, GotoFacts
<1>2. CASE ~item.end
  <2>1. pc' = pc
    BY <1>2 DEF StopAfter
  <2>. QED  BY <1>2, <2>1
<1>. QED  BY <1>1, <1>2

(***************************************************************************)
(* The front.                                                              *)
(***************************************************************************)

\* A tuple is fed.
LEMMA FeedTupleInv ==
  ASSUME IInv, FeedTuple
  PROVE  IInv'
<1>. DEFINE T == TuplesToFeed
            B == chan["edgeTuplesBuffer"][0]
            v == [no |-> fed', prop |-> 0, end |-> fed' > Len(list),
                  edges |-> IF fed' > Len(list) THEN junk ELSE list[fed']]
<1>1. /\ fed < T /\ fed' = fed + 1
      /\ Len(B) < Depth["edgeTuplesBuffer"]
      /\ chan' = Written(chan, "edgeTuplesBuffer", {0}, v)
      /\ UNCHANGED <<inputVars, bursts, second, emit, pc, taken>>
  BY DEF FeedTuple, HasRoom
<1>2. /\ InputsOK /\ ChanOK(chan, T) /\ PcOK(pc) /\ InFront(chan, pc)
      /\ Streaming(chan, pc, emit) /\ EmitOK(pc, emit) /\ Solved(chan, pc)
  BY DEF IInv
<1>3. /\ Len(list) \in Nat \ {0} /\ T = Len(list) + 2 /\ T \in Nat
      /\ list \in Seq(Tuples) /\ junk \in Tuples
      /\ fed \in 0 .. T
  BY <1>2, ListFacts DEF InFront
<1>4. B \in Seq(TupleItems(T)) /\ Len(B) \in Nat
  BY <1>2, FrontTyped, LenProperties
<1>5. v \in TupleItems(T)
  <2>1. fed' \in 1 .. T /\ 0 \in 0 .. T
    BY <1>1, <1>3
  <2>2. (IF fed' > Len(list) THEN junk ELSE list[fed']) \in Tuples
    BY <1>3, <2>1
  <2>3. (fed' > Len(list)) \in BOOLEAN
    OBVIOUS
  <2>. QED  BY <2>1, <2>2, <2>3 DEF TupleItems
<1>6. "edgeTuplesBuffer" \in Streams /\ Width("edgeTuplesBuffer") = {0}
  BY Widths DEF Streams
<1>7. v \in Contents("edgeTuplesBuffer", T)
  BY <1>5, ContentsOf
<1>. HIDE DEF v
<1>8. /\ ChanOK(chan', T)
      /\ \A t \in Streams : t # "edgeTuplesBuffer" => chan'[t] = chan[t]
      /\ chan'["edgeTuplesBuffer"][0] = Append(B, v)
  <2>1. \A i \in {0} : i \in Width("edgeTuplesBuffer") =>
           Len(chan["edgeTuplesBuffer"][i]) < Depth["edgeTuplesBuffer"]
    BY <1>1
  <2>2. /\ ChanOK(chan', T)
        /\ \A t \in Streams : t # "edgeTuplesBuffer" => chan'[t] = chan[t]
        /\ \A i \in Width("edgeTuplesBuffer") : chan'["edgeTuplesBuffer"][i] =
             IF i \in {0} THEN Append(chan["edgeTuplesBuffer"][i], v)
                          ELSE chan["edgeTuplesBuffer"][i]
    BY <1>1, <1>2, <1>6, <1>7, <2>1, Write
  <2>. QED  BY <1>6, <2>2
<1>9. InputsOK' /\ TuplesToFeed' = T /\ list' = list /\ haveEdgeProp' = haveEdgeProp
  BY <1>1, <1>2, InputsFrame DEF inputVars
<1>10. /\ chan'["edgePropSliceStream"] = chan["edgePropSliceStream"]
       /\ chan'["halfPropStream"] = chan["halfPropStream"]
       /\ chan'["edgeTuplesCoupled"] = chan["edgeTuplesCoupled"]
       /\ \A s \in Chain \cup {"buildArraySlice"} : chan'[s] = chan[s]
  BY <1>8 DEF Streams, Chain
<1>11. TuplesInOrder(chan)' /\ Len(Append(B, v)) = Len(B) + 1
  <2>1. B \in Seq(FedTuples) /\ Len(B) <= fed /\ Numbered(B, fed - Len(B))
    BY <1>2 DEF InFront, TuplesInOrder
  <2>2. v.no = fed' /\ (v.end <=> v.no > Len(list))
    BY DEF v
  <2>3. v \in FedTuples /\ FedTuples' = FedTuples
    BY <1>5, <1>9, <2>2 DEF FedTuples
  <2>4. Append(B, v) \in Seq(FedTuples) /\ Len(Append(B, v)) = Len(B) + 1
    BY <2>1, <2>3, AppendFacts
  <2>5. Numbered(Append(B, v), fed - Len(B))
    <3>1. fed - Len(B) \in Int /\ v.no = fed - Len(B) + Len(B) + 1
      BY <1>1, <1>3, <1>4, <2>2
    <3>. QED  BY <2>1, <2>3, <3>1, NumberedAppend
  <2>6. Len(B) + 1 <= fed' /\ fed' - (Len(B) + 1) = fed - Len(B)
    BY <1>1, <1>3, <1>4, <2>1
  <2>. QED  BY <1>8, <2>3, <2>4, <2>5, <2>6 DEF TuplesInOrder
<1>12. InFront(chan, pc)'
  <2>1. fed' \in 0 .. T
    BY <1>1, <1>3
  <2>2. BurstsInOrder(chan)'
    BY <1>1, <1>2, <1>9, <1>10 DEF InFront, BurstsInOrder, FedBursts
  <2>3. HalvesInOrder(chan)'
    BY <1>1, <1>2, <1>10 DEF InFront, HalvesInOrder, Halves
  <2>4. HalfWorks(chan, pc)'
    BY <1>1, <1>2, <1>9, <1>10 DEF InFront, HalfWorks
  <2>5. PropWorks(chan, pc)'
    <3>1. fed' - Len(chan'["edgeTuplesBuffer"][0]) = fed - Len(B)
      <4>1. Len(chan'["edgeTuplesBuffer"][0]) = Len(B) + 1
        BY <1>8, <1>11
      <4>2. (fed + 1) - (Len(B) + 1) = fed - Len(B)
        BY <1>3, <1>4
      <4>. QED  BY <1>1, <4>1, <4>2
    <3>2. pc["prop"][0] \notin {"clearProp", "done"}
      BY <1>1, <1>2, <1>3 DEF InFront, PropWorks
    <3>. QED  BY <1>1, <1>2, <1>9, <1>10, <3>1, <3>2 DEF InFront, PropWorks, Halves
  <2>6. Pairs(chan)'
    BY <1>2, <1>9, <1>10 DEF InFront, Pairs
  <2>7. bursts' \in Nat /\ 2 * bursts' <= T /\ second' \in BOOLEAN
    BY <1>1, <1>2 DEF InFront
  <2>. QED  BY <1>9, <1>11, <2>1, <2>2, <2>3, <2>4, <2>5, <2>6, <2>7 DEF InFront
<1>13. Streaming(chan, pc, emit)' /\ EmitOK(pc, emit)' /\ Solved(chan, pc)'
  BY <1>1, <1>2, <1>10, RearFrame
<1>14. PcOK(pc')
  BY <1>1, <1>2
<1>. QED  BY <1>8, <1>9, <1>12, <1>13, <1>14 DEF IInv

\* A burst of edge properties arrives.
LEMMA FeedPropInv ==
  ASSUME IInv, FeedProp
  PROVE  IInv'
<1>. DEFINE T == TuplesToFeed
            P == chan["edgePropSliceStream"][0]
            v == [no |-> bursts', end |-> 2 * bursts' = T]
<1>1. /\ haveEdgeProp /\ 2 * bursts < T /\ bursts' = bursts + 1
      /\ Len(P) < Depth["edgePropSliceStream"]
      /\ chan' = Written(chan, "edgePropSliceStream", {0}, v)
      /\ UNCHANGED <<inputVars, fed, sent, second, emit, pc, taken>>
  BY DEF FeedProp, HasRoom
<1>2. /\ InputsOK /\ ChanOK(chan, T) /\ PcOK(pc) /\ InFront(chan, pc)
      /\ Streaming(chan, pc, emit) /\ EmitOK(pc, emit) /\ Solved(chan, pc)
  BY DEF IInv
<1>3. T \in Nat /\ bursts \in Nat /\ \E h \in Nat : T = 2 * h
  BY <1>2, ListFacts DEF InFront
<1>4. /\ P \in Seq(FedBursts) /\ Len(P) \in Nat /\ Len(P) <= bursts
      /\ Numbered(P, bursts - Len(P))
  BY <1>2, FrontTyped, LenProperties DEF InFront, BurstsInOrder
<1>5. v \in FedBursts /\ v \in BurstItems /\ v.no = bursts + 1
  <2>1. v.no = bursts + 1 /\ v.no \in Nat
    BY <1>1, <1>3
  <2>2. v \in BurstItems
    BY <1>1, <1>3 DEF BurstItems
  <2>3. v.end <=> 2 * v.no = T
    OBVIOUS
  <2>. QED  BY <2>1, <2>2, <2>3 DEF FedBursts
<1>6. "edgePropSliceStream" \in Streams /\ Width("edgePropSliceStream") = {0}
      /\ v \in Contents("edgePropSliceStream", T)
  BY <1>5, Widths, ContentsOf DEF Streams
<1>. HIDE DEF v
<1>8. /\ ChanOK(chan', T)
      /\ \A t \in Streams : t # "edgePropSliceStream" => chan'[t] = chan[t]
      /\ chan'["edgePropSliceStream"][0] = Append(P, v)
  <2>1. \A i \in {0} : i \in Width("edgePropSliceStream") =>
           Len(chan["edgePropSliceStream"][i]) < Depth["edgePropSliceStream"]
    BY <1>1
  <2>2. /\ ChanOK(chan', T)
        /\ \A t \in Streams : t # "edgePropSliceStream" => chan'[t] = chan[t]
        /\ \A i \in Width("edgePropSliceStream") : chan'["edgePropSliceStream"][i] =
             IF i \in {0} THEN Append(chan["edgePropSliceStream"][i], v)
                          ELSE chan["edgePropSliceStream"][i]
    BY <1>1, <1>2, <1>6, <2>1, Write
  <2>. QED  BY <1>6, <2>2
<1>9. InputsOK' /\ TuplesToFeed' = T /\ list' = list /\ haveEdgeProp' = haveEdgeProp
  BY <1>1, <1>2, InputsFrame DEF inputVars
<1>10. /\ chan'["edgeTuplesBuffer"] = chan["edgeTuplesBuffer"]
       /\ chan'["halfPropStream"] = chan["halfPropStream"]
       /\ chan'["edgeTuplesCoupled"] = chan["edgeTuplesCoupled"]
       /\ \A s \in Chain \cup {"buildArraySlice"} : chan'[s] = chan[s]
  BY <1>8 DEF Streams, Chain
<1>11. /\ Append(P, v) \in Seq(FedBursts) /\ Len(Append(P, v)) = Len(P) + 1
       /\ Append(P, v) # <<>>
       /\ Numbered(Append(P, v), bursts - Len(P))
  <2>1. bursts - Len(P) \in Int /\ v.no = bursts - Len(P) + Len(P) + 1
    BY <1>3, <1>4, <1>5
  <2>. QED  BY <1>4, <1>5, <2>1, AppendFacts, NumberedAppend
<1>12. bursts' - Len(chan'["edgePropSliceStream"][0]) = bursts - Len(P)
  <2>1. (bursts + 1) - (Len(P) + 1) = bursts - Len(P)
    BY <1>3, <1>4
  <2>. QED  BY <1>1, <1>8, <1>11, <2>1
<1>13. BurstsInOrder(chan)'
  <2>1. FedBursts' = FedBursts
    BY <1>9 DEF FedBursts
  <2>2. Len(P) + 1 <= bursts'
    BY <1>1, <1>3, <1>4
  <2>. QED  BY <1>8, <1>11, <1>12, <2>1, <2>2 DEF BurstsInOrder
<1>14. Halves(chan["edgePropSliceStream"][0])' = Halves(P)
  BY <1>1, <1>12 DEF Halves
<1>15. InFront(chan, pc)'
  <2>1. fed' \in 0 .. T /\ second' \in BOOLEAN
    BY <1>1, <1>2 DEF InFront
  <2>2. bursts' \in Nat /\ 2 * bursts' <= T
    BY <1>1, <1>3
  <2>3. TuplesInOrder(chan)'
    BY <1>1, <1>2, <1>9, <1>10 DEF InFront, TuplesInOrder, FedTuples
  <2>4. HalvesInOrder(chan)'
    BY <1>2, <1>10, <1>14 DEF InFront, HalvesInOrder
  <2>5. HalfWorks(chan, pc)'
    BY <1>1, <1>2, <1>8, <1>9, <1>11, <1>12 DEF InFront, HalfWorks
  <2>6. PropWorks(chan, pc)'
    BY <1>1, <1>2, <1>9, <1>10, <1>14 DEF InFront, PropWorks
  <2>7. Pairs(chan)'
    BY <1>2, <1>9, <1>10 DEF InFront, Pairs
  <2>. QED  BY <1>9, <1>13, <2>1, <2>2, <2>3, <2>4, <2>5, <2>6, <2>7 DEF InFront
<1>16. Streaming(chan, pc, emit)' /\ EmitOK(pc, emit)' /\ Solved(chan, pc)'
  BY <1>1, <1>2, <1>10, RearFrame
<1>17. PcOK(pc')
  BY <1>1, <1>2
<1>. QED  BY <1>8, <1>9, <1>15, <1>16, <1>17 DEF IInv

\* A half is written; the second one ends its burst.
LEMMA HalfInv ==
  ASSUME IInv, HalfEdgeProp
  PROVE  IInv'
<1>. DEFINE T == TuplesToFeed
            P == chan["edgePropSliceStream"][0]
            H == chan["halfPropStream"][0]
            b == Head(P)
            P2 == IF second THEN Tail(P) ELSE P
            c == IF second THEN Popped("edgePropSliceStream", 0) ELSE chan
            v == IF second THEN 2 * b.no ELSE 2 * b.no - 1
            x == bursts - Len(P)
<1>1. /\ haveEdgeProp /\ pc["half"][0] = "loop"
      /\ P # <<>> /\ Len(H) < Depth["halfPropStream"]
      /\ chan' = Written(c, "halfPropStream", {0}, v)
      /\ IF second THEN StopAfter("half", 0, b) ELSE UNCHANGED pc
      /\ second' = ~second
      /\ UNCHANGED <<inputVars, fed, sent, bursts, emit, taken>>
  BY DEF HalfEdgeProp, HasRoom, HasItem, Item, In
<1>2. /\ InputsOK /\ ChanOK(chan, T) /\ PcOK(pc) /\ InFront(chan, pc)
      /\ Streaming(chan, pc, emit) /\ EmitOK(pc, emit) /\ Solved(chan, pc)
  BY DEF IInv
<1>3. T \in Nat /\ bursts \in Nat /\ second \in BOOLEAN /\ \E h \in Nat : T = 2 * h
  BY <1>2, ListFacts DEF InFront
<1>4. /\ P \in Seq(FedBursts) /\ Len(P) \in Nat /\ Len(P) <= bursts
      /\ Numbered(P, x)
      /\ x \in Nat /\ 2 * x < T
  <2>1. 2 * x < T
    BY <1>1, <1>2 DEF InFront, HalfWorks
  <2>. QED  BY <1>2, <1>3, <2>1, FrontTyped, LenProperties DEF InFront, BurstsInOrder
<1>5. /\ b \in FedBursts /\ b.no = x + 1 /\ (b.end <=> 2 * (x + 1) = T)
      /\ Numbered(Tail(P), x + 1)
      /\ Tail(P) \in Seq(FedBursts) /\ Len(Tail(P)) = Len(P) - 1 /\ Len(P) > 0
  <2>1. b \in FedBursts /\ Tail(P) \in Seq(FedBursts) /\ Len(Tail(P)) = Len(P) - 1 /\ Len(P) > 0
    BY <1>1, <1>4, TailFacts
  <2>2. b.no = x + 1 /\ Numbered(Tail(P), x + 1)
    BY <1>1, <1>4, NumberedTail
  <2>. QED  BY <2>1, <2>2 DEF FedBursts
<1>6. /\ H \in Seq(Nat) /\ Len(H) \in Nat /\ Len(H) <= Halves(P)
      /\ \A n \in DOMAIN H : H[n] = Halves(P) - Len(H) + n
  BY <1>2, FrontTyped, LenProperties DEF InFront, HalvesInOrder
<1>7. /\ Halves(P) = 2 * x + (IF second THEN 1 ELSE 0) /\ Halves(P) \in Nat
      /\ v = Halves(P) + 1 /\ v \in Nat
  <2>1. Halves(P) = 2 * x + (IF second THEN 1 ELSE 0)
    BY DEF Halves
  <2>. HIDE DEF x
  <2>2. v = IF second THEN 2 * (x + 1) ELSE 2 * (x + 1) - 1
    BY <1>5
  <2>3. \A y \in Nat :
          /\ 2 * y + (IF second THEN 1 ELSE 0) \in Nat
          /\ (IF second THEN 2 * (y + 1) ELSE 2 * (y + 1) - 1)
               = 2 * y + (IF second THEN 1 ELSE 0) + 1
    OBVIOUS
  <2>. HIDE DEF v
  <2>. QED  BY <1>4, <2>1, <2>2, <2>3
<1>8. /\ P2 \in Seq(FedBursts) /\ Len(P2) \in Nat /\ Len(P2) <= bursts
      /\ Numbered(P2, bursts - Len(P2))
      /\ bursts - Len(P2) = IF second THEN x + 1 ELSE x
  <2>1. bursts - Len(P2) = IF second THEN x + 1 ELSE x
    <3>1. bursts - (Len(P) - 1) = x + 1
      <4>1. \A m, n \in Nat : m - (n - 1) = (m - n) + 1
        OBVIOUS
      <4>. QED  BY <1>3, <1>4, <4>1
    <3>. QED  BY <1>5, <3>1
  <2>2. P2 \in Seq(FedBursts) /\ Numbered(P2, bursts - Len(P2))
    BY <1>4, <1>5, <2>1
  <2>3. Len(P2) <= bursts /\ Len(P2) \in Nat
    BY <1>3, <1>4, <1>5
  <2>. QED  BY <2>1, <2>2, <2>3
<1>9. /\ "edgePropSliceStream" \in Streams /\ Width("edgePropSliceStream") = {0}
      /\ "halfPropStream" \in Streams /\ Width("halfPropStream") = {0}
      /\ Contents("halfPropStream", T) = Nat
  BY Widths, ContentsOf DEF Streams
<1>10. /\ ChanOK(c, T)
       /\ \A t \in Streams : t # "edgePropSliceStream" => c[t] = chan[t]
       /\ c["edgePropSliceStream"][0] = P2
  <2>1. CASE second
    <3>1. c = TailAt(chan, "edgePropSliceStream", 0)
      BY <2>1 DEF Popped, TailAt
    <3>2. /\ ChanOK(c, T)
          /\ \A t \in Streams : t # "edgePropSliceStream" => c[t] = chan[t]
          /\ \A j \in Width("edgePropSliceStream") : c["edgePropSliceStream"][j] =
               IF j = 0 THEN Tail(P) ELSE chan["edgePropSliceStream"][j]
      <4>1. 0 \in Width("edgePropSliceStream")
        BY <1>9
      <4>. HIDE DEF c
      <4>. QED  BY <1>1, <1>2, <1>9, <3>1, <4>1, Pop
    <3>. QED  BY <1>9, <2>1, <3>2
  <2>2. CASE ~second
    BY <1>2, <2>2
  <2>. QED  BY <2>1, <2>2
<1>. HIDE DEF c, v
<1>11. /\ ChanOK(chan', T)
       /\ \A t \in Streams : t # "halfPropStream" => chan'[t] = c[t]
       /\ chan'["halfPropStream"][0] = Append(H, v)
  <2>1. c["halfPropStream"] = chan["halfPropStream"]
    BY <1>9, <1>10
  <2>2. \A i \in {0} : i \in Width("halfPropStream") =>
           Len(c["halfPropStream"][i]) < Depth["halfPropStream"]
    BY <1>1, <2>1
  <2>3. /\ ChanOK(chan', T)
        /\ \A t \in Streams : t # "halfPropStream" => chan'[t] = c[t]
        /\ \A i \in Width("halfPropStream") : chan'["halfPropStream"][i] =
             IF i \in {0} THEN Append(c["halfPropStream"][i], v)
                          ELSE c["halfPropStream"][i]
    BY <1>1, <1>7, <1>9, <1>10, <2>2, Write
  <2>. QED  BY <1>9, <2>1, <2>3
<1>12. InputsOK' /\ TuplesToFeed' = T /\ list' = list /\ haveEdgeProp' = haveEdgeProp
  BY <1>1, <1>2, InputsFrame DEF inputVars
<1>13. /\ chan'["edgeTuplesBuffer"] = chan["edgeTuplesBuffer"]
       /\ chan'["edgePropSliceStream"][0] = P2
       /\ chan'["edgeTuplesCoupled"] = chan["edgeTuplesCoupled"]
       /\ \A s \in Chain \cup {"buildArraySlice"} : chan'[s] = chan[s]
  BY <1>10, <1>11 DEF Streams, Chain
<1>14. Halves(chan["edgePropSliceStream"][0])' = Halves(P) + 1
  <2>1. 2 * (IF second THEN x + 1 ELSE x) + (IF ~second THEN 1 ELSE 0)
          = 2 * x + (IF second THEN 1 ELSE 0) + 1
    <3>. HIDE DEF x
    <3>. QED  BY <1>4
  <2>2. bursts' - Len(chan'["edgePropSliceStream"][0]) = IF second THEN x + 1 ELSE x
    BY <1>1, <1>8, <1>13
  <2>. QED  BY <1>1, <1>7, <2>1, <2>2 DEF Halves
<1>15. /\ Append(H, v) \in Seq(Nat) /\ Len(Append(H, v)) = Len(H) + 1
       /\ \A n \in DOMAIN Append(H, v) : Append(H, v)[n] = Halves(P) - Len(H) + n
  <2>1. Halves(P) - Len(H) \in Int /\ v = Halves(P) - Len(H) + Len(H) + 1
    BY <1>6, <1>7
  <2>. HIDE DEF H
  <2>. QED  BY <1>6, <1>7, <2>1, AppendFacts, CountAppend
<1>16. HalvesInOrder(chan)' /\ Halves(chan["edgePropSliceStream"][0])' - Len(chan'["halfPropStream"][0]) = Halves(P) - Len(H)
  <2>1. (Halves(P) + 1) - (Len(H) + 1) = Halves(P) - Len(H) /\ Len(H) + 1 <= Halves(P) + 1
    BY <1>6, <1>7
  <2>2. Halves(chan["edgePropSliceStream"][0])' - Len(chan'["halfPropStream"][0]) = Halves(P) - Len(H)
    BY <1>11, <1>14, <1>15, <2>1
  <2>3. HalvesInOrder(chan)'
    BY <1>11, <1>14, <1>15, <2>1 DEF HalvesInOrder
  <2>. QED  BY <2>2, <2>3
<1>17. /\ PcOK(pc') /\ \A p \in Processes : p # "half" => pc'[p] = pc[p]
       /\ pc'["half"][0] = IF second /\ b.end THEN "done" ELSE "loop"
  <2>. HIDE DEF b
  <2>1. "half" \in Processes /\ 0 \in Width("half")
    BY Widths DEF Processes
  <2>2. CASE second
    BY <1>1, <1>2, <2>1, <2>2, StopFacts
  <2>3. CASE ~second
    BY <1>1, <1>2, <2>3
  <2>. QED  BY <2>2, <2>3
<1>18. HalfWorks(chan, pc)'
  <2>1. second' => P2 # <<>>
    BY <1>1
  <2>2. (second /\ b.end) <=> ~(2 * (IF second THEN x + 1 ELSE x) < T)
    <3>1. second => (b.end <=> 2 * (x + 1) = T)
      BY <1>5
    <3>. HIDE DEF x
    <3>2. 2 * (x + 1) = T <=> ~(2 * (x + 1) < T)
      BY <1>3, <1>4
    <3>. QED  BY <1>4, <3>1, <3>2
  <2>3. bursts' - Len(chan'["edgePropSliceStream"][0]) = IF second THEN x + 1 ELSE x
    BY <1>1, <1>8, <1>13
  <2>4. pc'["half"][0] = IF 2 * (bursts' - Len(chan'["edgePropSliceStream"][0])) < T THEN "loop" ELSE "done"
    BY <1>17, <2>2, <2>3
  <2>. QED  BY <1>1, <1>12, <1>13, <2>1, <2>4 DEF HalfWorks
<1>19. InFront(chan, pc)'
  <2>1. fed' \in 0 .. T /\ second' \in BOOLEAN /\ bursts' \in Nat /\ 2 * bursts' <= T
    BY <1>1, <1>2 DEF InFront
  <2>2. TuplesInOrder(chan)'
    BY <1>1, <1>2, <1>12, <1>13 DEF InFront, TuplesInOrder, FedTuples
  <2>3. BurstsInOrder(chan)'
    <3>1. FedBursts' = FedBursts
      BY <1>12 DEF FedBursts
    <3>. QED  BY <1>1, <1>8, <1>13, <3>1 DEF BurstsInOrder
  <2>4. PropWorks(chan, pc)'
    <3>1. pc'["prop"][0] = pc["prop"][0]
      BY <1>17 DEF Processes
    <3>2. pc["prop"][0] # "done"
      BY <1>1, <1>2 DEF InFront, PropWorks
    <3>. QED  BY <1>1, <1>2, <1>12, <1>13, <1>16, <3>1, <3>2 DEF InFront, PropWorks
  <2>5. Pairs(chan)'
    BY <1>2, <1>12, <1>13 DEF InFront, Pairs
  <2>. QED  BY <1>12, <1>16, <1>18, <2>1, <2>2, <2>3, <2>4, <2>5 DEF InFront
<1>20. Streaming(chan, pc, emit)' /\ EmitOK(pc, emit)' /\ Solved(chan, pc)'
  <2>1. pc'["prop"] = pc["prop"]
    BY <1>17 DEF Processes
  <2>. QED  BY <1>1, <1>2, <1>13, <1>17, <2>1, RearFrame
<1>. QED  BY <1>11, <1>12, <1>17, <1>19, <1>20 DEF IInv

\* A tuple meets its half, or goes on alone.
LEMMA CoupleInv ==
  ASSUME IInv, Couple
  PROVE  IInv'
<1>. DEFINE T == TuplesToFeed
            B == chan["edgeTuplesBuffer"][0]
            P == chan["edgePropSliceStream"][0]
            H == chan["halfPropStream"][0]
            K == chan["edgeTuplesCoupled"][0]
            t == Head(B)
            H2 == IF haveEdgeProp THEN Tail(H) ELSE H
            b == TailAt(chan, "edgeTuplesBuffer", 0)
            c == IF haveEdgeProp THEN TailAt(b, "halfPropStream", 0) ELSE b
            v == IF haveEdgeProp THEN [t EXCEPT !.prop = Head(H)] ELSE t
<1>1. /\ pc["prop"][0] = "loop" /\ B # <<>>
      /\ Len(K) < Depth["edgeTuplesCoupled"]
      /\ haveEdgeProp => H # <<>>
      /\ chan' = Written(c, "edgeTuplesCoupled", {0}, v)
      /\ IF t.end THEN Goto("prop", 0, "clear") ELSE UNCHANGED pc
      /\ UNCHANGED <<inputVars, fed, sent, bursts, second, emit, taken>>
  BY DEF Couple, HasRoom, HasItem, Item, In, Popped, TailAt
<1>2. /\ InputsOK /\ ChanOK(chan, T) /\ PcOK(pc) /\ InFront(chan, pc)
      /\ Streaming(chan, pc, emit) /\ EmitOK(pc, emit) /\ Solved(chan, pc)
  BY DEF IInv
<1>3. /\ T \in Nat /\ Len(list) \in Nat /\ fed \in 0 .. T
      /\ haveEdgeProp \in BOOLEAN
  BY <1>2, ListFacts DEF InFront
<1>4. /\ B \in Seq(FedTuples) /\ Len(B) \in Nat /\ Len(B) <= fed /\ Numbered(B, fed - Len(B))
      /\ fed - Len(B) \in Int /\ fed - Len(B) <= Len(list)
  BY <1>1, <1>2, <1>3, FrontTyped, LenProperties DEF InFront, TuplesInOrder, PropWorks
<1>5. /\ t \in FedTuples /\ Tail(B) \in Seq(FedTuples)
      /\ Len(Tail(B)) = Len(B) - 1 /\ Len(B) > 0
      /\ t.no = fed - Len(B) + 1 /\ Numbered(Tail(B), fed - Len(B) + 1)
  <2>1. t \in FedTuples /\ Tail(B) \in Seq(FedTuples)
        /\ Len(Tail(B)) = Len(B) - 1 /\ Len(B) > 0
    BY <1>1, <1>4, TailFacts
  <2>2. t.no = fed - Len(B) + 1 /\ Numbered(Tail(B), fed - Len(B) + 1)
    BY <1>1, <1>4, NumberedTail
  <2>. QED  BY <2>1, <2>2
<1>6. /\ t \in TupleItems(T) /\ (t.end <=> t.no > Len(list))
      /\ t = [no |-> t.no, prop |-> t.prop, end |-> t.end, edges |-> t.edges]
      /\ t.no \in 1 .. T /\ t.end \in BOOLEAN /\ t.edges \in Tuples
  BY <1>5 DEF FedTuples, TupleItems
<1>7. /\ H \in Seq(Nat) /\ Len(H) \in Nat /\ Len(H) <= Halves(P) /\ Halves(P) \in Int
      /\ \A n \in DOMAIN H : H[n] = Halves(P) - Len(H) + n
      /\ haveEdgeProp => Halves(P) - Len(H) = fed - Len(B)
  <2>1. bursts \in Int /\ Len(P) \in Int
    BY <1>2, FrontTyped, LenProperties DEF InFront
  <2>2. Halves(P) \in Int
    BY <2>1 DEF Halves
  <2>. QED  BY <1>1, <1>2, <2>2, FrontTyped, LenProperties DEF InFront, HalvesInOrder, PropWorks
<1>8. /\ H2 \in Seq(Nat) /\ Len(H2) <= Halves(P)
      /\ \A n \in DOMAIN H2 : H2[n] = Halves(P) - Len(H2) + n
      /\ haveEdgeProp => /\ Head(H) = t.no
                         /\ Halves(P) - Len(H2) = fed - Len(B) + 1
      /\ ~haveEdgeProp => H2 = H
  <2>1. CASE haveEdgeProp
    <3>1. Halves(P) - Len(H) \in Int /\ H # <<>>
      BY <1>1, <1>7, <2>1
    <3>2. /\ Head(H) = Halves(P) - Len(H) + 1
          /\ \A n \in DOMAIN Tail(H) : Tail(H)[n] = (Halves(P) - Len(H) + 1) + n
      <4>. HIDE DEF H
      <4>. QED  BY <1>7, <3>1, CountTail
    <3>3. Tail(H) \in Seq(Nat) /\ Len(Tail(H)) = Len(H) - 1
      BY <1>7, <3>1, TailFacts
    <3>4. Halves(P) - (Len(H) - 1) = Halves(P) - Len(H) + 1 /\ Len(H) - 1 <= Halves(P)
      BY <1>7
    <3>. QED  BY <1>5, <1>7, <2>1, <3>2, <3>3, <3>4
  <2>2. CASE ~haveEdgeProp
    BY <1>7, <2>2
  <2>. QED  BY <2>1, <2>2
<1>9. v \in TupleItems(T) /\ v.no = t.no /\ v.end = t.end /\ (haveEdgeProp => v.prop = v.no)
  <2>1. CASE haveEdgeProp
    <3>1. v = [no |-> t.no, prop |-> t.no, end |-> t.end, edges |-> t.edges]
      BY <1>6, <1>8, <2>1
    <3>2. t.no \in 0 .. T
      BY <1>3, <1>6
    <3>. QED  BY <1>6, <3>1, <3>2 DEF TupleItems
  <2>2. CASE ~haveEdgeProp
    BY <1>6, <2>2
  <2>. QED  BY <2>1, <2>2
<1>10. /\ \A s \in {"edgeTuplesBuffer", "halfPropStream", "edgeTuplesCoupled"} :
             s \in Streams /\ Width(s) = {0}
       /\ v \in Contents("edgeTuplesCoupled", T)
  BY <1>9, Widths, ContentsOf DEF Streams
<1>11. /\ ChanOK(b, T)
       /\ \A s \in Streams : s # "edgeTuplesBuffer" => b[s] = chan[s]
       /\ b["edgeTuplesBuffer"][0] = Tail(B)
  <2>. HIDE DEF b
  <2>1. "edgeTuplesBuffer" \in Streams /\ 0 \in Width("edgeTuplesBuffer") /\ b = TailAt(chan, "edgeTuplesBuffer", 0)
    BY <1>10 DEF b
  <2>2. \A j \in Width("edgeTuplesBuffer") : b["edgeTuplesBuffer"][j] = IF j = 0 THEN Tail(B) ELSE chan["edgeTuplesBuffer"][j]
    BY <1>1, <1>2, <2>1, Pop
  <2>3. ChanOK(b, T) /\ \A s \in Streams : s # "edgeTuplesBuffer" => b[s] = chan[s]
    BY <1>1, <1>2, <2>1, Pop
  <2>. QED  BY <2>1, <2>2, <2>3
<1>. HIDE DEF b
<1>12. /\ ChanOK(c, T)
       /\ \A s \in Streams : s \notin {"edgeTuplesBuffer", "halfPropStream"} => c[s] = chan[s]
       /\ c["edgeTuplesBuffer"][0] = Tail(B)
       /\ c["halfPropStream"][0] = H2
  <2>1. b["halfPropStream"] = chan["halfPropStream"]
    BY <1>10, <1>11
  <2>2. CASE haveEdgeProp
    <3>1. /\ "halfPropStream" \in Streams /\ 0 \in Width("halfPropStream")
          /\ c = TailAt(b, "halfPropStream", 0) /\ b["halfPropStream"][0] # <<>>
      BY <1>1, <1>10, <2>1, <2>2
    <3>. HIDE DEF c
    <3>2. \A j \in Width("halfPropStream") : c["halfPropStream"][j] = IF j = 0 THEN Tail(b["halfPropStream"][0]) ELSE b["halfPropStream"][j]
      BY <1>11, <3>1, Pop
    <3>3. ChanOK(c, T) /\ \A s \in Streams : s # "halfPropStream" => c[s] = b[s]
      BY <1>11, <3>1, Pop
    <3>. QED  BY <1>10, <1>11, <2>1, <2>2, <3>1, <3>2, <3>3
  <2>3. CASE ~haveEdgeProp
    BY <1>11, <2>1, <2>3
  <2>. QED  BY <2>2, <2>3
<1>. HIDE DEF c, v
<1>13. /\ ChanOK(chan', T)
       /\ \A s \in Streams : s # "edgeTuplesCoupled" => chan'[s] = c[s]
       /\ chan'["edgeTuplesCoupled"][0] = Append(K, v)
  <2>1. c["edgeTuplesCoupled"] = chan["edgeTuplesCoupled"]
    BY <1>10, <1>12
  <2>2. \A i \in {0} : i \in Width("edgeTuplesCoupled") =>
           Len(c["edgeTuplesCoupled"][i]) < Depth["edgeTuplesCoupled"]
    BY <1>1, <2>1
  <2>3. /\ ChanOK(chan', T)
        /\ \A s \in Streams : s # "edgeTuplesCoupled" => chan'[s] = c[s]
        /\ \A i \in Width("edgeTuplesCoupled") : chan'["edgeTuplesCoupled"][i] =
             IF i \in {0} THEN Append(c["edgeTuplesCoupled"][i], v)
                          ELSE c["edgeTuplesCoupled"][i]
    BY <1>1, <1>10, <1>12, <2>2, Write
  <2>. QED  BY <1>10, <2>1, <2>3
<1>14. InputsOK' /\ TuplesToFeed' = T /\ list' = list /\ haveEdgeProp' = haveEdgeProp
  BY <1>1, <1>2, InputsFrame DEF inputVars
<1>15. /\ chan'["edgePropSliceStream"] = chan["edgePropSliceStream"]
       /\ chan'["edgeTuplesBuffer"][0] = Tail(B)
       /\ chan'["halfPropStream"][0] = H2
       /\ \A s \in (Chain \ {"edgeTuplesCoupled"}) \cup {"buildArraySlice"} : chan'[s] = chan[s]
  BY <1>12, <1>13 DEF Streams, Chain
<1>16. /\ PcOK(pc') /\ \A p \in Processes : p # "prop" => pc'[p] = pc[p]
       /\ pc'["prop"][0] = IF t.end THEN "clear" ELSE "loop"
  <2>. HIDE DEF t
  <2>1. "prop" \in Processes /\ 0 \in Width("prop") /\ "clear" \in Places
    BY Widths DEF Processes, Places
  <2>2. CASE t.end
    BY <1>1, <1>2, <2>1, <2>2, GotoFacts
  <2>3. CASE ~t.end
    BY <1>1, <1>2, <2>3
  <2>. QED  BY <2>2, <2>3
<1>17. Halves(chan["edgePropSliceStream"][0])' = Halves(P)
  BY <1>1, <1>15 DEF Halves
<1>18. fed' - Len(chan'["edgeTuplesBuffer"][0]) = fed - Len(B) + 1
  <2>1. fed - (Len(B) - 1) = fed - Len(B) + 1
    BY <1>3, <1>4
  <2>. QED  BY <1>1, <1>5, <1>15, <2>1
<1>19. InFront(chan, pc)'
  <2>1. fed' \in 0 .. T /\ second' \in BOOLEAN /\ bursts' \in Nat /\ 2 * bursts' <= T
    BY <1>1, <1>2 DEF InFront
  <2>2. TuplesInOrder(chan)'
    <3>1. FedTuples' = FedTuples
      BY <1>14 DEF FedTuples
    <3>2. Len(Tail(B)) <= fed'
      BY <1>1, <1>3, <1>4, <1>5
    <3>. QED  BY <1>5, <1>15, <1>18, <3>1, <3>2 DEF TuplesInOrder
  <2>3. BurstsInOrder(chan)'
    BY <1>1, <1>2, <1>14, <1>15 DEF InFront, BurstsInOrder, FedBursts
  <2>4. HalvesInOrder(chan)'
    BY <1>8, <1>15, <1>17 DEF HalvesInOrder
  <2>5. pc'["half"] = pc["half"]
    BY <1>16 DEF Processes
  <2>6. HalfWorks(chan, pc)'
    BY <1>1, <1>2, <1>8, <1>14, <1>15, <2>5 DEF InFront, HalfWorks
  <2>7. PropWorks(chan, pc)'
    <3>1. ~t.end => fed - Len(B) + 1 <= Len(list)
      <4>1. ~t.end => ~(t.no > Len(list))
        BY <1>6
      <4>2. \A m, n \in Int : ~(m > n) => m <= n
        OBVIOUS
      <4>3. t.no \in Int /\ Len(list) \in Int
        BY <1>3, <1>6
      <4>4. ~t.end => t.no <= Len(list)
        BY <4>1, <4>2, <4>3
      <4>. QED  BY <1>5, <4>4
    <3>2. haveEdgeProp => Halves(P) - Len(H2) = fed - Len(B) + 1
      BY <1>8
    <3>3. pc'["prop"][0] \in {"clear", "loop"} /\ (pc'["prop"][0] = "loop" => ~t.end)
      BY <1>16
    <3>4. pc'["prop"][0] = "loop" =>
            /\ fed' - Len(chan'["edgeTuplesBuffer"][0]) <= Len(list')
            /\ haveEdgeProp' => Halves(chan["edgePropSliceStream"][0])' - Len(chan'["halfPropStream"][0])
                                  = fed' - Len(chan'["edgeTuplesBuffer"][0])
      BY <1>14, <1>15, <1>17, <1>18, <3>1, <3>2, <3>3
    <3>. QED  BY <3>3, <3>4 DEF PropWorks
  <2>8. Pairs(chan)'
    <3>1. haveEdgeProp => \A n \in DOMAIN K : K[n].prop = K[n].no
      BY <1>2 DEF InFront, Pairs
    <3>2. K \in Seq(TupleItems(T))
      BY <1>2, FrontTyped
    <3>3. ASSUME haveEdgeProp, NEW n \in DOMAIN Append(K, v)
          PROVE  Append(K, v)[n].prop = Append(K, v)[n].no
      <4>1. n \in 1 .. Len(K) \/ n = Len(K) + 1
        BY <1>9, <3>2, <3>3, AppendFacts
      <4>2. CASE n \in 1 .. Len(K)
        BY <1>9, <3>1, <3>2, <3>3, <4>2, AppendFacts
      <4>3. CASE n = Len(K) + 1
        BY <1>9, <3>2, <3>3, <4>3, AppendFacts
      <4>. QED  BY <4>1, <4>2, <4>3
    <3>. QED  BY <1>13, <1>14, <3>3 DEF Pairs
  <2>. QED  BY <1>14, <2>1, <2>2, <2>3, <2>4, <2>6, <2>7, <2>8 DEF InFront
<1>20. Streaming(chan, pc, emit)' /\ EmitOK(pc, emit)' /\ Solved(chan, pc)'
  <2>1. Ends(K, pc["prop"][0] = "loop", pc["dup"][0] = "loop")
    BY <1>2, CoupledEnds
  <2>2. (pc'["prop"][0] = "loop") <=> ~v.end
    BY <1>9, <1>16
  <2>3. K \in Seq(TupleItems(T))
    BY <1>2, FrontTyped
  <2>4. Ends(Append(K, v), pc'["prop"][0] = "loop", pc["dup"][0] = "loop")
    <3>. DEFINE w == pc["prop"][0] = "loop"
                r == pc["dup"][0] = "loop"
                w2 == pc'["prop"][0] = "loop"
    <3>1. Ends(K, w, r) /\ w /\ (w2 <=> ~v.end)
      BY <1>1, <2>1, <2>2
    <3>. HIDE DEF w, r, w2, K
    <3>2. Ends(Append(K, v), w2, r)
      BY <1>9, <2>3, <3>1, EndsAppend
    <3>. QED  BY <3>2 DEF w, r, w2
  <2>. QED  BY <1>1, <1>2, <1>13, <1>15, <1>16, <2>4, CoupledFrame
<1>. QED  BY <1>13, <1>14, <1>16, <1>19, <1>20 DEF IInv

\* What is behind the end tuple is thrown away.
LEMMA ClearTuplesInv ==
  ASSUME IInv, ClearTuples
  PROVE  IInv'
<1>. DEFINE T == TuplesToFeed
            B == chan["edgeTuplesBuffer"][0]
<1>1. /\ pc["prop"][0] = "clear"
      /\ UNCHANGED <<inputVars, fed, sent, bursts, second, emit, taken>>
  BY DEF ClearTuples, In
<1>2. /\ InputsOK /\ ChanOK(chan, T) /\ PcOK(pc) /\ InFront(chan, pc)
      /\ Streaming(chan, pc, emit) /\ EmitOK(pc, emit) /\ Solved(chan, pc)
  BY DEF IInv
<1>3. T \in Nat /\ fed \in 0 .. T
  BY <1>2, ListFacts DEF InFront
<1>4. B \in Seq(FedTuples) /\ Len(B) \in Nat /\ Len(B) <= fed /\ Numbered(B, fed - Len(B))
  BY <1>2, FrontTyped, LenProperties DEF InFront, TuplesInOrder
<1>5. InputsOK' /\ TuplesToFeed' = T /\ list' = list /\ haveEdgeProp' = haveEdgeProp
  BY <1>1, <1>2, InputsFrame DEF inputVars
<1>6. CASE B # <<>> /\ chan' = Popped("edgeTuplesBuffer", 0) /\ UNCHANGED pc
  <2>1. /\ Tail(B) \in Seq(FedTuples) /\ Len(Tail(B)) = Len(B) - 1
        /\ Numbered(Tail(B), fed - Len(B) + 1)
    <3>1. fed - Len(B) \in Int
      BY <1>3, <1>4
    <3>. QED  BY <1>4, <1>6, <3>1, TailFacts, NumberedTail
  <2>2. "edgeTuplesBuffer" \in Streams /\ 0 \in Width("edgeTuplesBuffer")
        /\ chan' = TailAt(chan, "edgeTuplesBuffer", 0)
    BY <1>6, Widths DEF Streams, Popped, TailAt
  <2>3. PICK d : d = chan'
    OBVIOUS
  <2>4. ChanOK(d, T) /\ \A s \in Streams : s # "edgeTuplesBuffer" => d[s] = chan[s]
    BY <1>2, <1>6, <2>2, <2>3, Pop
  <2>5. \A j \in Width("edgeTuplesBuffer") : d["edgeTuplesBuffer"][j] = IF j = 0 THEN Tail(B) ELSE chan["edgeTuplesBuffer"][j]
    BY <1>2, <1>6, <2>2, <2>3, Pop
  <2>6. /\ ChanOK(chan', T)
        /\ chan'["edgeTuplesBuffer"][0] = Tail(B)
        /\ chan'["edgePropSliceStream"] = chan["edgePropSliceStream"]
        /\ chan'["halfPropStream"] = chan["halfPropStream"]
        /\ chan'["edgeTuplesCoupled"] = chan["edgeTuplesCoupled"]
        /\ \A s \in Chain \cup {"buildArraySlice"} : chan'[s] = chan[s]
    BY <2>2, <2>3, <2>4, <2>5 DEF Streams, Chain
  <2>7. TuplesInOrder(chan)'
    <3>1. FedTuples' = FedTuples
      BY <1>5 DEF FedTuples
    <3>2. Len(B) - 1 <= fed /\ fed - (Len(B) - 1) = fed - Len(B) + 1
      BY <1>3, <1>4
    <3>. QED  BY <1>1, <2>1, <2>6, <3>1, <3>2 DEF TuplesInOrder
  <2>8. BurstsInOrder(chan)'
    BY <1>1, <1>2, <1>5, <2>6 DEF InFront, BurstsInOrder, FedBursts
  <2>9. HalvesInOrder(chan)'
    BY <1>1, <1>2, <2>6 DEF InFront, HalvesInOrder, Halves
  <2>10. HalfWorks(chan, pc)'
    BY <1>1, <1>2, <1>5, <1>6, <2>6 DEF InFront, HalfWorks
  <2>11. PropWorks(chan, pc)'
    BY <1>1, <1>6 DEF PropWorks
  <2>12. Pairs(chan)'
    BY <1>2, <1>5, <2>6 DEF InFront, Pairs
  <2>13. fed' \in 0 .. T /\ second' \in BOOLEAN /\ bursts' \in Nat /\ 2 * bursts' <= T
    BY <1>1, <1>2 DEF InFront
  <2>14. InFront(chan, pc)'
    BY <1>5, <2>7, <2>8, <2>9, <2>10, <2>11, <2>12, <2>13 DEF InFront
  <2>15. Streaming(chan, pc, emit)' /\ EmitOK(pc, emit)' /\ Solved(chan, pc)'
    BY <1>1, <1>2, <1>6, <2>6, RearFrame
  <2>16. PcOK(pc')
    BY <1>2, <1>6
  <2>. QED  BY <1>5, <2>6, <2>14, <2>15, <2>16 DEF IInv
<1>7. CASE B = <<>> /\ fed = T /\ Goto("prop", 0, AfterTuples) /\ UNCHANGED chan
  <2>1. "prop" \in Processes /\ 0 \in Width("prop") /\ AfterTuples \in Places
    BY Widths DEF Processes, Places, AfterTuples
  <2>2. /\ PcOK(pc') /\ \A p \in Processes : p # "prop" => pc'[p] = pc[p]
        /\ pc'["prop"][0] = AfterTuples
    BY <1>2, <1>7, <2>1, GotoFacts
  <2>3. pc'["half"] = pc["half"]
    BY <2>2 DEF Processes
  <2>4. InFront(chan, pc)'
    <3>1. TuplesInOrder(chan)'
      BY <1>1, <1>2, <1>5, <1>7 DEF InFront, TuplesInOrder, FedTuples
    <3>2. BurstsInOrder(chan)'
      BY <1>1, <1>2, <1>5, <1>7 DEF InFront, BurstsInOrder, FedBursts
    <3>3. HalvesInOrder(chan)'
      BY <1>1, <1>2, <1>7 DEF InFront, HalvesInOrder, Halves
    <3>4. HalfWorks(chan, pc)'
      BY <1>1, <1>2, <1>5, <1>7, <2>3 DEF InFront, HalfWorks
    <3>5. PropWorks(chan, pc)'
      <4>1. pc'["prop"][0] # "loop" /\ (pc'["prop"][0] = "done" => ~haveEdgeProp)
        BY <2>2 DEF AfterTuples
      <4>. QED  BY <1>1, <1>5, <1>7, <4>1 DEF PropWorks
    <3>6. Pairs(chan)'
      BY <1>2, <1>5, <1>7 DEF InFront, Pairs
    <3>7. fed' \in 0 .. T /\ second' \in BOOLEAN /\ bursts' \in Nat /\ 2 * bursts' <= T
      BY <1>1, <1>2 DEF InFront
    <3>. QED  BY <1>5, <3>1, <3>2, <3>3, <3>4, <3>5, <3>6, <3>7 DEF InFront
  <2>5. Streaming(chan, pc, emit)' /\ EmitOK(pc, emit)' /\ Solved(chan, pc)'
    <3>1. (pc'["prop"][0] = "loop") <=> (pc["prop"][0] = "loop")
      BY <1>1, <2>2 DEF AfterTuples
    <3>2. \A s \in Chain \cup {"buildArraySlice"} : chan'[s] = chan[s]
      BY <1>7
    <3>. QED  BY <1>1, <1>2, <2>2, <3>1, <3>2, RearFrame
  <2>6. ChanOK(chan', T)
    BY <1>2, <1>7
  <2>. QED  BY <1>5, <2>2, <2>4, <2>5, <2>6 DEF IInv
<1>8. \/ B # <<>> /\ chan' = Popped("edgeTuplesBuffer", 0) /\ UNCHANGED pc
      \/ B = <<>> /\ fed = T /\ Goto("prop", 0, AfterTuples) /\ UNCHANGED chan
  BY DEF ClearTuples, HasItem
<1>. QED  BY <1>6, <1>7, <1>8

\* So are the halves of the end block.
LEMMA ClearPropsInv ==
  ASSUME IInv, ClearProps
  PROVE  IInv'
<1>. DEFINE T == TuplesToFeed
            H == chan["halfPropStream"][0]
            P == chan["edgePropSliceStream"][0]
<1>1. /\ pc["prop"][0] = "clearProp"
      /\ UNCHANGED <<inputVars, fed, sent, bursts, second, emit, taken>>
  BY DEF ClearProps, In
<1>2. /\ InputsOK /\ ChanOK(chan, T) /\ PcOK(pc) /\ InFront(chan, pc)
      /\ Streaming(chan, pc, emit) /\ EmitOK(pc, emit) /\ Solved(chan, pc)
  BY DEF IInv
<1>3. /\ fed = T /\ chan["edgeTuplesBuffer"][0] = <<>>
  BY <1>1, <1>2 DEF InFront, PropWorks
<1>4. /\ H \in Seq(Nat) /\ Len(H) \in Nat /\ Len(H) <= Halves(P) /\ Halves(P) \in Int
      /\ \A n \in DOMAIN H : H[n] = Halves(P) - Len(H) + n
  <2>1. bursts \in Int /\ Len(P) \in Int
    BY <1>2, FrontTyped, LenProperties DEF InFront
  <2>2. Halves(P) \in Int
    BY <2>1 DEF Halves
  <2>. QED  BY <1>2, <2>2, FrontTyped, LenProperties DEF InFront, HalvesInOrder
<1>5. InputsOK' /\ TuplesToFeed' = T /\ list' = list /\ haveEdgeProp' = haveEdgeProp
  BY <1>1, <1>2, InputsFrame DEF inputVars
<1>6. CASE H # <<>> /\ chan' = Popped("halfPropStream", 0) /\ UNCHANGED pc
  <2>1. /\ Tail(H) \in Seq(Nat) /\ Len(Tail(H)) = Len(H) - 1
        /\ \A n \in DOMAIN Tail(H) : Tail(H)[n] = (Halves(P) - Len(H) + 1) + n
    <3>1. Halves(P) - Len(H) \in Int
      BY <1>4
    <3>. HIDE DEF H
    <3>. QED  BY <1>4, <1>6, <3>1, TailFacts, CountTail
  <2>2. "halfPropStream" \in Streams /\ 0 \in Width("halfPropStream")
        /\ chan' = TailAt(chan, "halfPropStream", 0)
    BY <1>6, Widths DEF Streams, Popped, TailAt
  <2>3. PICK d : d = chan'
    OBVIOUS
  <2>4. ChanOK(d, T) /\ \A s \in Streams : s # "halfPropStream" => d[s] = chan[s]
    BY <1>2, <1>6, <2>2, <2>3, Pop
  <2>5. \A j \in Width("halfPropStream") : d["halfPropStream"][j] = IF j = 0 THEN Tail(H) ELSE chan["halfPropStream"][j]
    BY <1>2, <1>6, <2>2, <2>3, Pop
  <2>6. /\ ChanOK(chan', T)
        /\ chan'["halfPropStream"][0] = Tail(H)
        /\ chan'["edgePropSliceStream"] = chan["edgePropSliceStream"]
        /\ chan'["edgeTuplesBuffer"] = chan["edgeTuplesBuffer"]
        /\ chan'["edgeTuplesCoupled"] = chan["edgeTuplesCoupled"]
        /\ \A s \in Chain \cup {"buildArraySlice"} : chan'[s] = chan[s]
    BY <2>2, <2>3, <2>4, <2>5 DEF Streams, Chain
  <2>7. TuplesInOrder(chan)'
    BY <1>1, <1>2, <1>5, <2>6 DEF InFront, TuplesInOrder, FedTuples
  <2>8. BurstsInOrder(chan)'
    BY <1>1, <1>2, <1>5, <2>6 DEF InFront, BurstsInOrder, FedBursts
  <2>9. HalvesInOrder(chan)'
    <3>1. Halves(chan["edgePropSliceStream"][0])' = Halves(P)
      BY <1>1, <2>6 DEF Halves
    <3>2. Len(H) - 1 <= Halves(P) /\ Halves(P) - (Len(H) - 1) = Halves(P) - Len(H) + 1
      BY <1>4
    <3>. QED  BY <2>1, <2>6, <3>1, <3>2 DEF HalvesInOrder
  <2>10. HalfWorks(chan, pc)'
    <3>1. haveEdgeProp
      BY <1>2, <1>6 DEF InFront, HalfWorks
    <3>. QED  BY <1>1, <1>2, <1>5, <1>6, <2>6, <3>1 DEF InFront, HalfWorks
  <2>11. PropWorks(chan, pc)'
    BY <1>1, <1>3, <1>5, <1>6, <2>6 DEF PropWorks
  <2>12. Pairs(chan)'
    BY <1>2, <1>5, <2>6 DEF InFront, Pairs
  <2>13. fed' \in 0 .. T /\ second' \in BOOLEAN /\ bursts' \in Nat /\ 2 * bursts' <= T
    BY <1>1, <1>2 DEF InFront
  <2>14. InFront(chan, pc)'
    BY <1>5, <2>7, <2>8, <2>9, <2>10, <2>11, <2>12, <2>13 DEF InFront
  <2>15. Streaming(chan, pc, emit)' /\ EmitOK(pc, emit)' /\ Solved(chan, pc)'
    BY <1>1, <1>2, <1>6, <2>6, RearFrame
  <2>16. PcOK(pc')
    BY <1>2, <1>6
  <2>. QED  BY <1>5, <2>6, <2>14, <2>15, <2>16 DEF IInv
<1>7. CASE H = <<>> /\ pc["half"][0] = "done" /\ Goto("prop", 0, "done") /\ UNCHANGED chan
  <2>1. "prop" \in Processes /\ 0 \in Width("prop") /\ "done" \in Places
    BY Widths DEF Processes, Places
  <2>2. /\ PcOK(pc') /\ \A p \in Processes : p # "prop" => pc'[p] = pc[p]
        /\ pc'["prop"][0] = "done"
    BY <1>2, <1>7, <2>1, GotoFacts
  <2>3. pc'["half"] = pc["half"]
    BY <2>2 DEF Processes
  <2>4. InFront(chan, pc)'
    <3>1. TuplesInOrder(chan)'
      BY <1>1, <1>2, <1>5, <1>7 DEF InFront, TuplesInOrder, FedTuples
    <3>2. BurstsInOrder(chan)'
      BY <1>1, <1>2, <1>5, <1>7 DEF InFront, BurstsInOrder, FedBursts
    <3>3. HalvesInOrder(chan)'
      BY <1>1, <1>2, <1>7 DEF InFront, HalvesInOrder, Halves
    <3>4. HalfWorks(chan, pc)'
      BY <1>1, <1>2, <1>5, <1>7, <2>3 DEF InFront, HalfWorks
    <3>5. PropWorks(chan, pc)'
      BY <1>1, <1>3, <1>5, <1>7, <2>2, <2>3 DEF PropWorks
    <3>6. Pairs(chan)'
      BY <1>2, <1>5, <1>7 DEF InFront, Pairs
    <3>7. fed' \in 0 .. T /\ second' \in BOOLEAN /\ bursts' \in Nat /\ 2 * bursts' <= T
      BY <1>1, <1>2 DEF InFront
    <3>. QED  BY <1>5, <3>1, <3>2, <3>3, <3>4, <3>5, <3>6, <3>7 DEF InFront
  <2>5. Streaming(chan, pc, emit)' /\ EmitOK(pc, emit)' /\ Solved(chan, pc)'
    <3>1. (pc'["prop"][0] = "loop") <=> (pc["prop"][0] = "loop")
      BY <1>1, <2>2
    <3>2. \A s \in Chain \cup {"buildArraySlice"} : chan'[s] = chan[s]
      BY <1>7
    <3>. QED  BY <1>1, <1>2, <2>2, <3>1, <3>2, RearFrame
  <2>6. ChanOK(chan', T)
    BY <1>2, <1>7
  <2>. QED  BY <1>5, <2>2, <2>4, <2>5, <2>6 DEF IInv
<1>8. \/ H # <<>> /\ chan' = Popped("halfPropStream", 0) /\ UNCHANGED pc
      \/ H = <<>> /\ pc["half"][0] = "done" /\ Goto("prop", 0, "done") /\ UNCHANGED chan
  BY DEF ClearProps, HasItem, In
<1>. QED  BY <1>6, <1>7, <1>8

(***************************************************************************)
(* Behind propProcess.                                                     *)
(***************************************************************************)

\* A stream has one writer and one reader, and no process both of a stream.
LEMMA Links ==
  /\ \A s \in Chain : /\ Reader(s) \in Processes /\ Writer(s) \in Processes
                      /\ Reader(s) # Writer(s)
                      /\ Reader(s) \notin {"half", "prop", "solver"}
                      /\ Writer(s) \notin {"half", "solver"}
                      /\ Width(Reader(s)) = Width(s)
  /\ \A s, t \in Chain : Reader(s) = Reader(t) => s = t
  /\ \A s, t \in Chain : Writer(s) = Writer(t) => s = t
  /\ Chain \subseteq Streams
<1>1. \A s \in Chain : /\ Reader(s) \in Processes /\ Writer(s) \in Processes
                       /\ Reader(s) # Writer(s)
                       /\ Reader(s) \notin {"half", "prop", "solver"}
                       /\ Writer(s) \notin {"half", "solver"}
  BY DEF Chain, Reader, Writer, Processes
<1>2. ASSUME NEW s \in Chain PROVE Width(Reader(s)) = Width(s)
  BY Widths DEF Chain, Reader
<1>3. \A s, t \in Chain : Reader(s) = Reader(t) => s = t
  BY DEF Chain, Reader
<1>4. \A s, t \in Chain : Writer(s) = Writer(t) => s = t
  BY DEF Chain, Writer
<1>. QED  BY <1>1, <1>2, <1>3, <1>4 DEF Chain, Streams

\* The lanes are divided evenly among the outputs of the first duplicator.
LEMMA GroupIndex ==
  ASSUME NEW l \in Lanes
  PROVE  l \div (PE_NUM \div LAYER1) \in Layer1
<1>. DEFINE g == PE_NUM \div LAYER1
<1>1. /\ PE_NUM \in Nat \ {0} /\ LAYER1 \in Nat \ {0} /\ PE_NUM % LAYER1 = 0
      /\ l \in Nat /\ l < PE_NUM
  BY ShuffleAssumption DEF Lanes
<1>2. g \in Nat /\ PE_NUM = LAYER1 * g
  BY <1>1
<1>3. g \in Nat \ {0}
  BY <1>1, <1>2
<1>. HIDE DEF g
<1>. DEFINE q == l \div g
<1>4. q \in Nat /\ g * q <= l
  BY <1>1, <1>3
<1>5. q < LAYER1
  <2>. HIDE DEF q
  <2>. SUFFICES ASSUME q >= LAYER1 PROVE FALSE
    BY <1>1, <1>4
  <2>1. PICK d \in Nat : q = LAYER1 + d
    <3>1. q - LAYER1 \in Nat /\ q = LAYER1 + (q - LAYER1)
      BY <1>1, <1>4
    <3>. QED  BY <3>1
  <2>2. g * q = LAYER1 * g + g * d /\ g * d \in Nat
    BY <1>1, <1>3, <2>1
  <2>3. g * q \in Nat
    BY <1>3, <1>4
  <2>. QED  BY <1>1, <1>2, <1>4, <2>2, <2>3
<1>. QED  BY <1>1, <1>4, <1>5 DEF Layer1, q, g

LEMMA WriterIndices ==
  ASSUME NEW s \in Chain, NEW i \in Width(s)
  PROVE  WriterIndex(s, i) \in Width(Writer(s))
<1>1. CASE s = "edgeTuplesCoupled"
  BY <1>1, Widths DEF WriterIndex, Writer
<1>2. CASE s = "edgeTuplesLayer1"
  BY <1>2, Widths DEF WriterIndex, Writer
<1>3. CASE s = "edgeTuplesArray"
  <2>1. i \in Lanes /\ WriterIndex(s, i) = i \div (PE_NUM \div LAYER1) /\ Writer(s) = "dup4"
    BY <1>3, Widths DEF WriterIndex, Writer
  <2>. QED  BY <2>1, GroupIndex, Widths
<1>4. CASE s \in {"toFilterArraySlice", "toFilterArray", "toFilterArraySlice2", "buildArray"}
  BY <1>4, Widths DEF WriterIndex, Writer
<1>. QED  BY <1>1, <1>2, <1>3, <1>4 DEF Chain

\* A process behind propProcess takes an item from one stream and writes one
\* to each of its outputs, or, if the item is not the end, to none.
Moves(p, i, from, to, sends, v) ==
  LET item    == Head(chan[from][i])
      outputs == {j \in Width(to) : WriterIndex(to, j) = i} IN
    /\ pc[p][i] = "loop" /\ chan[from][i] # <<>>
    /\ sends => /\ v \in Contents(to, TuplesToFeed) /\ (v.end <=> item.end)
                /\ \A j \in outputs : Len(chan[to][j]) < Depth[to]
    /\ ~sends => ~item.end
    /\ chan' = IF sends THEN Written(TailAt(chan, from, i), to, outputs, v)
                        ELSE TailAt(chan, from, i)
    /\ StopAfter(p, i, item)
    /\ UNCHANGED <<inputVars, fed, sent, bursts, second, emit, taken>>

LEMMA PairsTail ==
  ASSUME ChanOK(chan, TuplesToFeed), Pairs(chan), haveEdgeProp' = haveEdgeProp,
         \/ chan'["edgeTuplesCoupled"][0] = chan["edgeTuplesCoupled"][0]
         \/ /\ chan["edgeTuplesCoupled"][0] # <<>>
            /\ chan'["edgeTuplesCoupled"][0] = Tail(chan["edgeTuplesCoupled"][0])
  PROVE  Pairs(chan)'
<1>. DEFINE K == chan["edgeTuplesCoupled"][0]
            k == chan'["edgeTuplesCoupled"][0]
<1>1. K \in Seq(TupleItems(TuplesToFeed))
  BY FrontTyped
<1>2. haveEdgeProp => \A n \in DOMAIN K : K[n].prop = K[n].no
  BY DEF Pairs
<1>3. CASE k = K
  BY <1>2, <1>3 DEF Pairs
<1>4. CASE K # <<>> /\ k = Tail(K)
  <2>1. DOMAIN K = 1 .. Len(K) /\ DOMAIN k = 1 .. Len(K) - 1 /\ Len(K) \in Nat
        /\ \A n \in 1 .. Len(K) - 1 : k[n] = K[n + 1]
    BY <1>1, <1>4, TailFacts
  <2>2. \A n \in 1 .. Len(K) - 1 : n + 1 \in 1 .. Len(K)
    BY <2>1
  <2>3. haveEdgeProp => \A n \in DOMAIN k : k[n].prop = k[n].no
    BY <1>2, <2>1, <2>2
  <2>. QED  BY <2>3 DEF Pairs
<1>. QED  BY <1>3, <1>4

LEMMA MovesInv ==
  ASSUME IInv, NEW from \in Chain \ {"toFilterArraySlice2"},
         NEW to \in (Chain \ {"edgeTuplesCoupled", "buildArray"}) \cup {"buildArraySlice"},
         Reader(from) = Writer(to), NEW i \in Width(from), NEW sends \in BOOLEAN, NEW v,
         Moves(Reader(from), i, from, to, sends, v)
  PROVE  IInv'
<1>. DEFINE T == TuplesToFeed
            p == Reader(from)
            C == chan[from][i]
            item == Head(C)
            outputs == {j \in Width(to) : WriterIndex(to, j) = i}
            c == TailAt(chan, from, i)
<1>1. /\ pc[p][i] = "loop" /\ C # <<>>
      /\ sends => v \in Contents(to, T) /\ (v.end <=> item.end)
      /\ sends => \A j \in outputs : Len(chan[to][j]) < Depth[to]
      /\ ~sends => ~item.end
      /\ chan' = IF sends THEN Written(c, to, outputs, v) ELSE c
      /\ StopAfter(p, i, item)
      /\ UNCHANGED <<inputVars, fed, sent, bursts, second, emit, taken>>
  BY DEF Moves
<1>2. /\ InputsOK /\ ChanOK(chan, T) /\ PcOK(pc) /\ InFront(chan, pc)
      /\ Streaming(chan, pc, emit) /\ EmitOK(pc, emit) /\ Solved(chan, pc)
  BY DEF IInv
<1>3. /\ from \in Chain /\ from \in Streams /\ to \in Streams /\ from # to
      /\ p \in Processes /\ i \in Width(p)
      /\ p \notin {"half", "prop", "solver", "filter"}
      /\ Writer(from) # p
      /\ C \in Seq(Contents(from, T))
  <2>1. p # "filter"
    BY DEF Chain, Reader
  <2>2. from # to
    BY Links DEF Chain
  <2>. QED  BY <1>2, <2>1, <2>2, Links, Typed DEF Chain, Streams
<1>. HIDE DEF c, outputs
<1>4. /\ ChanOK(c, T)
      /\ \A s \in Streams : s # from => c[s] = chan[s]
      /\ \A j \in Width(from) : c[from][j] = IF j = i THEN Tail(C) ELSE chan[from][j]
  <2>1. c = TailAt(chan, from, i)
    BY DEF c
  <2>. QED  BY <1>1, <1>2, <1>3, <2>1, Pop
<1>5. /\ ChanOK(chan', T)
      /\ \A s \in Streams : s # to => chan'[s] = c[s]
      /\ \A j \in Width(to) : chan'[to][j] = IF sends /\ j \in outputs THEN Append(chan[to][j], v)
                                             ELSE chan[to][j]
  <2>1. CASE sends
    <3>1. c[to] = chan[to]
      BY <1>3, <1>4
    <3>2. \A j \in outputs : j \in Width(to) => Len(c[to][j]) < Depth[to]
      BY <1>1, <2>1, <3>1
    <3>3. PICK d : d = chan'
      OBVIOUS
    <3>4. d = Written(c, to, outputs, v) /\ v \in Contents(to, T)
      BY <1>1, <2>1, <3>3
    <3>5. ChanOK(d, T) /\ \A s \in Streams : s # to => d[s] = c[s]
      BY <1>3, <1>4, <3>2, <3>4, Write
    <3>6. \A j \in Width(to) : d[to][j] = IF j \in outputs THEN Append(c[to][j], v) ELSE c[to][j]
      BY <1>3, <1>4, <3>2, <3>4, Write
    <3>. QED  BY <2>1, <3>1, <3>3, <3>5, <3>6
  <2>2. CASE ~sends
    BY <1>1, <1>3, <1>4, <2>2
  <2>. QED  BY <2>1, <2>2
<1>6. /\ PcOK(pc') /\ \A t \in Processes : t # p => pc'[t] = pc[t]
      /\ \A j \in Width(p) : j # i => pc'[p][j] = pc[p][j]
      /\ pc'[p][i] = IF item.end THEN "done" ELSE "loop"
  <2>. HIDE DEF p, item
  <2>. QED  BY <1>1, <1>2, <1>3, StopFacts
<1>. HIDE DEF p
<1>7. ASSUME NEW s \in Chain, NEW j \in Width(s)
      PROVE  Ends(chan'[s][j], Writing(s, j, pc'), Reading(s, j, pc', emit'))
  <2>1. Ends(chan[s][j], Writing(s, j, pc), Reading(s, j, pc, emit))
    BY <1>2 DEF Streaming
  <2>2. /\ Reader(s) \in Processes /\ Writer(s) \in Processes /\ Width(Reader(s)) = Width(s)
        /\ WriterIndex(s, j) \in Width(Writer(s)) /\ s \in Streams
    BY Links, WriterIndices
  <2>3. CASE s = from /\ j = i
    <3>1. chan'[s][j] = Tail(C)
      BY <1>3, <1>4, <1>5, <2>3
    <3>2. Writing(s, j, pc') <=> Writing(s, j, pc)
      BY <1>3, <1>6, <2>2, <2>3 DEF Writing
    <3>3. Reading(s, j, pc, emit) /\ (Reading(s, j, pc', emit') <=> ~item.end)
      BY <1>1, <1>6, <2>3 DEF Reading, p
    <3>. DEFINE w == Writing(s, j, pc)
                r == Reading(s, j, pc, emit)
                r2 == Reading(s, j, pc', emit')
    <3>4. Ends(C, w, r) /\ r /\ (r2 <=> ~item.end)
      BY <2>1, <2>3, <3>3
    <3>. HIDE DEF w, r, r2, C
    <3>5. Ends(Tail(C), w, r2)
      BY <1>1, <1>3, <3>4, EndsTake
    <3>6. Ends(chan'[s][j], w, r2)
      BY <3>1, <3>5
    <3>. QED  BY <3>2, <3>6 DEF Ends, w, r2
  <2>4. CASE s = to /\ j \in outputs
    <3>1. Reader(s) # p
      BY <1>3, <2>2, <2>4, Links DEF p
    <3>2. Reading(s, j, pc', emit') <=> Reading(s, j, pc, emit)
      BY <1>1, <1>6, <2>2, <3>1 DEF Reading
    <3>3. Writer(s) = p /\ WriterIndex(s, j) = i
      BY <2>4 DEF p, outputs
    <3>4. Writing(s, j, pc) /\ (Writing(s, j, pc') <=> ~item.end)
      BY <1>1, <1>6, <3>3 DEF Writing
    <3>5. CASE sends
      <4>1. chan'[s][j] = Append(chan[s][j], v)
        BY <1>5, <2>4, <3>5
      <4>2. v \in Contents(s, T) /\ chan[s][j] \in Seq(Contents(s, T)) /\ (item.end <=> v.end)
        BY <1>1, <1>2, <2>2, <2>4, <3>5, Typed
      <4>. DEFINE w == Writing(s, j, pc)
                  r == Reading(s, j, pc, emit)
                  w2 == Writing(s, j, pc')
                  X == chan[s][j]
      <4>3. Ends(X, w, r) /\ w /\ (w2 <=> ~v.end) /\ X \in Seq(Contents(s, T))
        BY <2>1, <3>4, <4>2
      <4>. HIDE DEF w, r, w2, X
      <4>4. Ends(Append(X, v), w2, r)
        BY <4>2, <4>3, EndsAppend
      <4>5. Ends(chan'[s][j], w2, r)
        BY <4>1, <4>4 DEF X
      <4>. QED  BY <3>2, <4>5 DEF Ends, w2, r
    <3>6. CASE ~sends
      <4>1. chan'[s][j] = chan[s][j] /\ ~item.end
        BY <1>1, <1>5, <2>4, <3>6
      <4>. QED  BY <2>1, <3>2, <3>4, <4>1 DEF Ends
    <3>. QED  BY <3>5, <3>6
  <2>5. CASE ~(s = from /\ j = i) /\ ~(s = to /\ j \in outputs)
    <3>1. chan'[s][j] = chan[s][j]
      <4>1. CASE s = to
        BY <1>5, <2>5, <4>1
      <4>2. CASE s = from
        BY <1>3, <1>4, <1>5, <2>5, <4>2
      <4>3. CASE s # to /\ s # from
        BY <1>4, <1>5, <2>2, <4>3
      <4>. QED  BY <4>1, <4>2, <4>3
    <3>2. Writing(s, j, pc') <=> Writing(s, j, pc)
      <4>1. CASE Writer(s) = p
        <5>1. s = to
          <6>1. CASE to \in Chain
            BY <4>1, <6>1, Links DEF p
          <6>2. CASE to = "buildArraySlice"
            BY <4>1, <6>2 DEF p, Writer, Chain
          <6>. QED  BY <6>1, <6>2
        <5>2. WriterIndex(s, j) # i
          BY <2>5, <5>1 DEF outputs
        <5>. QED  BY <1>6, <2>2, <4>1, <5>2 DEF Writing
      <4>2. CASE Writer(s) # p
        BY <1>6, <2>2, <4>2 DEF Writing
      <4>. QED  BY <4>1, <4>2
    <3>3. Reading(s, j, pc', emit') <=> Reading(s, j, pc, emit)
      <4>1. CASE Reader(s) = p
        <5>1. s = from
          BY <1>3, <4>1, Links DEF p
        <5>2. j # i /\ j \in Width(p)
          BY <2>2, <2>5, <4>1, <5>1
        <5>. QED  BY <1>1, <1>6, <4>1, <5>2 DEF Reading
      <4>2. CASE Reader(s) # p
        BY <1>1, <1>6, <2>2, <4>2 DEF Reading
      <4>. QED  BY <4>1, <4>2
    <3>. QED  BY <2>1, <3>1, <3>2, <3>3 DEF Ends
  <2>. QED  BY <2>3, <2>4, <2>5
<1>8. Streaming(chan, pc, emit)'
  BY <1>7 DEF Streaming
<1>9. EmitOK(pc, emit)'
  <2>1. pc'["filter"] = pc["filter"]
    BY <1>3, <1>6 DEF Processes
  <2>. QED  BY <1>1, <1>2, <2>1 DEF EmitOK
<1>10. Solved(chan, pc)'
  <2>. SUFFICES ASSUME NEW l \in Lanes, pc'["solver"][l] = "done"
                PROVE  pc'["build"][l] = "done" /\ chan'["buildArraySlice"][l] = <<>>
    BY DEF Solved
  <2>1. pc'["solver"] = pc["solver"]
    BY <1>3, <1>6 DEF Processes
  <2>2. pc["build"][l] = "done" /\ chan["buildArraySlice"][l] = <<>>
    BY <1>2, <2>1 DEF Solved
  <2>3. CASE to = "buildArraySlice"
    <3>1. p = "build" /\ outputs = {j \in Lanes : j = i} /\ Width(p) = Lanes
      BY <2>3, Widths DEF p, Writer, outputs, WriterIndex
    <3>2. l # i
      BY <1>1, <2>2, <3>1
    <3>. QED  BY <1>5, <1>6, <2>2, <2>3, <3>1, <3>2, Widths
  <2>4. CASE to # "buildArraySlice"
    <3>1. p # "build"
      BY <2>4 DEF p, Writer, Chain
    <3>2. pc'["build"] = pc["build"] /\ chan'["buildArraySlice"] = chan["buildArraySlice"]
      BY <1>4, <1>5, <1>6, <2>4, <3>1 DEF Processes, Streams, Chain
    <3>. QED  BY <2>2, <3>2
  <2>. QED  BY <2>3, <2>4
<1>11. InputsOK' /\ TuplesToFeed' = T /\ list' = list /\ haveEdgeProp' = haveEdgeProp
  BY <1>1, <1>2, InputsFrame DEF inputVars
<1>12. InFront(chan, pc)'
  <2>1. \A s \in FrontStreams : chan'[s] = chan[s]
    BY <1>4, <1>5 DEF FrontStreams, Streams, Chain
  <2>2. pc'["half"][0] = pc["half"][0] /\ pc'["prop"][0] = pc["prop"][0]
    BY <1>3, <1>6 DEF Processes
  <2>3. Pairs(chan)'
    <3>1. "edgeTuplesCoupled" \in Streams /\ Width("edgeTuplesCoupled") = {0} /\ to # "edgeTuplesCoupled"
      BY Widths DEF Streams
    <3>2. CASE from = "edgeTuplesCoupled"
      BY <1>1, <1>2, <1>4, <1>5, <1>11, <3>1, <3>2, PairsTail DEF InFront
    <3>3. CASE from # "edgeTuplesCoupled"
      BY <1>2, <1>4, <1>5, <1>11, <3>1, <3>3, PairsTail DEF InFront
    <3>. QED  BY <3>2, <3>3
  <2>. QED  BY <1>1, <1>2, <1>11, <2>1, <2>2, <2>3, FrontFrame
<1>. QED  BY <1>5, <1>6, <1>8, <1>9, <1>10, <1>11, <1>12 DEF IInv

LEMMA FunctionSeq ==
  ASSUME NEW S, NEW n \in Nat, NEW f \in [1 .. n -> S]
  PROVE  f \in Seq(S) /\ Len(f) = n
<1>1. f \in Seq(S)
  BY SeqDef
<1>. QED  BY <1>1

LEMMA FilterItem ==
  ASSUME NEW e \in BOOLEAN, NEW d \in Seq(Edges), Len(d) \in 1 .. EDGE_NUM
  PROVE  [end |-> e, data |-> d] \in FilterItems
  BY DEF FilterItems

\* Duplicators and slices send every item on.
LEMMA ForwardInv ==
  ASSUME IInv, NEW from \in Chain \ {"toFilterArraySlice2"},
         NEW to \in (Chain \ {"edgeTuplesCoupled", "buildArray"}) \cup {"buildArraySlice"},
         Reader(from) = Writer(to), NEW i \in Width(from), NEW p, p = Reader(from),
         NEW outputs, outputs = {j \in Width(to) : WriterIndex(to, j) = i},
         Contents(from, TuplesToFeed) = Contents(to, TuplesToFeed),
         Forward(p, i, from, to, outputs)
  PROVE  IInv'
<1>. DEFINE item == Head(chan[from][i])
<1>1. /\ pc[p][i] = "loop" /\ chan[from][i] # <<>>
      /\ \A j \in outputs : Len(chan[to][j]) < Depth[to]
      /\ chan' = Written(TailAt(chan, from, i), to, outputs, item)
      /\ StopAfter(p, i, item)
      /\ UNCHANGED <<inputVars, fed, sent, bursts, second, emit, taken>>
  BY DEF Forward, In, HasItem, HasRoom, Item, Popped, TailAt
<1>2. chan[from][i] \in Seq(Contents(from, TuplesToFeed))
  BY Typed, Links DEF IInv
<1>3. item \in Contents(to, TuplesToFeed)
  BY <1>1, <1>2, TailFacts
<1>4. Moves(p, i, from, to, TRUE, item)
  BY <1>1, <1>3 DEF Moves
<1>. HIDE DEF item
<1>. QED  BY <1>4, MovesInv

LEMMA DuplicateInv ==
  ASSUME IInv, Duplicate
  PROVE  IInv'
<1>1. ASSUME Forward("dup", 0, "edgeTuplesCoupled", "edgeTuplesLayer1", Layer1)
      PROVE  IInv'
  <2>1. /\ "edgeTuplesCoupled" \in Chain \ {"toFilterArraySlice2"}
        /\ "edgeTuplesLayer1" \in (Chain \ {"edgeTuplesCoupled", "buildArray"}) \cup {"buildArraySlice"}
        /\ Reader("edgeTuplesCoupled") = "dup" /\ Writer("edgeTuplesLayer1") = "dup"
    BY DEF Chain, Reader, Writer
  <2>2. Layer1 = {j \in Width("edgeTuplesLayer1") : WriterIndex("edgeTuplesLayer1", j) = 0}
    BY Widths DEF WriterIndex
  <2>3. 0 \in Width("edgeTuplesCoupled")
        /\ Contents("edgeTuplesCoupled", TuplesToFeed) = Contents("edgeTuplesLayer1", TuplesToFeed)
    BY Widths, ContentsOf
  <2>. QED  BY <1>1, <2>1, <2>2, <2>3, ForwardInv
<1>2. ASSUME NEW i \in Layer1,
             Forward("dup4", i, "edgeTuplesLayer1", "edgeTuplesArray", Group(i))
      PROVE  IInv'
  <2>1. /\ "edgeTuplesLayer1" \in Chain \ {"toFilterArraySlice2"}
        /\ "edgeTuplesArray" \in (Chain \ {"edgeTuplesCoupled", "buildArray"}) \cup {"buildArraySlice"}
        /\ Reader("edgeTuplesLayer1") = "dup4" /\ Writer("edgeTuplesArray") = "dup4"
    BY DEF Chain, Reader, Writer
  <2>2. Group(i) = {j \in Width("edgeTuplesArray") : WriterIndex("edgeTuplesArray", j) = i}
    BY Widths DEF WriterIndex, Group
  <2>3. i \in Width("edgeTuplesLayer1")
        /\ Contents("edgeTuplesLayer1", TuplesToFeed) = Contents("edgeTuplesArray", TuplesToFeed)
    BY Widths, ContentsOf
  <2>. QED  BY <1>2, <2>1, <2>2, <2>3, ForwardInv
<1>. QED  BY <1>1, <1>2 DEF Duplicate

LEMMA SliceInv ==
  ASSUME IInv, NEW l \in Lanes, Slice(l)
  PROVE  IInv'
<1>1. \A s \in {"toFilterArray", "toFilterArraySlice2", "buildArraySlice"} :
         {l} = {j \in Width(s) : WriterIndex(s, j) = l}
  BY Widths DEF WriterIndex
<1>2. ASSUME Forward("slice", l, "toFilterArraySlice", "toFilterArray", {l})
      PROVE  IInv'
  <2>1. /\ "toFilterArraySlice" \in Chain \ {"toFilterArraySlice2"}
        /\ "toFilterArray" \in (Chain \ {"edgeTuplesCoupled", "buildArray"}) \cup {"buildArraySlice"}
        /\ Reader("toFilterArraySlice") = "slice" /\ Writer("toFilterArray") = "slice"
    BY DEF Chain, Reader, Writer
  <2>2. l \in Width("toFilterArraySlice")
        /\ Contents("toFilterArraySlice", TuplesToFeed) = Contents("toFilterArray", TuplesToFeed)
    BY Widths, ContentsOf
  <2>. QED  BY <1>1, <1>2, <2>1, <2>2, ForwardInv
<1>3. ASSUME Forward("slice2", l, "toFilterArray", "toFilterArraySlice2", {l})
      PROVE  IInv'
  <2>1. /\ "toFilterArray" \in Chain \ {"toFilterArraySlice2"}
        /\ "toFilterArraySlice2" \in (Chain \ {"edgeTuplesCoupled", "buildArray"}) \cup {"buildArraySlice"}
        /\ Reader("toFilterArray") = "slice2" /\ Writer("toFilterArraySlice2") = "slice2"
    BY DEF Chain, Reader, Writer
  <2>2. l \in Width("toFilterArray")
        /\ Contents("toFilterArray", TuplesToFeed) = Contents("toFilterArraySlice2", TuplesToFeed)
    BY Widths, ContentsOf
  <2>. QED  BY <1>1, <1>3, <2>1, <2>2, ForwardInv
<1>4. ASSUME Forward("build", l, "buildArray", "buildArraySlice", {l})
      PROVE  IInv'
  <2>1. /\ "buildArray" \in Chain \ {"toFilterArraySlice2"}
        /\ Reader("buildArray") = "build" /\ Writer("buildArraySlice") = "build"
    BY DEF Chain, Reader, Writer
  <2>2. l \in Width("buildArray")
        /\ Contents("buildArray", TuplesToFeed) = Contents("buildArraySlice", TuplesToFeed)
    BY Widths, ContentsOf
  <2>. QED  BY <1>1, <1>4, <2>1, <2>2, ForwardInv
<1>. QED  BY <1>2, <1>3, <1>4 DEF Slice

\* The decoder names positions of the tuple, no more than there are.
LEMMA DecodedFacts ==
  ASSUME NEW t, NEW l
  PROVE  /\ Decoded(t, l) \in Seq(Positions)
         /\ Len(Decoded(t, l)) \in 0 .. EDGE_NUM
         /\ DOMAIN Decoded(t, l) = 1 .. Len(Decoded(t, l))
<1>. DEFINE S == {k \in Positions : valid_r(t, l, k)}
            idx == Unpacked(OpcodeOf(S))
<1>1. Decoded(t, l) = idx
  BY DEF Decoded, Opcode
<1>2. S \in SUBSET (1 .. EDGE_NUM)
  BY DEF Positions
<1>3. idx \in Seq(S) /\ Len(idx) = Cardinality(S)
  <2>. HIDE DEF S
  <2>. QED  BY <1>2, DecoderAssumption DEF RowsRight
<1>4. IsFiniteSet(1 .. EDGE_NUM) /\ Cardinality(1 .. EDGE_NUM) = EDGE_NUM
  BY ShuffleAssumption, FS_Interval
<1>5. Cardinality(S) <= EDGE_NUM
  <2>. HIDE DEF S
  <2>. QED  BY <1>2, <1>4, FS_Subset
<1>. HIDE DEF idx
<1>6. idx \in Seq(Positions)
  <2>1. S \subseteq Positions
    OBVIOUS
  <2>. HIDE DEF S
  <2>. QED  BY <1>3, <2>1, SeqMonotonic
<1>7. Len(idx) \in Nat /\ DOMAIN idx = 1 .. Len(idx)
  BY <1>6, LenProperties
<1>. HIDE DEF S
<1>. QED  BY <1>1, <1>3, <1>5, <1>6, <1>7, ShuffleAssumption

\* shuffleEntry sends on what the decoder found, or the end.
LEMMA EntryInv ==
  ASSUME IInv, NEW l \in Lanes, ShuffleEntry(l)
  PROVE  IInv'
<1>. DEFINE T == TuplesToFeed
            t == Head(chan["edgeTuplesArray"][l])
            idx == Decoded(t, l)
            data == IF t.end THEN <<Data(t, IF idx = <<>> THEN 1 ELSE idx[1])>>
                    ELSE [j \in DOMAIN idx |-> Data(t, idx[j])]
            v == [end |-> t.end, data |-> data]
<1>1. /\ pc["entry"][l] = "loop" /\ chan["edgeTuplesArray"][l] # <<>>
      /\ IF Dispatched(t, idx)
         THEN /\ Len(chan["toFilterArraySlice"][l]) < Depth["toFilterArraySlice"]
              /\ chan' = Written(TailAt(chan, "edgeTuplesArray", l), "toFilterArraySlice", {l}, v)
         ELSE chan' = TailAt(chan, "edgeTuplesArray", l)
      /\ StopAfter("entry", l, t)
      /\ UNCHANGED <<inputVars, fed, sent, bursts, second, emit, taken>>
  BY DEF ShuffleEntry, In, HasItem, HasRoom, Item, Popped, TailAt
<1>2. "edgeTuplesArray" \in Streams /\ l \in Width("edgeTuplesArray")
  BY Widths DEF Streams
<1>3. t \in TupleItems(T)
  <2>1. chan["edgeTuplesArray"][l] \in Seq(TupleItems(T))
    BY <1>2, Typed, ContentsOf DEF IInv
  <2>. QED  BY <1>1, <2>1, TailFacts
<1>4. t.no \in Nat /\ t.end \in BOOLEAN /\ t.edges \in Tuples
  <2>1. T \in Nat
    BY ListFacts DEF IInv
  <2>2. t.no \in 1 .. T /\ t.end \in BOOLEAN /\ t.edges \in Tuples
    BY <1>3 DEF TupleItems
  <2>. QED  BY <2>1, <2>2
<1>. HIDE DEF t
<1>5. \A k \in Positions : Data(t, k) \in Edges
  BY <1>4 DEF Data, Edges, Tuples
<1>6. /\ idx \in Seq(Positions) /\ Len(idx) \in 0 .. EDGE_NUM /\ DOMAIN idx = 1 .. Len(idx)
      /\ EDGE_NUM \in Nat \ {0} /\ 1 \in Positions
  <2>1. EDGE_NUM \in Nat \ {0} /\ 1 \in Positions
    BY ShuffleAssumption DEF Positions
  <2>2. idx \in Seq(Positions) /\ Len(idx) \in 0 .. EDGE_NUM /\ DOMAIN idx = 1 .. Len(idx)
    BY DecodedFacts
  <2>. QED  BY <2>1, <2>2
<1>. HIDE DEF idx
<1>7. Dispatched(t, idx) => v \in FilterItems
  <2>1. CASE t.end
    <3>1. (IF idx = <<>> THEN 1 ELSE idx[1]) \in Positions
      BY <1>6
    <3>2. data \in Seq(Edges) /\ Len(data) = 1
      BY <1>5, <2>1, <3>1
    <3>3. Len(data) \in 1 .. EDGE_NUM
      BY <1>6, <3>2
    <3>. HIDE DEF data
    <3>. QED  BY <1>4, <3>2, <3>3, FilterItem
  <2>2. CASE ~t.end
    <3>1. data = [j \in 1 .. Len(idx) |-> Data(t, idx[j])]
      BY <1>6, <2>2
    <3>2. \A j \in 1 .. Len(idx) : Data(t, idx[j]) \in Edges
      BY <1>5, <1>6
    <3>3. data \in Seq(Edges) /\ Len(data) = Len(idx)
      <4>. HIDE DEF data
      <4>1. Len(idx) \in Nat /\ data \in [1 .. Len(idx) -> Edges]
        BY <1>6, <3>1, <3>2
      <4>. QED  BY <4>1, FunctionSeq
    <3>4. Dispatched(t, idx) => Len(idx) # 0
      BY <1>6, <2>2 DEF Dispatched
    <3>5. Dispatched(t, idx) => Len(data) \in 1 .. EDGE_NUM
      BY <1>6, <3>3, <3>4
    <3>. HIDE DEF data
    <3>. QED  BY <1>4, <3>3, <3>5, FilterItem
  <2>. QED  BY <1>4, <2>1, <2>2
<1>8. ~Dispatched(t, idx) => ~t.end
  BY DEF Dispatched
<1>9. v.end = t.end
  OBVIOUS
<1>. HIDE DEF v
<1>10. /\ "edgeTuplesArray" \in Chain \ {"toFilterArraySlice2"}
       /\ "toFilterArraySlice" \in (Chain \ {"edgeTuplesCoupled", "buildArray"}) \cup {"buildArraySlice"}
       /\ Reader("edgeTuplesArray") = "entry" /\ Writer("toFilterArraySlice") = "entry"
  BY DEF Chain, Reader, Writer
<1>11. {j \in Width("toFilterArraySlice") : WriterIndex("toFilterArraySlice", j) = l} = {l}
  BY Widths DEF WriterIndex
<1>12. Contents("toFilterArraySlice", T) = FilterItems
  BY ContentsOf
<1>. DEFINE sends == Dispatched(t, idx)
<1>13. Moves("entry", l, "edgeTuplesArray", "toFilterArraySlice", sends, v)
  BY <1>1, <1>7, <1>8, <1>9, <1>11, <1>12 DEF Moves, t
<1>14. sends \in BOOLEAN
  BY <1>4 DEF Dispatched
<1>. HIDE DEF sends
<1>. QED  BY <1>2, <1>10, <1>13, <1>14, MovesInv

\* The flag of an item goes with its last token.
LEMMA TokensFacts ==
  ASSUME NEW f \in FilterItems
  PROVE  /\ Tokens(f) \in Seq(TokenItems)
         /\ Len(Tokens(f)) \in 1 .. EDGE_NUM
         /\ \A n \in DOMAIN Tokens(f) : Tokens(f)[n].end => n = Len(Tokens(f))
         /\ NoEnd(Tokens(f)) <=> ~f.end
<1>. DEFINE n == Len(f.data)
            tok(j) == [data |-> f.data[j], end |-> j = n /\ f.end]
<1>1. f.end \in BOOLEAN /\ f.data \in Seq(Edges) /\ n \in 1 .. EDGE_NUM
  BY DEF FilterItems
<1>2. n \in Nat /\ n \in 1 .. n /\ EDGE_NUM \in Nat
  BY <1>1, ShuffleAssumption
<1>3. \A j \in 1 .. n : tok(j) \in TokenItems
  BY <1>1 DEF TokenItems
<1>4. Tokens(f) = [j \in 1 .. n |-> tok(j)]
  BY DEF Tokens
<1>5. \A j \in 1 .. n : tok(j).end <=> (j = n /\ f.end)
  OBVIOUS
<1>. HIDE DEF n, tok
<1>6. Tokens(f) \in [1 .. n -> TokenItems]
  BY <1>3, <1>4
<1>7. Tokens(f) \in Seq(TokenItems) /\ Len(Tokens(f)) = n
  <2>1. PICK d : d = Tokens(f)
    OBVIOUS
  <2>. QED  BY <1>2, <1>6, <2>1, FunctionSeq
<1>8. DOMAIN Tokens(f) = 1 .. n /\ \A j \in 1 .. n : Tokens(f)[j] = tok(j)
  BY <1>4
<1>9. \A j \in DOMAIN Tokens(f) : Tokens(f)[j].end <=> (j = n /\ f.end)
  BY <1>5, <1>8
<1>10. NoEnd(Tokens(f)) <=> ~f.end
  BY <1>2, <1>8, <1>9 DEF NoEnd
<1>. QED  BY <1>1, <1>7, <1>9, <1>10

\* A link whose stream, writer and reader do not change.
LEMMA LinkFrame ==
  ASSUME Streaming(chan, pc, emit), NEW s \in Chain, NEW i \in Width(s),
         chan'[s][i] = chan[s][i],
         pc'[Writer(s)][WriterIndex(s, i)] = pc[Writer(s)][WriterIndex(s, i)],
         pc'[Reader(s)][i] = pc[Reader(s)][i],
         s = "toFilterArraySlice2" => emit'[i] = emit[i]
  PROVE  Ends(chan'[s][i], Writing(s, i, pc'), Reading(s, i, pc', emit'))
<1>1. Ends(chan[s][i], Writing(s, i, pc), Reading(s, i, pc, emit))
  BY DEF Streaming
<1>2. Writing(s, i, pc') <=> Writing(s, i, pc)
  BY DEF Writing
<1>3. Reading(s, i, pc', emit') <=> Reading(s, i, pc, emit)
  BY DEF Reading
<1>. QED  BY <1>1, <1>2, <1>3 DEF Ends

\* tupleFilter takes an item.
LEMMA FilterReadInv ==
  ASSUME IInv, NEW l \in Lanes, FilterRead(l)
  PROVE  IInv'
<1>. DEFINE T == TuplesToFeed
            s2 == "toFilterArraySlice2"
            C == chan["toFilterArraySlice2"][l]
            f == Head(C)
            toks == Tokens(f)
<1>1. /\ pc["filter"][l] = "loop" /\ emit[l] = <<>> /\ C # <<>>
      /\ emit' = [emit EXCEPT ![l] = toks]
      /\ chan' = TailAt(chan, s2, l)
      /\ UNCHANGED <<inputVars, fed, sent, bursts, second, pc, taken>>
  BY DEF FilterRead, In, HasItem, Item, Popped, TailAt
<1>2. /\ InputsOK /\ ChanOK(chan, T) /\ PcOK(pc) /\ InFront(chan, pc)
      /\ Streaming(chan, pc, emit) /\ EmitOK(pc, emit) /\ Solved(chan, pc)
  BY DEF IInv
<1>3. s2 \in Streams /\ s2 \in Chain /\ l \in Width(s2) /\ Width(s2) = Lanes
  BY Widths DEF Streams, Chain
<1>4. C \in Seq(FilterItems) /\ f \in FilterItems
  <2>1. C \in Seq(FilterItems)
    BY <1>2, <1>3, Typed, ContentsOf
  <2>. QED  BY <1>1, <2>1, TailFacts
<1>5. /\ toks \in Seq(TokenItems) /\ Len(toks) \in 1 .. EDGE_NUM
      /\ \A n \in DOMAIN toks : toks[n].end => n = Len(toks)
      /\ NoEnd(toks) <=> ~f.end
  <2>. HIDE DEF f
  <2>. QED  BY <1>4, TokensFacts
<1>6. /\ ChanOK(chan', T)
      /\ \A s \in Streams : s # s2 => chan'[s] = chan[s]
      /\ \A j \in Lanes : chan'[s2][j] = IF j = l THEN Tail(C) ELSE chan[s2][j]
  <2>1. PICK d : d = chan'
    OBVIOUS
  <2>2. d = TailAt(chan, s2, l)
    BY <1>1, <2>1
  <2>3. ChanOK(d, T) /\ \A s \in Streams : s # s2 => d[s] = chan[s]
    BY <1>1, <1>2, <1>3, <2>2, Pop
  <2>4. \A j \in Width(s2) : d[s2][j] = IF j = l THEN Tail(C) ELSE chan[s2][j]
    BY <1>1, <1>2, <1>3, <2>2, Pop
  <2>. QED  BY <1>3, <2>1, <2>3, <2>4
<1>7. InputsOK' /\ TuplesToFeed' = T /\ list' = list /\ haveEdgeProp' = haveEdgeProp
  BY <1>1, <1>2, InputsFrame DEF inputVars
<1>8. InFront(chan, pc)'
  <2>1. /\ \A s \in FrontStreams : chan'[s] = chan[s]
        /\ chan'["edgeTuplesCoupled"] = chan["edgeTuplesCoupled"]
    BY <1>6 DEF FrontStreams, Streams
  <2>2. Pairs(chan)'
    BY <1>2, <1>7, <2>1 DEF InFront, Pairs
  <2>. QED  BY <1>1, <1>2, <1>7, <2>1, <2>2, FrontFrame
<1>. HIDE DEF toks
<1>9. emit'[l] = toks /\ \A j \in Lanes : j # l => emit'[j] = emit[j]
  BY <1>1, <1>2 DEF EmitOK
<1>10. EmitOK(pc, emit)'
  <2>1. emit' \in [Lanes -> Seq(TokenItems)]
    BY <1>1, <1>2, <1>5 DEF EmitOK
  <2>2. ASSUME NEW j \in Lanes
        PROVE  /\ Len(emit'[j]) <= EDGE_NUM
               /\ \A n \in DOMAIN emit'[j] : emit'[j][n].end => n = Len(emit'[j])
               /\ pc'["filter"][j] # "loop" => emit'[j] = <<>>
    <3>1. CASE j = l
      BY <1>1, <1>5, <1>9, <3>1, ShuffleAssumption
    <3>2. CASE j # l
      BY <1>1, <1>2, <1>9, <3>2 DEF EmitOK
    <3>. QED  BY <3>1, <3>2
  <2>. QED  BY <2>1, <2>2 DEF EmitOK
<1>11. ASSUME NEW s \in Chain, NEW i \in Width(s)
       PROVE  Ends(chan'[s][i], Writing(s, i, pc'), Reading(s, i, pc', emit'))
  <2>1. CASE s = s2 /\ i = l
    <3>1. chan'[s][i] = Tail(C) /\ chan[s][i] = C
      BY <1>6, <2>1
    <3>2. Writing(s, i, pc') <=> Writing(s, i, pc)
      BY <1>1 DEF Writing
    <3>3. Reader(s2) = "filter"
      BY DEF Reader
    <3>4. Reading(s, i, pc, emit)
      BY <1>1, <2>1, <3>3 DEF Reading, NoEnd
    <3>5. Reading(s, i, pc', emit') <=> ~f.end
      BY <1>1, <1>5, <1>9, <2>1, <3>3 DEF Reading
    <3>. DEFINE w == Writing(s, i, pc)
                r == Reading(s, i, pc, emit)
                r2 == Reading(s, i, pc', emit')
    <3>6. Ends(C, w, r) /\ r /\ (r2 <=> ~f.end)
      BY <1>2, <3>1, <3>4, <3>5 DEF Streaming
    <3>. HIDE DEF w, r, r2, C
    <3>7. Ends(Tail(C), w, r2)
      BY <1>1, <1>4, <3>6, EndsTake
    <3>8. Ends(chan'[s][i], w, r2)
      BY <3>1, <3>7
    <3>. QED  BY <3>2, <3>8 DEF Ends, w, r2
  <2>2. CASE ~(s = s2 /\ i = l)
    <3>1. chan'[s][i] = chan[s][i]
      BY <1>3, <1>6, <2>2, Links
    <3>2. s = s2 => emit'[i] = emit[i]
      BY <1>3, <1>9, <2>2
    <3>. QED  BY <1>1, <1>2, <3>1, <3>2, LinkFrame
  <2>. QED  BY <2>1, <2>2
<1>12. Streaming(chan, pc, emit)'
  BY <1>11 DEF Streaming
<1>13. Solved(chan, pc)'
  <2>1. chan'["buildArraySlice"] = chan["buildArraySlice"]
    BY <1>6 DEF Streams
  <2>. QED  BY <1>1, <1>2, <2>1 DEF Solved
<1>. QED  BY <1>1, <1>2, <1>6, <1>7, <1>8, <1>10, <1>12, <1>13 DEF IInv

\* The end stays the last of the tokens still to be written.
LEMMA TokensTail ==
  ASSUME NEW c \in Seq(TokenItems), c # <<>>,
         \A n \in DOMAIN c : c[n].end => n = Len(c)
  PROVE  /\ \A n \in DOMAIN Tail(c) : Tail(c)[n].end => n = Len(Tail(c))
         /\ Head(c).end => Tail(c) = <<>> /\ ~NoEnd(c)
         /\ ~Head(c).end => (NoEnd(Tail(c)) <=> NoEnd(c))
<1>1. /\ 1 \in 1 .. Len(c) /\ \A n \in 1 .. Len(c) - 1 : n + 1 \in 1 .. Len(c)
      /\ Len(c) \in Nat
  BY TailFacts
<1>2. \A n \in 1 .. Len(c) - 1 : Tail(c)[n].end => n + 1 = Len(c)
  BY <1>1, TailFacts
<1>3. \A n \in 1 .. Len(c) - 1 : n + 1 = Len(c) => n = Len(c) - 1
  BY <1>1
<1>4. \A n \in DOMAIN Tail(c) : Tail(c)[n].end => n = Len(Tail(c))
  <2>1. DOMAIN Tail(c) = 1 .. Len(c) - 1 /\ Len(Tail(c)) = Len(c) - 1
    BY TailFacts
  <2>2. ASSUME NEW n \in 1 .. Len(c) - 1, Tail(c)[n].end PROVE n = Len(c) - 1
    <3>1. n + 1 = Len(c)
      BY <1>2, <2>2
    <3>. QED  BY <1>1, <3>1
  <2>3. \A n \in 1 .. Len(c) - 1 : Tail(c)[n].end => n = Len(c) - 1
    BY <2>2
  <2>. QED  BY <2>1, <2>3, Zenon
<1>5. Head(c).end => Tail(c) = <<>> /\ ~NoEnd(c)
  <2>. SUFFICES ASSUME c[1].end PROVE Tail(c) = <<>> /\ ~NoEnd(c)
    BY TailFacts
  <2>1. 1 = Len(c)
    BY <1>1, TailFacts
  <2>. QED  BY <1>1, <2>1, TailFacts DEF NoEnd
<1>6. ~Head(c).end => (NoEnd(Tail(c)) <=> NoEnd(c))
  <2>. SUFFICES ASSUME ~c[1].end PROVE NoEnd(Tail(c)) <=> NoEnd(c)
    BY TailFacts
  <2>1. ASSUME NoEnd(c) PROVE NoEnd(Tail(c))
    BY <1>1, <2>1, TailFacts DEF NoEnd
  <2>2. ASSUME NoEnd(Tail(c)) PROVE NoEnd(c)
    <3>. SUFFICES ASSUME NEW n \in 1 .. Len(c) PROVE ~c[n].end
      BY TailFacts DEF NoEnd
    <3>1. CASE n = 1
      BY <3>1
    <3>2. CASE n # 1
      <4>1. n - 1 \in 1 .. Len(c) - 1 /\ (n - 1) + 1 = n
        BY <1>1, <3>2
      <4>2. Tail(c)[n - 1] = c[n]
        BY <4>1, TailFacts
      <4>3. ~Tail(c)[n - 1].end
        BY <2>2, <4>1, TailFacts DEF NoEnd
      <4>. QED  BY <4>2, <4>3
    <3>. QED  BY <3>1, <3>2
  <2>. QED  BY <2>1, <2>2
<1>. QED  BY <1>4, <1>5, <1>6

\* tupleFilter writes a token.
LEMMA FilterWriteInv ==
  ASSUME IInv, NEW l \in Lanes, FilterWrite(l)
  PROVE  IInv'
<1>. DEFINE T == TuplesToFeed
            b == "buildArray"
            E == emit[l]
            tok == Head(E)
<1>1. /\ E # <<>> /\ Len(chan[b][l]) < Depth[b]
      /\ chan' = Written(chan, b, {l}, tok)
      /\ emit' = [emit EXCEPT ![l] = Tail(E)]
      /\ StopAfter("filter", l, tok)
      /\ UNCHANGED <<inputVars, fed, sent, bursts, second, taken>>
  BY DEF FilterWrite, HasRoom
<1>2. /\ InputsOK /\ ChanOK(chan, T) /\ PcOK(pc) /\ InFront(chan, pc)
      /\ Streaming(chan, pc, emit) /\ EmitOK(pc, emit) /\ Solved(chan, pc)
  BY DEF IInv
<1>3. /\ b \in Streams /\ b \in Chain /\ l \in Width(b) /\ Width(b) = Lanes
      /\ "filter" \in Processes /\ l \in Width("filter") /\ Width("filter") = Lanes
  BY Widths DEF Streams, Chain, Processes
<1>4. /\ pc["filter"][l] = "loop" /\ E \in Seq(TokenItems) /\ Len(E) <= EDGE_NUM
      /\ \A n \in DOMAIN E : E[n].end => n = Len(E)
  BY <1>1, <1>2 DEF EmitOK
<1>5. /\ tok \in TokenItems /\ Tail(E) \in Seq(TokenItems)
      /\ Len(Tail(E)) = Len(E) - 1 /\ Len(E) \in Nat
  BY <1>1, <1>4, TailFacts
<1>6. /\ \A n \in DOMAIN Tail(E) : Tail(E)[n].end => n = Len(Tail(E))
      /\ tok.end => Tail(E) = <<>> /\ ~NoEnd(E)
      /\ ~tok.end => (NoEnd(Tail(E)) <=> NoEnd(E))
  <2>. HIDE DEF E
  <2>. QED  BY <1>1, <1>4, TokensTail
<1>. HIDE DEF tok
<1>7. /\ ChanOK(chan', T)
      /\ \A s \in Streams : s # b => chan'[s] = chan[s]
      /\ \A j \in Lanes : chan'[b][j] = IF j = l THEN Append(chan[b][j], tok) ELSE chan[b][j]
  <2>1. PICK d : d = chan'
    OBVIOUS
  <2>2. d = Written(chan, b, {l}, tok)
    BY <1>1, <2>1
  <2>3. tok \in Contents(b, T) /\ \A j \in {l} : j \in Width(b) => Len(chan[b][j]) < Depth[b]
    BY <1>1, <1>5, ContentsOf
  <2>4. ChanOK(d, T) /\ \A s \in Streams : s # b => d[s] = chan[s]
    BY <1>2, <1>3, <2>2, <2>3, Write
  <2>5. \A j \in Width(b) : d[b][j] = IF j \in {l} THEN Append(chan[b][j], tok) ELSE chan[b][j]
    BY <1>2, <1>3, <2>2, <2>3, Write
  <2>. QED  BY <1>3, <2>1, <2>4, <2>5
<1>8. /\ PcOK(pc') /\ \A p \in Processes : p # "filter" => pc'[p] = pc[p]
      /\ \A j \in Lanes : j # l => pc'["filter"][j] = pc["filter"][j]
      /\ pc'["filter"][l] = IF tok.end THEN "done" ELSE "loop"
  BY <1>1, <1>2, <1>3, <1>4, StopFacts
<1>9. emit'[l] = Tail(E) /\ \A j \in Lanes : j # l => emit'[j] = emit[j]
  BY <1>1, <1>2 DEF EmitOK
<1>10. InputsOK' /\ TuplesToFeed' = T /\ list' = list /\ haveEdgeProp' = haveEdgeProp
  BY <1>1, <1>2, InputsFrame DEF inputVars
<1>11. InFront(chan, pc)'
  <2>1. /\ \A s \in FrontStreams : chan'[s] = chan[s]
        /\ chan'["edgeTuplesCoupled"] = chan["edgeTuplesCoupled"]
    BY <1>7 DEF FrontStreams, Streams
  <2>2. Pairs(chan)'
    BY <1>2, <1>10, <2>1 DEF InFront, Pairs
  <2>3. pc'["half"][0] = pc["half"][0] /\ pc'["prop"][0] = pc["prop"][0]
    BY <1>8 DEF Processes
  <2>. QED  BY <1>1, <1>2, <1>10, <2>1, <2>2, <2>3, FrontFrame
<1>12. EmitOK(pc, emit)'
  <2>1. emit' \in [Lanes -> Seq(TokenItems)]
    BY <1>1, <1>2, <1>5 DEF EmitOK
  <2>2. ASSUME NEW j \in Lanes
        PROVE  /\ Len(emit'[j]) <= EDGE_NUM
               /\ \A n \in DOMAIN emit'[j] : emit'[j][n].end => n = Len(emit'[j])
               /\ pc'["filter"][j] # "loop" => emit'[j] = <<>>
    <3>1. CASE j = l
      <4>1. Len(E) - 1 <= EDGE_NUM
        BY <1>4, <1>5, ShuffleAssumption
      <4>. QED  BY <1>5, <1>6, <1>8, <1>9, <3>1, <4>1
    <3>2. CASE j # l
      BY <1>2, <1>8, <1>9, <3>2 DEF EmitOK
    <3>. QED  BY <3>1, <3>2
  <2>. QED  BY <2>1, <2>2 DEF EmitOK
<1>13. ASSUME NEW s \in Chain, NEW i \in Width(s)
       PROVE  Ends(chan'[s][i], Writing(s, i, pc'), Reading(s, i, pc', emit'))
  <2>1. Ends(chan[s][i], Writing(s, i, pc), Reading(s, i, pc, emit))
    BY <1>2 DEF Streaming
  <2>2. CASE s = b /\ i = l
    <3>1. chan'[s][i] = Append(chan[s][i], tok)
      BY <1>3, <1>7, <2>2
    <3>2. Reader(b) = "build" /\ Writer(b) = "filter" /\ WriterIndex(b, l) = l
      BY DEF Reader, Writer, WriterIndex
    <3>3. Reading(s, i, pc', emit') <=> Reading(s, i, pc, emit)
      BY <1>8, <2>2, <3>2 DEF Reading, Processes
    <3>4. Writing(s, i, pc) /\ (Writing(s, i, pc') <=> ~tok.end)
      BY <1>4, <1>8, <2>2, <3>2 DEF Writing
    <3>. DEFINE w == Writing(s, i, pc)
                r == Reading(s, i, pc, emit)
                w2 == Writing(s, i, pc')
                X == chan[s][i]
    <3>5. Ends(X, w, r) /\ w /\ (w2 <=> ~tok.end) /\ X \in Seq(TokenItems)
      BY <1>2, <1>3, <2>1, <2>2, <3>4, Typed, ContentsOf
    <3>. HIDE DEF w, r, w2, X
    <3>6. Ends(Append(X, tok), w2, r)
      BY <1>5, <3>5, EndsAppend
    <3>7. Ends(chan'[s][i], w2, r)
      BY <3>1, <3>6 DEF X
    <3>. QED  BY <3>3, <3>7 DEF Ends, w2, r
  <2>3. CASE s = "toFilterArraySlice2" /\ i = l
    <3>1. Reader(s) = "filter" /\ Writer(s) = "slice2" /\ WriterIndex(s, i) = i
      BY <2>3 DEF Reader, Writer, WriterIndex
    <3>2. Writing(s, i, pc') <=> Writing(s, i, pc)
      BY <1>8, <3>1 DEF Writing, Processes
    <3>3. Reading(s, i, pc, emit) <=> NoEnd(E)
      BY <1>4, <2>3, <3>1 DEF Reading
    <3>4. Reading(s, i, pc', emit') <=> pc'["filter"][l] = "loop" /\ NoEnd(Tail(E))
      BY <1>9, <2>3, <3>1 DEF Reading
    <3>5. (pc'["filter"][l] = "loop" /\ NoEnd(Tail(E))) <=> NoEnd(E)
      <4>1. CASE tok.end
        BY <1>6, <1>8, <4>1
      <4>2. CASE ~tok.end
        BY <1>6, <1>8, <4>2
      <4>. QED  BY <4>1, <4>2
    <3>6. chan'[s][i] = chan[s][i]
      BY <1>7, <2>3 DEF Streams
    <3>. QED  BY <2>1, <3>2, <3>3, <3>4, <3>5, <3>6 DEF Ends
  <2>4. CASE ~(s = b /\ i = l) /\ ~(s = "toFilterArraySlice2" /\ i = l)
    <3>1. chan'[s][i] = chan[s][i]
      BY <1>3, <1>7, <2>4, Links
    <3>2. s = "toFilterArraySlice2" => emit'[i] = emit[i]
      BY <1>9, <2>4, Widths
    <3>3. pc'[Reader(s)][i] = pc[Reader(s)][i]
      <4>1. CASE s = "toFilterArraySlice2"
        BY <1>8, <2>4, <4>1, Widths DEF Reader
      <4>2. CASE s # "toFilterArraySlice2"
        <5>1. Reader(s) \in Processes /\ Reader(s) # "filter"
          BY <4>2 DEF Reader, Chain, Processes
        <5>. QED  BY <1>8, <5>1
      <4>. QED  BY <4>1, <4>2
    <3>4. pc'[Writer(s)][WriterIndex(s, i)] = pc[Writer(s)][WriterIndex(s, i)]
      <4>1. CASE s = b
        BY <1>3, <1>8, <2>4, <4>1 DEF Writer, WriterIndex
      <4>2. CASE s # b
        <5>1. Writer(s) \in Processes /\ Writer(s) # "filter"
          BY <4>2 DEF Writer, Chain, Processes
        <5>. QED  BY <1>8, <5>1
      <4>. QED  BY <4>1, <4>2
    <3>. QED  BY <1>2, <3>1, <3>2, <3>3, <3>4, LinkFrame
  <2>. QED  BY <2>2, <2>3, <2>4
<1>14. Streaming(chan, pc, emit)'
  BY <1>13 DEF Streaming
<1>15. Solved(chan, pc)'
  <2>1. /\ chan'["buildArraySlice"] = chan["buildArraySlice"]
        /\ pc'["solver"] = pc["solver"] /\ pc'["build"] = pc["build"]
    BY <1>7, <1>8 DEF Streams, Processes
  <2>. QED  BY <1>2, <2>1 DEF Solved
<1>. QED  BY <1>7, <1>8, <1>10, <1>11, <1>12, <1>14, <1>15 DEF IInv

\* rawSolver moves nothing but its own stream and place.
LEMMA SolverInv ==
  ASSUME IInv, NEW l \in Lanes, NEW w \in Places,
         UNCHANGED <<inputVars, fed, bursts, second, emit>>,
         \/ chan["buildArraySlice"][l] # <<>> /\ chan' = Popped("buildArraySlice", l)
         \/ UNCHANGED chan,
         Goto("solver", l, w) \/ UNCHANGED pc,
         pc'["solver"][l] = "done" =>
           pc["build"][l] = "done" /\ chan'["buildArraySlice"][l] = <<>>
  PROVE  IInv'
<1>. DEFINE T == TuplesToFeed
            b == "buildArraySlice"
<1>1. /\ InputsOK /\ ChanOK(chan, T) /\ PcOK(pc) /\ InFront(chan, pc)
      /\ Streaming(chan, pc, emit) /\ EmitOK(pc, emit) /\ Solved(chan, pc)
  BY DEF IInv
<1>2. /\ b \in Streams /\ l \in Width(b) /\ Width(b) = Lanes
      /\ "solver" \in Processes /\ l \in Width("solver") /\ Width("solver") = Lanes
  BY Widths DEF Streams, Processes
<1>3. /\ ChanOK(chan', T)
      /\ \A s \in Streams : s # b => chan'[s] = chan[s]
      /\ \A j \in Lanes : j # l => chan'[b][j] = chan[b][j]
  <2>1. CASE chan[b][l] # <<>> /\ chan' = Popped(b, l)
    <3>1. PICK d : d = chan'
      OBVIOUS
    <3>2. d = TailAt(chan, b, l)
      BY <2>1, <3>1 DEF Popped, TailAt
    <3>3. ChanOK(d, T) /\ \A s \in Streams : s # b => d[s] = chan[s]
      BY <1>1, <1>2, <2>1, <3>2, Pop
    <3>4. \A j \in Width(b) : d[b][j] = IF j = l THEN Tail(chan[b][l]) ELSE chan[b][j]
      BY <1>1, <1>2, <2>1, <3>2, Pop
    <3>. QED  BY <1>2, <3>1, <3>3, <3>4
  <2>2. CASE UNCHANGED chan
    BY <1>1, <2>2
  <2>. QED  BY <2>1, <2>2
<1>4. /\ PcOK(pc') /\ \A p \in Processes : p # "solver" => pc'[p] = pc[p]
      /\ \A j \in Lanes : j # l => pc'["solver"][j] = pc["solver"][j]
  <2>1. CASE Goto("solver", l, w)
    BY <1>1, <1>2, <2>1, GotoFacts
  <2>2. CASE UNCHANGED pc
    BY <1>1, <2>2
  <2>. QED  BY <2>1, <2>2
<1>5. InputsOK' /\ TuplesToFeed' = T /\ list' = list /\ haveEdgeProp' = haveEdgeProp
  BY <1>1, InputsFrame DEF inputVars
<1>6. InFront(chan, pc)'
  <2>1. /\ \A s \in FrontStreams : chan'[s] = chan[s]
        /\ chan'["edgeTuplesCoupled"] = chan["edgeTuplesCoupled"]
    BY <1>3 DEF FrontStreams, Streams
  <2>2. Pairs(chan)'
    BY <1>1, <1>5, <2>1 DEF InFront, Pairs
  <2>3. pc'["half"][0] = pc["half"][0] /\ pc'["prop"][0] = pc["prop"][0]
    BY <1>4 DEF Processes
  <2>. QED  BY <1>1, <1>5, <2>1, <2>2, <2>3, FrontFrame
<1>7. EmitOK(pc, emit)'
  <2>1. pc'["filter"] = pc["filter"]
    BY <1>4 DEF Processes
  <2>. QED  BY <1>1, <2>1 DEF EmitOK
<1>8. Streaming(chan, pc, emit)'
  <2>1. ASSUME NEW s \in Chain, NEW i \in Width(s)
        PROVE  Ends(chan'[s][i], Writing(s, i, pc'), Reading(s, i, pc', emit'))
    <3>1. s \in Streams /\ s # b
      BY DEF Chain, Streams
    <3>2. /\ Reader(s) \in Processes /\ Reader(s) # "solver"
          /\ Writer(s) \in Processes /\ Writer(s) # "solver"
      BY Links
    <3>3. chan'[s][i] = chan[s][i] /\ pc'[Reader(s)] = pc[Reader(s)] /\ pc'[Writer(s)] = pc[Writer(s)]
      BY <1>3, <1>4, <3>1, <3>2
    <3>. QED  BY <1>1, <3>3, LinkFrame
  <2>. QED  BY <2>1 DEF Streaming
<1>9. Solved(chan, pc)'
  <2>1. pc'["build"] = pc["build"]
    BY <1>4 DEF Processes
  <2>. SUFFICES ASSUME NEW j \in Lanes, pc'["solver"][j] = "done"
                PROVE  pc'["build"][j] = "done" /\ chan'[b][j] = <<>>
    BY DEF Solved
  <2>2. CASE j = l
    BY <2>1, <2>2
  <2>3. CASE j # l
    BY <1>1, <1>3, <1>4, <2>1, <2>3 DEF Solved
  <2>. QED  BY <2>2, <2>3
<1>. QED  BY <1>3, <1>4, <1>5, <1>6, <1>7, <1>8, <1>9 DEF IInv

LEMMA SolveInv ==
  ASSUME IInv, NEW l \in Lanes, Solve(l)
  PROVE  IInv'
<1>1. /\ pc["solver"][l] = "loop" /\ chan["buildArraySlice"][l] # <<>>
      /\ chan' = Popped("buildArraySlice", l)
      /\ Goto("solver", l, "clear") \/ UNCHANGED pc
      /\ UNCHANGED <<inputVars, fed, sent, bursts, second, emit>>
  BY DEF Solve, In, HasItem
<1>2. "solver" \in Processes /\ l \in Width("solver") /\ "clear" \in Places
  BY Widths DEF Processes, Places
<1>3. pc'["solver"][l] # "done"
  <2>1. CASE Goto("solver", l, "clear")
    BY <1>2, <2>1, GotoFacts DEF IInv
  <2>2. CASE UNCHANGED pc
    BY <1>1, <2>2
  <2>. QED  BY <1>1, <2>1, <2>2
<1>. QED  BY <1>1, <1>2, <1>3, SolverInv

LEMMA EmptyStreamInv ==
  ASSUME IInv, NEW l \in Lanes, EmptyStream(l)
  PROVE  IInv'
<1>1. /\ pc["solver"][l] = "clear"
      /\ UNCHANGED <<inputVars, fed, sent, bursts, second, emit>>
      /\ \/ /\ chan["buildArraySlice"][l] # <<>> /\ chan' = Popped("buildArraySlice", l)
            /\ UNCHANGED pc
         \/ /\ chan["buildArraySlice"][l] = <<>> /\ pc["build"][l] = "done"
            /\ Goto("solver", l, "done") /\ UNCHANGED chan
  BY DEF EmptyStream, In, HasItem
<1>2. "done" \in Places
  BY DEF Places
<1>. QED  BY <1>1, <1>2, SolverInv

(***************************************************************************)
(* The start and the end of an invocation.                                 *)
(***************************************************************************)

NoItems == [s \in Streams |-> [i \in Width(s) |-> <<>>]]

Fresh ==
  /\ InputsOK
  /\ fed = 0 /\ bursts = 0 /\ second = FALSE
  /\ chan = NoItems /\ emit = NoTokens /\ pc = Running

\* With nothing read and every process at work the invariant holds.
LEMMA FreshInv == Fresh => IInv
<1>. SUFFICES ASSUME Fresh PROVE IInv
  OBVIOUS
<1>. DEFINE T == TuplesToFeed
<1>1. /\ InputsOK /\ fed = 0 /\ bursts = 0 /\ second = FALSE
      /\ chan = NoItems /\ emit = NoTokens /\ pc = Running
  BY DEF Fresh
<1>2. T \in Nat /\ 0 < T /\ Len(list) \in Nat
  BY <1>1, ListFacts
<1>3. ASSUME NEW s \in Streams, NEW i \in Width(s) PROVE chan[s][i] = <<>>
  BY <1>1 DEF NoItems
<1>4. ASSUME NEW p \in Processes, NEW i \in Width(p) PROVE pc[p][i] = "loop"
  BY <1>1 DEF Running
<1>5. ChanOK(chan, T)
  <2>1. chan = [s \in Streams |-> chan[s]]
    BY <1>1 DEF NoItems
  <2>2. ASSUME NEW s \in Streams
        PROVE  /\ chan[s] \in [Width(s) -> Seq(Contents(s, T))]
               /\ \A i \in Width(s) : Len(chan[s][i]) <= Depth[s]
    <3>1. chan[s] = [i \in Width(s) |-> <<>>]
      BY <1>1 DEF NoItems
    <3>2. <<>> \in Seq(Contents(s, T)) /\ Len(<<>>) = 0
      BY EmptySeq
    <3>3. Depth[s] \in Nat
      BY ShuffleAssumption
    <3>. QED  BY <3>1, <3>2, <3>3
  <2>. QED  BY <2>1, <2>2 DEF ChanOK
<1>6. PcOK(pc)
  <2>1. pc = [p \in Processes |-> pc[p]]
    BY <1>1 DEF Running
  <2>2. ASSUME NEW p \in Processes PROVE pc[p] \in [Width(p) -> Places]
    <3>1. pc[p] = [i \in Width(p) |-> "loop"] /\ "loop" \in Places
      BY <1>1 DEF Running, Places
    <3>. QED  BY <3>1
  <2>. QED  BY <2>1, <2>2 DEF PcOK
<1>7. /\ chan["edgeTuplesBuffer"][0] = <<>> /\ chan["edgePropSliceStream"][0] = <<>>
      /\ chan["halfPropStream"][0] = <<>> /\ chan["edgeTuplesCoupled"][0] = <<>>
      /\ pc["half"][0] = "loop" /\ pc["prop"][0] = "loop"
  BY <1>3, <1>4, Widths DEF Streams, Processes
<1>8. InFront(chan, pc)
  <2>1. Len(<<>>) = 0 /\ DOMAIN <<>> = {} /\ <<>> \in Seq(FedTuples) /\ <<>> \in Seq(FedBursts)
    BY EmptySeq
  <2>2. Halves(<<>>) = 0
    BY <1>1, <2>1 DEF Halves
  <2>3. TuplesInOrder(chan) /\ BurstsInOrder(chan)
    BY <1>1, <1>7, <2>1 DEF TuplesInOrder, BurstsInOrder, Numbered
  <2>4. HalvesInOrder(chan)
    BY <1>7, <2>1, <2>2 DEF HalvesInOrder
  <2>5. HalfWorks(chan, pc)
    <3>1. 2 * (bursts - Len(chan["edgePropSliceStream"][0])) < T
      BY <1>1, <1>2, <1>7, <2>1
    <3>. QED  BY <1>1, <1>7, <3>1 DEF HalfWorks
  <2>6. PropWorks(chan, pc)
    <3>1. fed - Len(chan["edgeTuplesBuffer"][0]) = 0
      <4>1. fed = 0 /\ Len(chan["edgeTuplesBuffer"][0]) = 0
        BY <1>1, <1>7, <2>1
      <4>. QED  BY <4>1
    <3>2. Halves(chan["edgePropSliceStream"][0]) - Len(chan["halfPropStream"][0]) = 0
      BY <1>7, <2>1, <2>2
    <3>. QED  BY <1>2, <1>7, <3>1, <3>2 DEF PropWorks
  <2>7. Pairs(chan)
    BY <1>7, <2>1 DEF Pairs
  <2>8. fed \in 0 .. T /\ bursts \in Nat /\ 2 * bursts <= T /\ second \in BOOLEAN
    <3>1. 0 \in 0 .. T /\ 0 \in Nat /\ 2 * 0 <= T /\ FALSE \in BOOLEAN
      BY <1>2
    <3>. QED  BY <1>1, <3>1, Zenon
  <2>. QED  BY <2>3, <2>4, <2>5, <2>6, <2>7, <2>8 DEF InFront
<1>9. Streaming(chan, pc, emit)
  <2>. SUFFICES ASSUME NEW s \in Chain, NEW i \in Width(s)
                PROVE  Ends(chan[s][i], Writing(s, i, pc), Reading(s, i, pc, emit))
    BY DEF Streaming
  <2>1. chan[s][i] = <<>>
    BY <1>3, Links
  <2>2. Writing(s, i, pc)
    BY <1>4, Links, WriterIndices DEF Writing
  <2>3. Reading(s, i, pc, emit)
    <3>1. pc[Reader(s)][i] = "loop"
      BY <1>4, Links
    <3>2. s = "toFilterArraySlice2" => emit[i] = <<>>
      BY <1>1, Widths DEF NoTokens
    <3>3. NoEnd(<<>>)
      BY DEF NoEnd
    <3>. QED  BY <3>1, <3>2, <3>3 DEF Reading
  <2>. QED  BY <2>1, <2>2, <2>3, EndsEmpty DEF Ends
<1>10. EmitOK(pc, emit)
  <2>1. <<>> \in Seq(TokenItems) /\ Len(<<>>) = 0 /\ DOMAIN <<>> = {}
    BY EmptySeq
  <2>. QED  BY <1>1, <2>1, ShuffleAssumption DEF EmitOK, NoTokens
<1>11. Solved(chan, pc)
  <2>1. \A l \in Lanes : pc["solver"][l] = "loop"
    BY <1>4, Widths DEF Processes
  <2>. QED  BY <2>1 DEF Solved
<1>. QED  BY <1>1, <1>5, <1>6, <1>8, <1>9, <1>10, <1>11 DEF IInv

LEMMA FreshInvNext == (Fresh => IInv)'
  BY FreshInv, PTL

\* What a kernel that has returned has left in its streams.
LEMMA DoneEmpty ==
  ASSUME IInv, Done
  PROVE  \A s \in Streams : \A i \in Width(s) : chan[s][i] = <<>>
<1>. DEFINE T == TuplesToFeed
            P == chan["edgePropSliceStream"][0]
            H == chan["halfPropStream"][0]
<1>1. /\ InputsOK /\ ChanOK(chan, T) /\ InFront(chan, pc)
      /\ Streaming(chan, pc, emit) /\ Solved(chan, pc)
  BY DEF IInv
<1>2. /\ haveEdgeProp => pc["half"][0] = "done"
      /\ \A p \in Processes \ {"half"} : \A i \in Width(p) : pc[p][i] = "done"
  BY DEF Done, In
<1>3. pc["prop"][0] = "done"
  BY <1>2, Widths DEF Processes
<1>4. chan["edgeTuplesBuffer"][0] = <<>>
  BY <1>1, <1>3 DEF InFront, PropWorks
<1>5. H = <<>>
  BY <1>1, <1>3 DEF InFront, PropWorks, HalfWorks
<1>6. P = <<>>
  <2>1. /\ P \in Seq(BurstItems) /\ Len(P) \in Nat /\ bursts \in Nat /\ T \in Nat
        /\ 2 * bursts <= T /\ Len(P) <= bursts
    BY <1>1, FrontTyped, LenProperties, ListFacts DEF InFront, BurstsInOrder
  <2>2. CASE haveEdgeProp
    <3>1. ~(2 * (bursts - Len(P)) < T)
      BY <1>1, <1>2, <2>2 DEF InFront, HalfWorks
    <3>2. \A b, n, t \in Nat : 2 * b <= t /\ ~(2 * (b - n) < t) => n = 0
      OBVIOUS
    <3>3. Len(P) = 0
      <4>. HIDE DEF P, T
      <4>. QED  BY <2>1, <3>1, <3>2
    <3>. QED  BY <2>1, <3>3, EmptySeq
  <2>3. CASE ~haveEdgeProp
    <3>1. bursts = 0
      BY <1>1, <2>3 DEF InFront, HalfWorks
    <3>2. Len(P) = 0
      BY <2>1, <3>1
    <3>. QED  BY <2>1, <3>2, EmptySeq
  <2>. QED  BY <2>2, <2>3
<1>7. ASSUME NEW s \in Chain, NEW i \in Width(s) PROVE chan[s][i] = <<>>
  <2>1. Reader(s) \in Processes \ {"half"} /\ i \in Width(Reader(s))
    BY Links
  <2>2. ~Reading(s, i, pc, emit)
    BY <1>2, <2>1 DEF Reading
  <2>3. Ends(chan[s][i], Writing(s, i, pc), Reading(s, i, pc, emit))
    BY <1>1 DEF Streaming
  <2>. QED  BY <2>2, <2>3, EndsClosed
<1>8. ASSUME NEW i \in Width("buildArraySlice") PROVE chan["buildArraySlice"][i] = <<>>
  BY <1>1, <1>2, Widths DEF Solved, Processes
<1>9. Streams = FrontStreams \cup Chain \cup {"buildArraySlice"}
  BY DEF Streams, FrontStreams, Chain
<1>10. ASSUME NEW s \in FrontStreams, NEW i \in Width(s) PROVE chan[s][i] = <<>>
  <2>1. i = 0
    BY Widths DEF FrontStreams
  <2>. QED  BY <1>4, <1>5, <1>6, <2>1 DEF FrontStreams
<1>. QED  BY <1>7, <1>8, <1>9, <1>10

\* The kernel is started again.
LEMMA NextRunInv ==
  ASSUME IInv, NextRun
  PROVE  IInv'
<1>1. /\ Done /\ list' \in Lists /\ junk' \in Junk
      /\ fed' = 0 /\ bursts' = 0 /\ second' = FALSE
      /\ pc' = Running /\ emit' = NoTokens
      /\ UNCHANGED <<haveEdgeProp, chan>>
  BY DEF NextRun
<1>2. InputsOK'
  BY <1>1 DEF IInv, InputsOK
<1>3. chan = NoItems
  <2>1. \A s \in Streams : \A i \in Width(s) : chan[s][i] = <<>>
    BY <1>1, DoneEmpty
  <2>2. ASSUME NEW s \in Streams PROVE chan[s] = [i \in Width(s) |-> <<>>]
    <3>1. chan[s] \in [Width(s) -> Seq(Contents(s, TuplesToFeed))]
      BY DEF IInv, ChanOK
    <3>. QED  BY <2>1, <3>1
  <2>3. chan = [s \in Streams |-> chan[s]]
    BY DEF IInv, ChanOK
  <2>. QED  BY <2>2, <2>3 DEF NoItems
<1>4. chan' = NoItems
  BY <1>1, <1>3
<1>5. NoItems' = NoItems /\ NoTokens' = NoTokens /\ Running' = Running
  BY DEF NoItems, NoTokens, Running
<1>6. Fresh'
  BY <1>1, <1>2, <1>4, <1>5 DEF Fresh
<1>. QED  BY <1>6, FreshInvNext

LEMMA InitInv == Init => IInv
<1>. SUFFICES ASSUME Init PROVE IInv
  OBVIOUS
<1>1. Fresh
  BY DEF Init, Fresh, InputsOK, NoItems
<1>. QED  BY <1>1, FreshInv

LEMMA StutterInv ==
  ASSUME IInv, UNCHANGED vars
  PROVE  IInv'
<1>1. /\ list' = list /\ junk' = junk /\ haveEdgeProp' = haveEdgeProp
      /\ fed' = fed /\ bursts' = bursts /\ second' = second
      /\ chan' = chan /\ emit' = emit /\ pc' = pc
  BY DEF vars, inputVars
<1>2. InputsOK' /\ TuplesToFeed' = TuplesToFeed
  BY <1>1 DEF IInv, InputsOK, TuplesToFeed
<1>3. ChanOK(chan', TuplesToFeed) /\ PcOK(pc')
  BY <1>1 DEF IInv
<1>4. InFront(chan, pc)'
  <2>1. Pairs(chan)'
    BY <1>1 DEF IInv, InFront, Pairs
  <2>. QED  BY <1>1, <2>1, FrontFrame DEF IInv
<1>5. Streaming(chan, pc, emit)' /\ EmitOK(pc, emit)' /\ Solved(chan, pc)'
  BY <1>1, RearFrame DEF IInv
<1>. QED  BY <1>2, <1>3, <1>4, <1>5 DEF IInv

LEMMA NextInv == IInv /\ [Next]_vars => IInv'
<1>. SUFFICES ASSUME IInv, [Next]_vars PROVE IInv'
  OBVIOUS
<1>1. CASE FeedTuple
  BY <1>1, FeedTupleInv
<1>2. CASE FeedProp
  BY <1>2, FeedPropInv
<1>3. CASE HalfEdgeProp
  BY <1>3, HalfInv
<1>4. CASE Couple
  BY <1>4, CoupleInv
<1>5. CASE ClearTuples
  BY <1>5, ClearTuplesInv
<1>6. CASE ClearProps
  BY <1>6, ClearPropsInv
<1>7. CASE Duplicate
  BY <1>7, DuplicateInv
<1>8. CASE \E l \in Lanes : Lane(l)
  <2>1. PICK l \in Lanes : Lane(l)
    BY <1>8
  <2>2. \/ ShuffleEntry(l) \/ Slice(l) \/ FilterRead(l) \/ FilterWrite(l)
        \/ Solve(l) \/ EmptyStream(l)
    BY <2>1 DEF Lane
  <2>. QED  BY <2>2, EntryInv, SliceInv, FilterReadInv, FilterWriteInv, SolveInv, EmptyStreamInv
<1>9. CASE NextRun
  BY <1>9, NextRunInv
<1>10. CASE UNCHANGED vars
  BY <1>10, StutterInv
<1>. QED  BY <1>1, <1>2, <1>3, <1>4, <1>5, <1>6, <1>7, <1>8, <1>9, <1>10 DEF Next, Kernel

LEMMA Invariance == Spec => []IInv
  BY InitInv, NextInv, PTL DEF Spec
-----------------------------------------------------------------------------
LEMMA TypesFollow == IInv => TypeOK
<1>. SUFFICES ASSUME IInv PROVE TypeOK
  OBVIOUS
<1>. DEFINE T == TuplesToFeed
<1>1. InputsOK /\ ChanOK(chan, T) /\ PcOK(pc) /\ InFront(chan, pc) /\ EmitOK(pc, emit)
  BY DEF IInv
<1>2. \A s \in Streams : \A i \in Width(s) : Len(chan[s][i]) <= Depth[s]
  BY <1>1 DEF ChanOK
<1>3. ASSUME NEW s \in TupleStreams PROVE TupleType(s)
  <2>. SUFFICES ASSUME NEW i \in Width(s), NEW n \in DOMAIN chan[s][i]
                PROVE  /\ chan[s][i][n].edges \in Tuples /\ chan[s][i][n].no \in 1 .. T
                       /\ chan[s][i][n].prop \in 0 .. T /\ chan[s][i][n].end \in BOOLEAN
    BY DEF TupleType
  <2>1. s \in Streams /\ Contents(s, T) = TupleItems(T)
    BY ContentsOf DEF TupleStreams, Streams
  <2>2. chan[s][i] \in Seq(TupleItems(T))
    BY <1>1, <2>1, Typed
  <2>3. chan[s][i][n] \in TupleItems(T)
    BY <2>2, ElementOfSeq
  <2>. QED  BY <2>3 DEF TupleItems
<1>4. \A l \in Lanes : Len(emit[l]) <= EDGE_NUM
  BY <1>1 DEF EmitOK
<1>5. \A p \in Processes : \A i \in Width(p) :
         pc[p][i] \in {"loop", "clear", "clearProp", "done"}
  BY <1>1 DEF PcOK, Places
<1>6. fed \in 0 .. T /\ 2 * bursts \in 0 .. T
  <2>1. fed \in 0 .. T /\ bursts \in Nat /\ 2 * bursts <= T /\ T \in Nat
    BY <1>1, ListFacts DEF InFront
  <2>. QED  BY <2>1
<1>7. list \in Lists /\ junk \in Junk /\ haveEdgeProp \in BOOLEAN
  BY <1>1 DEF InputsOK
<1>. QED  BY <1>2, <1>3, <1>4, <1>5, <1>6, <1>7 DEF TypeOK

LEMMA CoupledFollows == IInv => Coupled
  BY DEF IInv, InFront, Pairs, Coupled

LEMMA EmptyFollows == IInv => NothingLeft
  BY DoneEmpty DEF NothingLeft

\* No stream between the cache and the lanes is ever written beyond its
\* depth, a burst never counts more edge properties than the list has
\* tuples, and what is read as a tuple was written as one.
THEOREM StreamsTyped == Spec => []TypeOK
  BY Invariance, TypesFollow, PTL

\* Tuples and their edge properties come from two memories at their own pace,
\* in halves of a burst: every tuple that edgePropCouple passes on carries the
\* half burst of its own number, in every invocation, whatever was thrown away
\* at the end of the one before.
THEOREM EdgesCoupled == Spec => []Coupled
  BY Invariance, CoupledFollows, PTL

\* A kernel that has returned has left all of its streams empty, though the
\* end block holds a tuple, and a half burst, more than propProcess takes, and
\* rawSolver stops at padding with items still on their way.
THEOREM StreamsLeftEmpty == Spec => []NothingLeft
  BY Invariance, EmptyFollows, PTL
=============================================================================
