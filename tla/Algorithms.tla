----------------------------- MODULE Algorithms -----------------------------
(***************************************************************************)
(* The user functions of the applications (l2.h), what dataPrepare makes   *)
(* of the properties before the first super-step, and the argument of the  *)
(* apply kernel.  Words are narrower than in the code and every constant   *)
(* of the code keeps its place in them: 7 bits for bfs and sssp, whose top *)
(* bit marks a vertex active, and 16 signed bits, with wrap-around, for    *)
(* the fixed-point numbers of pr and ar and the sums of spmv.              *)
(***************************************************************************)
EXTENDS Integers, FiniteSets, Bitwise

AppNames == {"bfs", "sssp", "cc", "wcc", "pr", "ar", "spmv"}

HaveEdgeProp(app)    == app \in {"sssp", "spmv"}
HaveApply(app)       == app # "spmv"
HaveApplyOutDeg(app) == app \in {"pr", "ar"}
DefaultEntry(app)    == app \in {"sssp", "wcc", "pr", "spmv"}
-----------------------------------------------------------------------------
(* bfs and sssp: a property is a distance, with the active bit in the step *)
(* after it was found.                                                     *)

ActiveBit == 64              \* VERTEX_ACTIVE_BIT_MASK
MaxProp   == ActiveBit - 2   \* MAX_PROP, INT_MAX - 1
EdgeProps == 16

IsMarked(a) == a \div ActiveBit = 1
Low(a)      == a % ActiveBit

BfsPreprocess(srcProp) == (srcProp + 1) % (2 * ActiveBit)
SsspScatter(srcProp, edgeProp) ==
  IF IsMarked(srcProp) THEN (srcProp + edgeProp) % (2 * ActiveBit)
  ELSE srcProp

(* The smaller distance, where 0 is no distance.                           *)
Nearer(ori, update) ==
  IF (Low(ori) > Low(update) /\ update # 0) \/ ori = 0 THEN update ELSE ori

(* Mutant: a vertex settles again whenever an update reaches it.           *)
SettlesAgain(tProp, source) == IsMarked(tProp)

Settles(tProp, source) == IsMarked(tProp) /\ source = MaxProp
Settled(tProp, source) ==
  IF Settles(tProp, source) THEN tProp ELSE Low(source)

(* cc: bit i is set in the vertices source i has reached; sources are 32   *)
(* in the code.                                                            *)
SourceNum == 2
Bits == 0 .. SourceNum - 1
Bit(a, i) == (a \div 2 ^ i) % 2

(* pr and ar: ONE is 1.0, kDampFixPoint / 128 the damping factor.          *)
Wrap(x) == ((x + 2 ^ 15) % 2 ^ 16) - 2 ^ 15
One == 2 ^ 14
kDampFixPoint == 108
ScaleDegree == 2 ^ 8         \* 1 << 16 in the code

PrArg(vertexNum) == (15 * One) \div (100 * vertexNum)
PrScore(tProp, outDeg, arg) ==
  LET newScore == Wrap(arg + (Wrap(kDampFixPoint * tProp) \div 128))
      tmp == IF outDeg # 0 THEN ScaleDegree \div outDeg ELSE 0
  IN Wrap(newScore * tmp) \div ScaleDegree

ArBase == (15 * 128 * ScaleDegree) \div 100
ArScore(tProp, outDeg, avg) ==
  LET tmp == ScaleDegree \div (outDeg + avg)
  IN Wrap(Wrap(kDampFixPoint * tProp + ArBase) * tmp)
-----------------------------------------------------------------------------
(* The functions of fpga_application.h                                     *)

IsActive(app, a) ==
  CASE app \in {"bfs", "sssp"} -> IsMarked(a)
    [] app = "cc"              -> a # 0
    [] OTHER                   -> TRUE

Preprocess(app, srcProp) ==
  IF app = "bfs" THEN BfsPreprocess(srcProp) ELSE srcProp

Scatter(app, srcProp, edgeProp) ==
  CASE app = "sssp" -> SsspScatter(srcProp, edgeProp)
    [] app = "spmv" -> Wrap(srcProp * edgeProp)
    [] OTHER        -> srcProp

Gather(app, ori, update) ==
  CASE app \in {"bfs", "sssp"} -> Nearer(ori, update)
    [] app = "cc"              -> ori | update
    [] app = "wcc"             -> IF update > ori THEN update ELSE ori
    [] app \in {"pr", "ar", "spmv"} -> Wrap(ori + update)

ApplyFunc(app, tProp, source, outDeg, arg) ==
  CASE app \in {"bfs", "sssp"} -> Settled(tProp, source)
    [] app = "cc"              -> tProp | source
    [] app = "wcc"             -> tProp
    [] app = "pr"              -> PrScore(tProp, outDeg, arg)
    [] app = "ar"              -> ArScore(tProp, outDeg, arg)

(* extra of applyFunc: does it count the vertex in word j of the result?   *)
(* The other applications have a result nobody reads.                      *)
Extra(app, tProp, source, j) ==
  CASE app \in {"bfs", "sssp"} -> j = 0 /\ Settles(tProp, source)
    [] app = "cc"              -> Bit(source, j) = 0 /\ Bit(tProp, j) = 1
    [] OTHER                   -> FALSE
-----------------------------------------------------------------------------
(* dataPrepareProperty and dataPrepareGetArg                               *)

(* The vertices drawn at random                                            *)
Selections(app, vertices) ==
  CASE app = "cc"         -> [Bits -> vertices]
    [] app \in {"pr", "ar", "spmv"} -> {<<>>}
    [] OTHER              -> [{0} -> vertices]

(* A vertex drawn twice keeps the last source only.                        *)
SourcesAt(select, u) == {i \in DOMAIN select : select[i] = u}
LastSource(select, u) ==
  CHOOSE i \in SourcesAt(select, u) : \A j \in SourcesAt(select, u) : j <= i

InitialProp(app, select, vertexNum, outDeg, u) ==
  CASE app \in {"bfs", "sssp"} ->
         IF SourcesAt(select, u) # {} THEN ActiveBit + 1 ELSE MaxProp
    [] app = "cc" ->
         IF SourcesAt(select, u) # {} THEN 2 ^ LastSource(select, u) ELSE 0
    [] app = "wcc" ->
         IF SourcesAt(select, u) # {} THEN 1 ELSE 0
    [] app = "pr" ->
         IF u < vertexNum /\ outDeg[u] > 0
         THEN (One \div vertexNum) \div outDeg[u] ELSE 0
    [] app = "ar" -> 0
    [] app = "spmv" -> u

InitialEdgeProp(app, e) ==
  CASE app = "sssp" -> e % EdgeProps
    [] app = "spmv" -> e
    [] OTHER        -> 0

ApplyArg(app, vertexNum, edgeNum) ==
  CASE app = "pr" -> PrArg(vertexNum)
    [] app = "ar" -> edgeNum \div vertexNum
    [] OTHER      -> 0
=============================================================================
