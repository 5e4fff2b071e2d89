---------------------------- MODULE Apply_proofs ----------------------------
(***************************************************************************)
(* What holds of the write-out and of the apply kernel for every number of *)
(* units, lanes and partitions and every burst length: the types of the    *)
(* streams, that every vertex gets the property made of its own old        *)
(* property and its own updates, and that no word is written twice.        *)
(*                                                                         *)
(* The argument follows the words of the current partition: every stream   *)
(* and buffer between two processes holds the words from the number its    *)
(* reader has taken to the number its writer has put in, and these numbers *)
(* are the loop variables of the two.                                      *)
(***************************************************************************)
EXTENDS Apply, SequenceTheorems, TLAPS

-----------------------------------------------------------------------------
(***************************************************************************)
(* Streams.                                                                *)
(***************************************************************************)

\* A stream holds the words of F from the a-th on.
IsSlice(s, F, a) == Len(s) \in Nat /\ s = [k \in 1 .. Len(s) |-> F[a + k - 1]]

LEMMA SliceEmpty ==
  ASSUME NEW F, NEW a
  PROVE  IsSlice(<<>>, F, a) /\ Len(<<>>) = 0
<1>1. Len(<<>>) = 0
  OBVIOUS
<1>2. <<>> = [k \in 1 .. 0 |-> F[a + k - 1]]
  OBVIOUS
<1>. QED  BY <1>1, <1>2 DEF IsSlice

LEMMA SliceSeq ==
  ASSUME NEW F, NEW a, NEW s, NEW n, n = Len(s), IsSlice(s, F, a)
  PROVE  /\ n \in Nat /\ DOMAIN s = 1 .. n
         /\ s \in Seq({s[k] : k \in DOMAIN s})
         /\ \A k \in 1 .. n : s[k] = F[a + k - 1]
         /\ s # <<>> <=> n > 0
<1>. DEFINE S == {s[k] : k \in DOMAIN s}
<1>1. n \in Nat /\ s = [k \in 1 .. n |-> F[a + k - 1]]
  BY DEF IsSlice
<1>2. DOMAIN s = 1 .. n /\ \A k \in 1 .. n : s[k] = F[a + k - 1]
  BY <1>1
<1>3. s \in [1 .. n -> S]
  BY <1>1, <1>2
<1>4. s \in Seq(S)
  BY <1>1, <1>3, SeqDef
<1>5. s # <<>> <=> n > 0
  BY <1>1, <1>4
<1>. QED  BY <1>1, <1>2, <1>4, <1>5

\* A sequence is a slice if its elements are.
LEMMA SliceFrom ==
  ASSUME NEW F, NEW a, NEW s, NEW S, s \in Seq(S), NEW n, n = Len(s),
         \A k \in 1 .. n : s[k] = F[a + k - 1]
  PROVE  IsSlice(s, F, a)
<1>1. n \in Nat /\ s \in [1 .. n -> S] /\ DOMAIN s = 1 .. n
  OBVIOUS
<1>2. s = [k \in 1 .. n |-> s[k]]
  BY <1>1
<1>3. s = [k \in 1 .. n |-> F[a + k - 1]]
  BY <1>2
<1>. QED  BY <1>1, <1>3 DEF IsSlice

\* A word put in.
LEMMA SliceAppend ==
  ASSUME NEW F, NEW a \in Nat, NEW s, IsSlice(s, F, a), NEW e, e = F[a + Len(s)],
         NEW t, t = Append(s, e)
  PROVE  IsSlice(t, F, a) /\ Len(s) \in Nat /\ Len(t) = Len(s) + 1
<1>. DEFINE S == {s[k] : k \in DOMAIN s} \cup {e}
<1>1. PICK n : n = Len(s)
  OBVIOUS
<1>2. /\ n \in Nat /\ s \in Seq({s[k] : k \in DOMAIN s})
      /\ \A k \in 1 .. n : s[k] = F[a + k - 1]
  BY <1>1, SliceSeq, Zenon
<1>3. s \in Seq(S) /\ e \in S
  BY <1>2
<1>. HIDE DEF S
<1>4. /\ Len(t) = n + 1 /\ t \in Seq(S)
      /\ \A k \in 1 .. n : t[k] = s[k]
      /\ t[n + 1] = e
  BY <1>1, <1>2, <1>3
<1>5. \A k \in 1 .. n + 1 : t[k] = F[a + k - 1]
  <2>1. a + (n + 1) - 1 = a + n
    BY <1>2
  <2>2. ASSUME NEW k \in 1 .. n + 1  PROVE t[k] = F[a + k - 1]
    <3>1. k \in 1 .. n \/ k = n + 1
      BY <1>2
    <3>2. CASE k \in 1 .. n
      BY <1>2, <1>4, <3>2
    <3>3. CASE k = n + 1
      BY <1>1, <1>4, <2>1, <3>3
    <3>. QED  BY <3>1, <3>2, <3>3
  <2>. QED  BY <2>2
<1>6. IsSlice(t, F, a)
  BY <1>4, <1>5, SliceFrom, Zenon
<1>. QED  BY <1>1, <1>2, <1>4, <1>6

\* A word taken out.
LEMMA SliceTail ==
  ASSUME NEW F, NEW a \in Nat, NEW s, IsSlice(s, F, a), s # <<>>, NEW t, t = Tail(s),
         NEW b, b = a + 1
  PROVE  /\ Head(s) = F[a] /\ IsSlice(t, F, b) /\ Len(t) = Len(s) - 1
         /\ Len(s) \in Nat /\ Len(s) > 0
<1>. DEFINE S == {s[k] : k \in DOMAIN s}
<1>1. PICK n : n = Len(s)
  OBVIOUS
<1>2. /\ n \in Nat /\ s \in Seq({s[k] : k \in DOMAIN s})
      /\ \A k \in 1 .. n : s[k] = F[a + k - 1]
      /\ n > 0
  BY <1>1, SliceSeq, Zenon
<1>3. s \in Seq(S)
  BY <1>2
<1>. HIDE DEF S
<1>4. PICK m : m = n - 1
  OBVIOUS
<1>5. /\ Len(t) = m /\ t \in Seq(S)
      /\ \A k \in 1 .. m : t[k] = s[k + 1]
      /\ Head(s) = s[1]
  BY <1>1, <1>2, <1>3, <1>4
<1>6. Head(s) = F[a]
  <2>1. a + 1 - 1 = a /\ 1 \in 1 .. n
    BY <1>2
  <2>2. s[1] = F[a + 1 - 1]
    BY <1>2, <2>1, Zenon
  <2>. QED  BY <1>5, <2>1, <2>2, Zenon
<1>7. \A k \in 1 .. m : t[k] = F[b + k - 1]
  <2>1. ASSUME NEW k \in 1 .. m  PROVE t[k] = F[b + k - 1]
    <3>1. k + 1 \in 1 .. n /\ a + (k + 1) - 1 = b + k - 1
      BY <1>2, <1>4
    <3>2. s[k + 1] = F[a + (k + 1) - 1]
      BY <1>2, <3>1, Zenon
    <3>. QED  BY <1>5, <3>1, <3>2, Zenon
  <2>. QED  BY <2>1
<1>8. IsSlice(t, F, b)
  BY <1>5, <1>7, SliceFrom, Zenon
<1>. QED  BY <1>1, <1>2, <1>4, <1>5, <1>6, <1>8, Zenon

\* A buffer filled at once.
LEMMA SliceOf ==
  ASSUME NEW F, NEW a, NEW n \in Nat, NEW s, s = [k \in 1 .. n |-> F[a + k - 1]]
  PROVE  IsSlice(s, F, a) /\ Len(s) = n
<1>1. s \in Seq({F[a + k - 1] : k \in 1 .. n})
  <2>1. s \in [1 .. n -> {F[a + k - 1] : k \in 1 .. n}]
    OBVIOUS
  <2>. QED  BY <2>1, SeqDef
<1>2. Len(s) = n
  BY <1>1
<1>. QED  BY <1>2 DEF IsSlice
-----------------------------------------------------------------------------
(***************************************************************************)
(* Sizes.                                                                  *)
(***************************************************************************)

LEMMA DivMod ==
  ASSUME NEW a \in Nat, NEW n \in Nat \ {0}
  PROVE  /\ a \div n \in Nat /\ a % n \in 0 .. (n - 1) /\ a % n \in Nat
         /\ a = (a \div n) * n + (a % n)
  OBVIOUS

LEMMA MulMono ==
  ASSUME NEW n \in Nat, NEW a \in Int, NEW b \in Int, a <= b
  PROVE  a * n <= b * n /\ a * n \in Int /\ b * n \in Int
  OBVIOUS

LEMMA MulNext ==
  ASSUME NEW n \in Nat, NEW a \in Nat
  PROVE  a * n \in Nat /\ (a + 1) * n = a * n + n
  OBVIOUS

LEMMA Assoc ==
  ASSUME NEW a \in Nat, NEW b \in Nat, NEW c \in Nat
  PROVE  a * (b * c) = (a * b) * c /\ a * b \in Nat
  OBVIOUS

\* A quotient is found from the interval a number lies in.
LEMMA QuotientOf ==
  ASSUME NEW n \in Nat \ {0}, NEW q \in Nat, NEW a \in Nat,
         q * n <= a, a < (q + 1) * n
  PROVE  a \div n = q
  OBVIOUS

LEMMA QuotientRest ==
  ASSUME NEW n \in Nat \ {0}, NEW q \in Nat, NEW r \in Nat, r < n,
         NEW a, a = q * n + r
  PROVE  a \in Nat /\ a \div n = q /\ a % n = r
<1>1. a \in Nat /\ q * n \in Nat /\ q * n <= a /\ a < (q + 1) * n
  BY MulNext
<1>2. a \div n = q
  BY <1>1, QuotientOf
<1>3. a = (a \div n) * n + (a % n) /\ a % n \in Nat
  BY <1>1, DivMod, Zenon
<1>4. a = q * n + (a % n)
  BY <1>2, <1>3
<1>5. a % n = r
  BY <1>1, <1>3, <1>4
<1>. QED  BY <1>1, <1>2, <1>5

LEMMA Multiple ==
  ASSUME NEW n \in Nat \ {0}, NEW q \in Nat, NEW a, a = q * n
  PROVE  a \in Nat /\ a \div n = q /\ a % n = 0
<1>1. a = q * n + 0
  BY MulNext
<1>. QED  BY <1>1, QuotientRest

PartWords == MaxVertices \div PeNum
Rows      == MaxVertices \div (2 * PeNum)
Chunks    == MaxVertices \div AlignSize

LEMMA Constants ==
  /\ CuNum \in Nat \ {0} /\ PeNum \in Nat \ {0} /\ BurstBuffer \in Nat \ {0}
  /\ BurstWrite \in Nat \ {0} /\ MaxVertices \in Nat \ {0}
  /\ CompressedNum \in Nat \ {0}
  /\ BurstWrite % 2 = 0 /\ BurstBuffer % BurstWrite = 0
  /\ MaxVertices % AlignSize = 0 /\ AlignSize \in Nat \ {0}
<1>1. /\ CuNum \in Nat \ {0} /\ PeNum \in Nat \ {0} /\ BurstBuffer \in Nat \ {0}
      /\ BurstWrite \in Nat \ {0} /\ MaxVertices \in Nat \ {0}
      /\ CompressedNum \in Nat \ {0}
      /\ BurstWrite % 2 = 0 /\ BurstBuffer % BurstWrite = 0
      /\ MaxVertices % AlignSize = 0
  BY ApplyAssumption
<1>2. AlignSize \in Nat \ {0}
  <2>1. ASSUME NEW a \in Nat \ {0}, NEW b \in Nat \ {0}  PROVE a * b \in Nat \ {0}
    OBVIOUS
  <2>. QED  BY <1>1, <2>1 DEF AlignSize
<1>. QED  BY <1>1, <1>2

\* A partition is a whole number of bursts, of rows and of read buffers.
LEMMA PartSizes ==
  /\ Chunks \in Nat \ {0} /\ PartWords \in Nat \ {0} /\ Rows \in Nat \ {0}
  /\ AllBursts \in Nat
  /\ MaxVertices = Chunks * AlignSize /\ MaxVertices = PartWords * PeNum
  /\ PartWords = Chunks * BurstBuffer /\ PartWords = AllBursts * BurstWrite
  /\ PartWords = 2 * Rows
  /\ Addresses = 0 .. Rows - 1 /\ WordsOf(MaxVertices) = 0 .. PartWords - 1
<1>1. Chunks \in Nat /\ MaxVertices = Chunks * AlignSize
  <2>1. MaxVertices = Chunks * AlignSize + (MaxVertices % AlignSize) /\ Chunks \in Nat
    BY Constants, DivMod, Zenon DEF Chunks
  <2>. QED  BY <2>1, Constants, MulNext
<1>2. Chunks # 0
  BY <1>1, Constants
<1>3. PICK k \in Nat : BurstBuffer = k * BurstWrite
  <2>1. /\ BurstBuffer = (BurstBuffer \div BurstWrite) * BurstWrite + (BurstBuffer % BurstWrite)
        /\ BurstBuffer \div BurstWrite \in Nat
    BY Constants, DivMod, Zenon
  <2>. QED  BY <2>1, Constants, MulNext
<1>4. PICK h \in Nat : BurstWrite = h * 2
  BY Constants
<1>5. MaxVertices = (Chunks * BurstBuffer) * PeNum /\ Chunks * BurstBuffer \in Nat
  BY <1>1, Assoc, Constants DEF AlignSize
<1>6. PartWords = Chunks * BurstBuffer
  BY <1>5, Multiple, Constants DEF PartWords
<1>7. MaxVertices = PartWords * PeNum /\ PartWords \in Nat
  BY <1>5, <1>6
<1>8. PartWords # 0
  BY <1>7, Constants
<1>9. PICK b \in Nat : PartWords = b * BurstWrite
  <2>1. Chunks * BurstBuffer = (Chunks * k) * BurstWrite /\ Chunks * k \in Nat
    BY <1>1, <1>3, Assoc, Constants
  <2>. QED  BY <1>6, <2>1
<1>10. AllBursts = b
  <2>1. MaxVertices = b * (BurstWrite * PeNum)
    BY <1>7, <1>9, Assoc, Constants
  <2>2. BurstWrite * PeNum \in Nat \ {0}
    <3>1. ASSUME NEW i \in Nat \ {0}, NEW j \in Nat \ {0}  PROVE i * j \in Nat \ {0}
      OBVIOUS
    <3>. QED  BY <3>1, Constants
  <2>. QED  BY <2>1, <2>2, <1>9, Multiple DEF AllBursts
<1>11. PICK r \in Nat : PartWords = r * 2
  <2>1. b * BurstWrite = (b * h) * 2 /\ b * h \in Nat
    BY <1>4, <1>9, Assoc
  <2>. QED  BY <1>9, <2>1
<1>12. Rows = r
  <2>1. MaxVertices = r * (2 * PeNum)
    BY <1>7, <1>11, Assoc, Constants
  <2>2. 2 * PeNum \in Nat \ {0}
    BY Constants
  <2>. QED  BY <2>1, <2>2, <1>11, Multiple DEF Rows
<1>13. Addresses = 0 .. Rows - 1 /\ WordsOf(MaxVertices) = 0 .. PartWords - 1
  BY DEF Addresses, WordsOf, Rows, PartWords
<1>. QED
  BY <1>1, <1>2, <1>6, <1>7, <1>8, <1>9, <1>10, <1>11, <1>12, <1>13

\* The vertices of a partition.
LEMMA PartSpan ==
  /\ BlkNum \in Nat \ {0}
  /\ \A p \in Part : /\ p \in Nat /\ p < BlkNum
                     /\ DstVertexStart(p) \in Nat /\ DstVertexEnd(p) \in Nat
                     /\ DstVertexStart(p) <= DstVertexEnd(p)
                     /\ DstVertexEnd(p) < DstVertexStart(p) + MaxVertices
                     /\ DstVertexStart(p) + MaxVertices <= BlkNum * MaxVertices
<1>. DEFINE c == CompressedNum + MaxVertices - 1
<1>1. c \in Nat /\ MaxVertices <= c
  BY Constants
<1>2. /\ BlkNum \in Nat /\ c = BlkNum * MaxVertices + (c % MaxVertices)
      /\ c % MaxVertices \in Nat /\ c % MaxVertices < MaxVertices
  BY <1>1, Constants, DivMod DEF BlkNum
<1>3. BlkNum # 0
  BY <1>1, <1>2, Constants
<1>4. ASSUME NEW p \in Part
      PROVE  /\ p \in Nat /\ p < BlkNum /\ p * MaxVertices \in Nat
             /\ p * MaxVertices + MaxVertices <= BlkNum * MaxVertices
             /\ p * MaxVertices < CompressedNum
             /\ (p + 1) * MaxVertices = p * MaxVertices + MaxVertices
  <2>1. p \in Nat /\ p + 1 <= BlkNum /\ p < BlkNum
    BY <1>2 DEF Part
  <2>2. p * MaxVertices \in Nat /\ (p + 1) * MaxVertices = p * MaxVertices + MaxVertices
    BY <2>1, MulNext, Constants
  <2>3. (p + 1) * MaxVertices <= BlkNum * MaxVertices /\ BlkNum * MaxVertices \in Int
    BY <2>1, <1>2, MulMono, Constants
  <2>4. BlkNum * MaxVertices <= CompressedNum + MaxVertices - 1
    BY <1>1, <1>2, <2>3, Constants
  <2>5. p * MaxVertices < CompressedNum
    BY <2>2, <2>3, <2>4, Constants
  <2>. QED  BY <2>1, <2>2, <2>3, <2>5
<1>5. ASSUME NEW p \in Part
      PROVE  /\ p \in Nat /\ p < BlkNum
             /\ DstVertexStart(p) \in Nat /\ DstVertexEnd(p) \in Nat
             /\ DstVertexStart(p) <= DstVertexEnd(p)
             /\ DstVertexEnd(p) < DstVertexStart(p) + MaxVertices
             /\ DstVertexStart(p) + MaxVertices <= BlkNum * MaxVertices
  <2>1. PICK s : s = p * MaxVertices
    OBVIOUS
  <2>2. PICK e : e = DstVertexEnd(p)
    OBVIOUS
  <2>3. e = (IF s + MaxVertices > CompressedNum THEN CompressedNum ELSE s + MaxVertices) - 1
    BY <1>4, <2>1, <2>2 DEF DstVertexEnd
  <2>4. s \in Nat /\ s < CompressedNum
    BY <1>4, <2>1
  <2>5. e \in Nat /\ s <= e /\ e < s + MaxVertices
    BY <2>3, <2>4, Constants
  <2>. QED  BY <1>4, <2>1, <2>2, <2>5 DEF DstVertexStart
<1>. QED  BY <1>2, <1>3, <1>5

\* What the kernels make of the number of vertices of a partition: all their
\* loops together take the same words.
LEMMA RoundedSizes ==
  ASSUME NEW p \in Part, NEW n, n = RoundedNum(p)
  PROVE  /\ n \in Nat /\ n <= MaxVertices
         /\ (n - 1) \div AlignSize + 1 \in 1 .. Chunks
         /\ n \div PeNum \in Nat /\ n \div PeNum <= PartWords
         /\ n \div PeNum = ((n - 1) \div AlignSize + 1) * BurstBuffer
         /\ (n \div BurstWrite) \div PeNum \in Nat
         /\ n \div PeNum = ((n \div BurstWrite) \div PeNum) * BurstWrite
         /\ n = (n \div PeNum) * PeNum
         /\ DstVertexEnd(p) < DstVertexStart(p) + n
<1>. DEFINE d == DstVertexEnd(p) - DstVertexStart(p)
            q == d \div AlignSize
            m == q + 1
<1>1. d \in Nat /\ d < MaxVertices
  BY PartSpan, Constants
<1>2. n = m * AlignSize
  BY DEF RoundedNum
<1>3. DstVertexEnd(p) = DstVertexStart(p) + d
  BY PartSpan
<1>. HIDE DEF d
<1>4. q \in Nat /\ d % AlignSize \in 0 .. AlignSize - 1 /\ d = q * AlignSize + (d % AlignSize)
  BY <1>1, DivMod, Constants
<1>. HIDE DEF q
<1>5. q * AlignSize \in Nat /\ n = q * AlignSize + AlignSize /\ m \in Nat
  BY <1>2, <1>4, MulNext, Constants
<1>6. d < n /\ n \in Nat /\ n > 0
  BY <1>1, <1>4, <1>5, Constants
<1>7. q < Chunks
  <2>1. ASSUME Chunks <= q  PROVE FALSE
    <3>1. MaxVertices <= q * AlignSize
      BY <1>4, <2>1, PartSizes, MulMono, Constants
    <3>2. q * AlignSize <= d
      BY <1>4, <1>5, Constants
    <3>. QED  BY <1>1, <1>5, <3>1, <3>2, Constants
  <2>. QED  BY <1>4, <2>1, PartSizes
<1>8. m \in 1 .. Chunks
  BY <1>4, <1>7, PartSizes
<1>9. n <= MaxVertices
  BY <1>2, <1>8, PartSizes, MulMono, Constants
<1>10. (n - 1) \div AlignSize = q
  <2>1. PICK r : r = AlignSize - 1
    OBVIOUS
  <2>2. PICK a : a = n - 1
    OBVIOUS
  <2>3. r \in Nat /\ r < AlignSize /\ a = q * AlignSize + r
    BY <1>5, <2>1, <2>2, Constants
  <2>4. AlignSize \in Nat \ {0} /\ q \in Nat
    BY <1>4, Constants
  <2>5. a \div AlignSize = q
    BY <2>3, <2>4, QuotientRest, Zenon
  <2>. QED  BY <2>2, <2>5
<1>. HIDE DEF m
<1>11. PICK k \in Nat : BurstBuffer = k * BurstWrite
  <2>1. /\ BurstBuffer = (BurstBuffer \div BurstWrite) * BurstWrite + (BurstBuffer % BurstWrite)
        /\ BurstBuffer \div BurstWrite \in Nat
    BY Constants, DivMod, Zenon
  <2>. QED  BY <2>1, Constants, MulNext
<1>12. m * BurstBuffer \in Nat /\ n = (m * BurstBuffer) * PeNum
  BY <1>2, <1>8, Assoc, Constants, PartSizes DEF AlignSize
<1>13. n \div PeNum = m * BurstBuffer
  BY <1>12, Multiple, Constants
<1>14. m * BurstBuffer = (m * k) * BurstWrite /\ m * k \in Nat
  BY <1>8, <1>11, Assoc, Constants, PartSizes
<1>15. n = ((m * k) * PeNum) * BurstWrite /\ (m * k) * PeNum \in Nat
  <2>1. ASSUME NEW i \in Nat, NEW j \in Nat, NEW l \in Nat
        PROVE  (i * j) * l = (i * l) * j /\ i * l \in Nat
    OBVIOUS
  <2>. QED  BY <1>12, <1>14, <2>1, Constants
<1>16. (n \div BurstWrite) \div PeNum = m * k
  <2>1. n \div BurstWrite = (m * k) * PeNum
    BY <1>15, Multiple, Constants
  <2>. QED  BY <1>14, <2>1, Multiple, Constants
<1>17. m * BurstBuffer <= PartWords
  BY <1>8, PartSizes, MulMono, Constants
<1>. QED
  <2>1. (n - 1) \div AlignSize + 1 = m
    BY <1>10 DEF m
  <2>2. DstVertexEnd(p) < DstVertexStart(p) + n
    BY <1>1, <1>3, <1>6, PartSpan
  <2>. QED
    BY <1>6, <1>8, <1>9, <1>12, <1>13, <1>14, <1>16, <1>17, <2>1, <2>2

LEMMA SumOfProducts ==
  ASSUME NEW i \in Nat, NEW j \in Nat, NEW n \in Nat
  PROVE  (i + j) * n = i * n + j * n /\ i * n \in Nat
  OBVIOUS

\* The words a partition's rows take in the property array.
LEMMA PartStart ==
  ASSUME NEW p \in Part
  PROVE  /\ DstVertexStart(p) = (p * PartWords) * PeNum
         /\ p * PartWords \in Nat
         /\ DstVertexStart(p) \div PeNum = p * PartWords
         /\ (DstVertexStart(p) \div AlignSize) * BurstBuffer = p * PartWords
<1>1. p \in Nat
  BY PartSpan
<1>2. DstVertexStart(p) = (p * PartWords) * PeNum /\ p * PartWords \in Nat
  BY <1>1, PartSizes, Assoc, Constants DEF DstVertexStart
<1>3. DstVertexStart(p) = (p * Chunks) * AlignSize /\ p * Chunks \in Nat
  BY <1>1, PartSizes, Assoc, Constants DEF DstVertexStart
<1>4. (p * Chunks) * BurstBuffer = p * PartWords
  BY <1>1, PartSizes, Assoc, Constants
<1>5. DstVertexStart(p) \div PeNum = p * PartWords
  BY <1>2, Multiple, Constants
<1>6. DstVertexStart(p) \div AlignSize = p * Chunks
  BY <1>3, Multiple, Constants
<1>. QED  BY <1>2, <1>4, <1>5, <1>6
-----------------------------------------------------------------------------
(***************************************************************************)
(* The words of a partition.                                               *)
(***************************************************************************)

\* The vertex of lane l of the w-th word of a partition.
Vertex(p, w, l) == DstVertexStart(p) + w * PeNum + l

\* A partition's words as read from the property array, as accumulated by a
\* unit, as merged up to a unit and as made new; the pairs a lane sends.
OwnWords(p) == [w \in Nat |-> [l \in Lanes |-> Vertex(p, w, l)]]

UpdateWords(p, u) ==
  [w \in Nat |-> [l \in Lanes |->
     IF Vertex(p, w, l) <= DstVertexEnd(p) THEN {<<u, Vertex(p, w, l)>>} ELSE {}]]

MergedWords(p, u) ==
  [w \in Nat |-> [l \in Lanes |->
     IF Vertex(p, w, l) <= DstVertexEnd(p)
     THEN {<<c, Vertex(p, w, l)>> : c \in 0 .. u} ELSE {}]]

NewWords(p) ==
  [w \in Nat |-> [l \in Lanes |->
     NewValue(Vertex(p, w, l), Vertex(p, w, l), MergedWords(p, CuNum - 1)[w][l])]]

RowPairs(p, u, l) ==
  [a \in Nat |-> <<UpdateWords(p, u)[2 * a][l], UpdateWords(p, u)[2 * a + 1][l]>>]

\* Where an update for a vertex of the partition is accumulated, and where the
\* vertex stands in the property array.
LEMMA VertexPlace ==
  ASSUME NEW p \in Part, NEW w \in 0 .. PartWords - 1, NEW l \in Lanes,
         NEW v, v = Vertex(p, w, l)
  PROVE  /\ v \in Nat /\ LaneOf(v) = l /\ Row(v) = w
         /\ v \div PeNum = p * PartWords + w /\ v % PeNum = l
<1>. DEFINE s == p * PartWords
<1>1. p \in Nat /\ s \in Nat /\ w \in Nat /\ l \in Nat /\ l < PeNum /\ w < PartWords
  BY PartSpan, PartStart, PartSizes, Constants DEF Lanes
<1>2. v = (s + w) * PeNum + l /\ s + w \in Nat
  <2>1. v = s * PeNum + w * PeNum + l
    BY PartStart DEF Vertex
  <2>2. (s + w) * PeNum = s * PeNum + w * PeNum
    BY <1>1, SumOfProducts, Constants
  <2>. QED  BY <1>1, <2>1, <2>2
<1>3. v \in Nat /\ v \div PeNum = s + w /\ v % PeNum = l
  BY <1>1, <1>2, QuotientRest, Constants
<1>4. Row(v) = w
  <2>1. PICK x : x = s + w
    OBVIOUS
  <2>2. x = p * PartWords + w
    BY <2>1
  <2>3. x % PartWords = w
    <3>1. PartWords \in Nat \ {0} /\ p \in Nat
      BY <1>1, PartSizes
    <3>. QED  BY <1>1, <2>2, <3>1, QuotientRest, Zenon
  <2>. QED  BY <1>3, <2>1, <2>3 DEF Row, PartWords
<1>. QED  BY <1>3, <1>4 DEF LaneOf

\* Every vertex of the partition stands in one of its words.
LEMMA VertexOf ==
  ASSUME NEW p \in Part, NEW v \in Nat, DstVertexStart(p) <= v,
         NEW n \in Nat, v < DstVertexStart(p) + n * PeNum
  PROVE  \E w \in 0 .. n - 1, l \in Lanes : v = Vertex(p, w, l)
<1>. DEFINE d == v - DstVertexStart(p)
            w == d \div PeNum
            l == d % PeNum
<1>1. d \in Nat /\ v = DstVertexStart(p) + d /\ d < n * PeNum
  BY PartSpan, Constants
<1>. HIDE DEF d
<1>2. w \in Nat /\ l \in Lanes /\ l \in Nat /\ d = w * PeNum + l
  BY <1>1, DivMod, Constants DEF Lanes
<1>. HIDE DEF w, l
<1>3. w < n
  <2>1. ASSUME n <= w  PROVE FALSE
    <3>1. n * PeNum <= w * PeNum /\ w * PeNum \in Int /\ n * PeNum \in Int
      BY <1>2, <2>1, MulMono, Constants
    <3>. QED  BY <1>1, <1>2, <3>1
  <2>. QED  BY <1>2, <2>1
<1>4. w \in 0 .. n - 1
  BY <1>2, <1>3
<1>5. v = Vertex(p, w, l)
  <2>1. w * PeNum \in Nat
    BY <1>2, MulNext, Constants
  <2>. QED  BY <1>1, <1>2, <2>1, PartSpan DEF Vertex
<1>. QED  BY <1>2, <1>4, <1>5

\* The updates accumulated in half h of address a of lane l are those of one
\* vertex, that of word 2 * a + h - 1.
LEMMA RowGathers ==
  ASSUME NEW p \in Part, NEW u, NEW l \in Lanes, NEW a \in Addresses, NEW h \in 1 .. 2,
         NEW w, w = 2 * a + h - 1
  PROVE  {<<u, d>> : d \in {e \in DstVertexStart(p) .. DstVertexEnd(p) :
                              LaneOf(e) = l /\ AddressOf(e) = a /\ Half(e) = h}}
           = UpdateWords(p, u)[w][l]
<1>. DEFINE At == {e \in DstVertexStart(p) .. DstVertexEnd(p) :
                     LaneOf(e) = l /\ AddressOf(e) = a /\ Half(e) = h}
            v == Vertex(p, w, l)
<1>1. a \in Nat /\ w \in 0 .. PartWords - 1 /\ w \in Nat
  BY PartSizes
<1>2. w \div 2 = a /\ (w % 2 = 1 <=> h = 2)
  BY <1>1
<1>3. v \in Nat /\ LaneOf(v) = l /\ Row(v) = w
  BY <1>1, VertexPlace
<1>4. AddressOf(v) = a /\ Half(v) = h
  BY <1>2, <1>3 DEF AddressOf, Half
<1>5. v >= DstVertexStart(p)
  <2>1. w * PeNum \in Nat /\ l \in Nat
    BY <1>1, MulNext, Constants DEF Lanes
  <2>. QED  BY <2>1, PartSpan DEF Vertex
<1>6. ASSUME NEW e \in At  PROVE e = v
  <2>1. e \in Nat /\ DstVertexStart(p) <= e /\ e < DstVertexStart(p) + PartWords * PeNum
    BY PartSpan, PartSizes
  <2>2. PICK x \in 0 .. PartWords - 1, k \in Lanes : e = Vertex(p, x, k)
    BY <2>1, VertexOf, PartSizes
  <2>3. LaneOf(e) = k /\ Row(e) = x
    BY <2>2, VertexPlace
  <2>4. k = l
    BY <2>3
  <2>5. x \div 2 = a /\ (x % 2 = 1 <=> h = 2)
    BY <2>3, <1>6 DEF AddressOf, Half
  <2>6. x = w
    <3>1. x \in Nat /\ w \in Nat
      BY <1>1, PartSizes
    <3>2. x = (x \div 2) * 2 + (x % 2) /\ x % 2 \in 0 .. 1
      BY <3>1
    <3>3. w = (w \div 2) * 2 + (w % 2) /\ w % 2 \in 0 .. 1
      BY <3>1
    <3>4. x % 2 = w % 2
      BY <1>2, <2>5, <3>2, <3>3
    <3>. QED  BY <1>2, <2>5, <3>2, <3>3, <3>4, Zenon
  <2>. QED  BY <2>2, <2>4, <2>6
<1>7. v <= DstVertexEnd(p) => v \in At
  BY <1>3, <1>4, <1>5, PartSpan
<1>8. v \in At => v <= DstVertexEnd(p)
  BY PartSpan
<1>9. UpdateWords(p, u)[w][l] = IF v <= DstVertexEnd(p) THEN {<<u, v>>} ELSE {}
  BY <1>1 DEF UpdateWords
<1>. HIDE DEF At, v
<1>10. At = IF v <= DstVertexEnd(p) THEN {v} ELSE {}
  BY <1>6, <1>7, <1>8
<1>11. {<<u, d>> : d \in At} = UpdateWords(p, u)[w][l]
  BY <1>9, <1>10
<1>. QED  BY <1>11 DEF At
-----------------------------------------------------------------------------
(***************************************************************************)
(* The invariant.                                                          *)
(***************************************************************************)

\* A stream of depth d whose writer has put in b words of F and whose reader
\* has taken a of them.
Holds(s, F, a, b, d) ==
  a \in Nat /\ b \in Nat /\ IsSlice(s, F, a) /\ b = a + Len(s) /\ Len(s) <= d

PhaseInv ==
  /\ phase \in {"idle", "gather", "writeOut", "apply"}
  /\ todo \subseteq Part /\ part \in Part /\ cu \in Cus
  /\ phase # "idle" => part \notin todo
  /\ phase \in {"idle", "apply"} => cu = 0

\* What the lanes have not sent is in the buffer of the unit at work.
BufferInv ==
  tmpVPropBuffer =
    [u \in Cus |-> [l \in Lanes |-> [a \in Addresses |->
       IF phase = "writeOut" /\ u = cu /\ a >= sent[l]
       THEN RowPairs(part, u, l)[a] ELSE <<{}, {}>>]]]

\* The rows taken from the lanes.
Collected == (bursts * BurstWrite + Len(writeBuffer)) \div 2

\* What they have sent is in their first stream, in their second, on its way
\* or written, in order.
LaneInv ==
  /\ bursts \in 0 .. AllBursts
  /\ sent \in [Lanes -> 0 .. Rows] /\ DOMAIN writeArrayLayer1 = Lanes
  /\ sliced \in [Lanes -> 0 .. Rows] /\ DOMAIN writeArray = Lanes
  /\ IF phase = "writeOut"
     THEN /\ Holds(writeBuffer, UpdateWords(part, cu), bursts * BurstWrite,
                   2 * Collected, BurstWrite)
          /\ \A l \in Lanes :
               /\ Holds(writeArrayLayer1[l], RowPairs(part, cu, l), sliced[l], sent[l], Depth)
               /\ Holds(writeArray[l], RowPairs(part, cu, l), Collected, sliced[l], Depth)
     ELSE /\ writeBuffer = <<>>
          /\ \A l \in Lanes : writeArrayLayer1[l] = <<>> /\ writeArray[l] = <<>>

\* Which words of the accumulated arrays of the partition are written.
Accumulated(u, w) ==
  \/ phase = "apply"
  \/ phase \in {"gather", "writeOut"} /\ u < cu
  \/ phase = "writeOut" /\ u = cu /\ w < bursts * BurstWrite

ArrayInv ==
  /\ DOMAIN tmpProp = Part
  /\ \A p \in Part : /\ DOMAIN tmpProp[p] = Cus
                     /\ \A u \in Cus : DOMAIN tmpProp[p][u] = WordsOf(MaxVertices)
  /\ \A u \in Cus : \A w \in WordsOf(MaxVertices) :
       Accumulated(u, w) => tmpProp[part][u][w] = UpdateWords(part, u)[w]

ArgumentInv ==
  /\ vertexNum \in 0 .. MaxVertices /\ addrOffset \in Vertices
  /\ phase = "apply" => /\ vertexNum = RoundedNum(part)
                        /\ addrOffset = DstVertexStart(part)

StageInv == PhaseInv /\ BufferInv /\ LaneInv /\ ArrayInv /\ ArgumentInv

\* What a reader reads; how much of it the next process has taken, and how
\* much has left the read buffer.
ReaderWords(r) == IF r \in {VertexProp, OutDegree} THEN OwnWords(part)
                  ELSE UpdateWords(part, r[2])
Consumed(r) == IF r \in {VertexProp, OutDegree} THEN applied ELSE merged[r[2]]
Emitted(r)  == Consumed(r) + Len(stream[r])

ReaderInv ==
  /\ chunk \in [Readers -> 0 .. Chunks]
  /\ DOMAIN readBuffer = Readers /\ DOMAIN stream = Readers
  /\ IF phase = "apply"
     THEN \A r \in Readers :
            /\ chunk[r] <= ChunkNum
            /\ Holds(stream[r], ReaderWords(r), Consumed(r), Emitted(r), DepthOf(r))
            /\ Holds(readBuffer[r], ReaderWords(r), Emitted(r),
                     chunk[r] * BurstBuffer, BurstBuffer)
     ELSE \A r \in Readers : stream[r] = <<>> /\ readBuffer[r] = <<>>

\* The words the next unit, or applyFunction, has taken from a unit.
MergedTaken(u) == IF u = CuNum - 1 THEN applied ELSE merged[u + 1]

MergeInv ==
  /\ merged \in [Cus -> Nat] /\ applied \in Nat /\ duplicated \in Nat
  /\ DOMAIN tmpStream = Cus
  /\ IF phase = "apply"
     THEN /\ applied <= LoopNum
          /\ \A u \in Cus :
               /\ merged[u] <= LoopNum
               /\ Holds(tmpStream[u], MergedWords(part, u), MergedTaken(u), merged[u], Depth)
     ELSE \A u \in Cus : tmpStream[u] = <<>>

NewInv ==
  IF phase = "apply"
  THEN Holds(newStream, NewWords(part), duplicated, applied, DepthNew)
  ELSE newStream = <<>>

\* The words a writer has taken into its buffer.
BackTaken(u) == counter[u] * BurstWrite + Len(ram[u])

BackInv ==
  /\ counter \in [Cus -> Nat] /\ DOMAIN ram = Cus /\ DOMAIN newArray = Cus
  /\ IF phase = "apply"
     THEN \A u \in Cus :
            /\ counter[u] <= BackBursts
            /\ Holds(ram[u], NewWords(part), counter[u] * BurstWrite, BackTaken(u), BurstWrite)
            /\ Holds(newArray[u], NewWords(part), BackTaken(u), duplicated, Depth)
     ELSE \A u \in Cus : ram[u] = <<>> /\ newArray[u] = <<>>

FlowInv == ReaderInv /\ MergeInv /\ NewInv /\ BackInv

\* The new properties written so far: those of the partitions done, and of the
\* current one those of the bursts counted.
Written(p, u, w) ==
  \/ Done(p) /\ w < RoundedNum(p) \div PeNum
  \/ phase = "apply" /\ p = part /\ w < counter[u] * BurstWrite

PropInv ==
  /\ DOMAIN newProp = Cus
  /\ \A u \in Cus :
       /\ DOMAIN newProp[u] = WordsOf(BlkNum * MaxVertices)
       /\ \A p \in Part, w \in 0 .. PartWords - 1 :
            newProp[u][p * PartWords + w] =
              IF Written(p, u, w) THEN NewWords(p)[w] ELSE OldWord

IInv == StageInv /\ FlowInv /\ PropInv
-----------------------------------------------------------------------------
(***************************************************************************)
(* Streams between two counters.                                           *)
(***************************************************************************)

LEMMA HoldsNothing ==
  ASSUME NEW F, NEW a \in Nat, NEW d \in Nat
  PROVE  Holds(<<>>, F, a, a, d)
  BY SliceEmpty DEF Holds

LEMMA HoldsFacts ==
  ASSUME NEW s, NEW F, NEW a, NEW b, NEW d \in Nat, Holds(s, F, a, b, d)
  PROVE  /\ a \in Nat /\ b \in Nat /\ Len(s) \in 0 .. d /\ a <= b
         /\ b = a + Len(s) /\ b <= a + d
         /\ s = <<>> <=> a = b
<1>1. /\ a \in Nat /\ b \in Nat /\ IsSlice(s, F, a) /\ b = a + Len(s) /\ Len(s) <= d
  BY DEF Holds
<1>2. PICK n : n = Len(s)
  OBVIOUS
<1>3. n \in Nat /\ (s # <<>> <=> n > 0)
  BY <1>1, <1>2, SliceSeq, Zenon
<1>. QED  BY <1>1, <1>2, <1>3

LEMMA HoldsPut ==
  ASSUME NEW s, NEW F, NEW a, NEW b, NEW d \in Nat, Holds(s, F, a, b, d),
         Len(s) < d, NEW e, e = F[b], NEW t, t = Append(s, e)
  PROVE  Holds(t, F, a, b + 1, d)
<1>1. /\ a \in Nat /\ b \in Nat /\ IsSlice(s, F, a) /\ b = a + Len(s)
  BY DEF Holds
<1>2. e = F[a + Len(s)]
  BY <1>1, Zenon
<1>3. IsSlice(t, F, a) /\ Len(s) \in Nat /\ Len(t) = Len(s) + 1
  <2>1. a \in Nat /\ IsSlice(s, F, a)
    BY <1>1
  <2>2. IsSlice(t, F, a)
    BY <1>2, <2>1, SliceAppend, Zenon
  <2>3. Len(s) \in Nat
    BY <1>2, <2>1, SliceAppend, Zenon
  <2>4. Len(t) = Len(s) + 1
    <3>1. PICK n : n = Len(s)
      OBVIOUS
    <3>2. s \in Seq({s[k] : k \in DOMAIN s})
      BY <2>1, <3>1, SliceSeq, Zenon
    <3>3. PICK S : s \in Seq(S) /\ e \in S
      <4>1. s \in Seq({s[k] : k \in DOMAIN s} \cup {e})
        BY <3>2
      <4>. QED  BY <4>1
    <3>. QED  BY <3>3
  <2>. QED  BY <2>2, <2>3, <2>4
<1>4. b + 1 \in Nat /\ b + 1 = a + Len(t) /\ Len(t) <= d
  BY <1>1, <1>3
<1>. QED  BY <1>1, <1>3, <1>4 DEF Holds

LEMMA HoldsTake ==
  ASSUME NEW s, NEW F, NEW a, NEW b, NEW d \in Nat, Holds(s, F, a, b, d),
         s # <<>>, NEW t, t = Tail(s), NEW c, c = a + 1
  PROVE  Holds(t, F, c, b, d) /\ Head(s) = F[a] /\ a < b /\ Len(t) = Len(s) - 1
<1>1. /\ a \in Nat /\ b \in Nat /\ IsSlice(s, F, a) /\ b = a + Len(s) /\ Len(s) <= d
  BY DEF Holds
<1>2. /\ Head(s) = F[a] /\ IsSlice(t, F, c) /\ Len(t) = Len(s) - 1
      /\ Len(s) \in Nat /\ Len(s) > 0
  BY <1>1, SliceTail, Zenon
<1>3. c \in Nat /\ b = c + Len(t) /\ Len(t) <= d /\ a < b
  BY <1>1, <1>2
<1>. QED  BY <1>1, <1>2, <1>3 DEF Holds

LEMMA HoldsFilled ==
  ASSUME NEW F, NEW a \in Nat, NEW d \in Nat, NEW s, s = [k \in 1 .. d |-> F[a + k - 1]]
  PROVE  Holds(s, F, a, a + d, d)
<1>1. IsSlice(s, F, a)
  BY SliceOf, Zenon
<1>2. Len(s) = d
  <2>1. Len(s) \in Nat /\ s = [k \in 1 .. Len(s) |-> F[a + k - 1]]
    BY <1>1 DEF IsSlice
  <2>2. PICK n : n = Len(s)
    OBVIOUS
  <2>3. DOMAIN s = 1 .. n /\ DOMAIN s = 1 .. d /\ n \in Nat
    BY <2>1, <2>2
  <2>. QED  BY <2>2, <2>3
<1>. QED  BY <1>1, <1>2 DEF Holds

\* The elements of a stream.
LEMMA HoldsAt ==
  ASSUME NEW s, NEW F, NEW a, NEW b, NEW d \in Nat, Holds(s, F, a, b, d),
         NEW k \in Nat, a <= k, k < b, NEW j, j = k - a + 1
  PROVE  s[j] = F[k]
<1>1. /\ a \in Nat /\ b \in Nat /\ IsSlice(s, F, a) /\ b = a + Len(s) /\ Len(s) <= d
  BY DEF Holds
<1>2. PICK n : n = Len(s)
  OBVIOUS
<1>3. n \in Nat /\ \A i \in 1 .. n : s[i] = F[a + i - 1]
  BY <1>1, <1>2, SliceSeq, Zenon
<1>4. j \in 1 .. n /\ a + j - 1 = k
  BY <1>1, <1>2, <1>3
<1>. QED  BY <1>3, <1>4, Zenon

LEMMA HoldsLen ==
  ASSUME NEW s, NEW F, NEW a, NEW b, NEW d \in Nat, Holds(s, F, a, b, d)
  PROVE  Len(s) \in 0 .. d
  BY HoldsFacts

\* The words of the partitions tile the property array.
LEMMA ArrayWords ==
  /\ BlkNum \in Nat /\ BlkNum * PartWords \in Nat
  /\ (BlkNum * MaxVertices) \div PeNum = BlkNum * PartWords
  /\ \A i : i \in WordsOf(BlkNum * MaxVertices) <=> i \in Nat /\ i < BlkNum * PartWords
<1>1. BlkNum \in Nat /\ PartWords \in Nat /\ PeNum \in Nat \ {0}
  BY PartSpan, PartSizes, Constants
<1>2. PICK k : k = BlkNum * PartWords
  OBVIOUS
<1>3. k \in Nat /\ BlkNum * (PartWords * PeNum) = k * PeNum
  BY <1>1, <1>2, Assoc
<1>4. PICK m : m = BlkNum * MaxVertices
  OBVIOUS
<1>5. m = k * PeNum
  BY <1>3, <1>4, PartSizes, Zenon
<1>6. m \div PeNum = k
  BY <1>1, <1>3, <1>5, Multiple
<1>7. WordsOf(m) = 0 .. k - 1
  BY <1>6 DEF WordsOf
<1>. QED  BY <1>1, <1>2, <1>3, <1>4, <1>6, <1>7

LEMMA WordIndex ==
  ASSUME NEW p \in Part, NEW w \in 0 .. PartWords - 1
  PROVE  p * PartWords + w \in WordsOf(BlkNum * MaxVertices)
<1>1. w \in Nat /\ w < PartWords /\ PartWords \in Nat
  BY PartSizes
<1>2. p \in Nat /\ p + 1 <= BlkNum
  <2>1. p \in Nat /\ p < BlkNum /\ BlkNum \in Nat
    BY PartSpan
  <2>. QED  BY <2>1
<1>3. (p + 1) * PartWords <= BlkNum * PartWords
  BY <1>1, <1>2, ArrayWords, MulMono
<1>4. p * PartWords \in Nat /\ (p + 1) * PartWords = p * PartWords + PartWords
  BY <1>1, <1>2, MulNext
<1>5. PICK k : k = BlkNum * PartWords
  OBVIOUS
<1>6. PICK i : i = p * PartWords
  OBVIOUS
<1>7. i + w \in Nat /\ i + w < k
  BY <1>1, <1>3, <1>4, <1>5, <1>6, ArrayWords
<1>. QED  BY <1>5, <1>6, <1>7, ArrayWords

LEMMA WordOf ==
  ASSUME NEW i \in WordsOf(BlkNum * MaxVertices)
  PROVE  \E p \in Part, w \in 0 .. PartWords - 1 : i = p * PartWords + w
<1>. DEFINE p == i \div PartWords
            w == i % PartWords
<1>1. i \in Nat /\ i < BlkNum * PartWords
  BY ArrayWords
<1>2. p \in Nat /\ w \in 0 .. PartWords - 1 /\ i = p * PartWords + w
  BY <1>1, PartSizes, DivMod
<1>. HIDE DEF p, w
<1>3. BlkNum \in Nat /\ PartWords \in Nat
  BY ArrayWords, PartSizes
<1>4. p < BlkNum
  <2>1. ASSUME BlkNum <= p  PROVE FALSE
    <3>1. BlkNum * PartWords <= p * PartWords
      BY <1>2, <1>3, <2>1, MulMono
    <3>2. p * PartWords \in Nat /\ w \in Nat
      BY <1>2, <1>3, MulNext
    <3>3. PICK k, j : k = BlkNum * PartWords /\ j = p * PartWords
      OBVIOUS
    <3>4. k \in Nat /\ j \in Nat /\ k <= j /\ i = j + w /\ i < k
      BY <1>1, <1>2, <3>1, <3>2, <3>3, ArrayWords
    <3>. QED  BY <3>2, <3>4
  <2>. QED  BY <1>2, <1>3, <2>1
<1>5. p \in Part
  BY <1>2, <1>3, <1>4 DEF Part
<1>. QED  BY <1>2, <1>5

LEMMA WordUnique ==
  ASSUME NEW p \in Part, NEW q \in Part,
         NEW w \in 0 .. PartWords - 1, NEW x \in Int, 0 <= x, x < PartWords,
         p * PartWords + w = q * PartWords + x
  PROVE  p = q /\ w = x
<1>1. p \in Nat /\ q \in Nat /\ w \in Nat /\ w < PartWords /\ x \in Nat /\ PartWords \in Nat \ {0}
  BY PartSpan, PartSizes
<1>2. PICK i : i = p * PartWords + w
  OBVIOUS
<1>3. i \div PartWords = p /\ i % PartWords = w
  BY <1>1, <1>2, QuotientRest, Zenon
<1>4. i = q * PartWords + x
  BY <1>2
<1>5. i \div PartWords = q /\ i % PartWords = x
  BY <1>1, <1>4, QuotientRest, Zenon
<1>. QED  BY <1>3, <1>5
-----------------------------------------------------------------------------
(***************************************************************************)
(* The initial state.                                                      *)
(***************************************************************************)

LEMMA InitInv == Init => IInv
<1>. SUFFICES ASSUME Init  PROVE IInv
  OBVIOUS
<1>1. PhaseInv
  <2>1. 0 \in Part /\ 0 \in Cus
    BY PartSpan, Constants DEF Part, Cus
  <2>. QED  BY <2>1 DEF Init, PhaseInv
<1>2. BufferInv
  BY DEF Init, BufferInv, Empty
<1>3. LaneInv
  <2>1. 0 \in 0 .. AllBursts /\ 0 \in 0 .. Rows
    BY PartSizes
  <2>. QED  BY <2>1 DEF Init, LaneInv
<1>4. ArrayInv
  <2>1. /\ tmpProp = [p \in Part |-> [u \in Cus |-> [w \in WordsOf(MaxVertices) |-> NoWord]]]
        /\ phase = "idle"
    BY DEF Init
  <2>. QED  BY <2>1 DEF ArrayInv, Accumulated
<1>5. ArgumentInv
  <2>1. 0 \in Vertices
    <3>1. ASSUME NEW i \in Nat \ {0}, NEW j \in Nat \ {0}  PROVE i * j \in Nat \ {0}
      OBVIOUS
    <3>2. BlkNum * MaxVertices \in Nat \ {0}
      BY <3>1, PartSpan, Constants
    <3>. QED  BY <3>2 DEF Vertices
  <2>. QED  BY <2>1, Constants DEF Init, ArgumentInv
<1>6. ReaderInv
  <2>1. 0 \in 0 .. Chunks
    BY PartSizes
  <2>. QED  BY <2>1 DEF Init, ReaderInv
<1>7. MergeInv
  BY DEF Init, MergeInv
<1>8. NewInv
  BY DEF Init, NewInv
<1>9. BackInv
  BY DEF Init, BackInv
<1>10. PropInv
  <2>1. /\ newProp = [u \in Cus |-> [w \in WordsOf(BlkNum * MaxVertices) |-> OldWord]]
        /\ phase = "idle" /\ todo = Part
    BY DEF Init
  <2>2. ASSUME NEW p \in Part, NEW u, NEW w  PROVE ~Written(p, u, w)
    BY <2>1 DEF Written, Done
  <2>3. ASSUME NEW u \in Cus, NEW p \in Part, NEW w \in 0 .. PartWords - 1
        PROVE  newProp[u][p * PartWords + w] = OldWord
    BY <2>1, WordIndex
  <2>. QED  BY <2>1, <2>2, <2>3 DEF PropInv
<1>. QED
  BY <1>1, <1>2, <1>3, <1>4, <1>5, <1>6, <1>7, <1>8, <1>9, <1>10
  DEF IInv, StageInv, FlowInv
-----------------------------------------------------------------------------
(***************************************************************************)
(* What a step leaves alone.                                               *)
(***************************************************************************)

LEMMA StageFrame ==
  ASSUME StageInv, UNCHANGED stageVars
  PROVE  StageInv'
<1>. USE DEF stageVars, writeVars
<1>1. PhaseInv'
  BY DEF StageInv, PhaseInv
<1>2. BufferInv'
  BY DEF StageInv, BufferInv
<1>3. LaneInv'
  <2>1. Collected' = Collected
    BY DEF Collected
  <2>. QED  BY <2>1 DEF StageInv, LaneInv
<1>4. ArrayInv'
  BY DEF StageInv, ArrayInv, Accumulated
<1>5. ArgumentInv'
  BY DEF StageInv, ArgumentInv
<1>. QED  BY <1>1, <1>2, <1>3, <1>4, <1>5 DEF StageInv

LEMMA ReaderFrame ==
  ASSUME ReaderInv, UNCHANGED <<phase, part, vertexNum, readVars, applied, merged>>
  PROVE  ReaderInv'
  BY DEF ReaderInv, readVars, ReaderWords, Consumed, Emitted, ChunkNum

LEMMA MergeFrame ==
  ASSUME MergeInv, UNCHANGED <<phase, part, vertexNum, merged, applied, duplicated, tmpStream>>
  PROVE  MergeInv'
  BY DEF MergeInv, MergedTaken, LoopNum

LEMMA NewFrame ==
  ASSUME NewInv, UNCHANGED <<phase, part, newStream, duplicated, applied>>
  PROVE  NewInv'
  BY DEF NewInv

LEMMA BackFrame ==
  ASSUME BackInv, UNCHANGED <<phase, part, vertexNum, backVars>>
  PROVE  BackInv'
  BY DEF BackInv, backVars, BackTaken, BackBursts

LEMMA PropFrame ==
  ASSUME PropInv, UNCHANGED <<phase, todo, part, counter, newProp>>
  PROVE  PropInv'
  BY DEF PropInv, Written, Done

\* Between the kernels the streams of the apply kernel are empty.
LEMMA QuietFlow ==
  ASSUME FlowInv, phase # "apply", phase' # "apply",
         UNCHANGED <<readVars, applyVars, backVars>>
  PROVE  FlowInv'
<1>. USE DEF readVars, applyVars, backVars
<1>1. ReaderInv'
  BY DEF FlowInv, ReaderInv
<1>2. MergeInv'
  BY DEF FlowInv, MergeInv
<1>3. NewInv'
  BY DEF FlowInv, NewInv
<1>4. BackInv'
  BY DEF FlowInv, BackInv
<1>. QED  BY <1>1, <1>2, <1>3, <1>4 DEF FlowInv

\* While a unit works the property array is left alone.
LEMMA QuietProp ==
  ASSUME PropInv, phase \in {"gather", "writeOut"}, phase' \in {"gather", "writeOut"},
         UNCHANGED <<todo, part, newProp>>
  PROVE  PropInv'
<1>1. ASSUME NEW p, NEW u, NEW w  PROVE Written(p, u, w)' = Written(p, u, w)
  BY DEF Written, Done
<1>2. DOMAIN newProp' = Cus
  BY DEF PropInv
<1>3. ASSUME NEW u \in Cus
      PROVE  /\ DOMAIN newProp'[u] = WordsOf(BlkNum * MaxVertices)
             /\ \A p \in Part, w \in 0 .. PartWords - 1 :
                  newProp'[u][p * PartWords + w] =
                    IF Written(p, u, w)' THEN NewWords(p)[w] ELSE OldWord
  BY <1>1 DEF PropInv
<1>. QED  BY <1>2, <1>3 DEF PropInv
-----------------------------------------------------------------------------
(***************************************************************************)
(* A partition begins.                                                     *)
(***************************************************************************)

LEMMA BeginInv ==
  ASSUME IInv, NEW q \in Part, Begin(q)
  PROVE  IInv'
<1>. USE DEF IInv, StageInv
<1>1. /\ phase = "idle" /\ phase' = "gather" /\ q \in todo
      /\ part' = q /\ todo' = todo \ {q} /\ cu' = 0
      /\ UNCHANGED <<tmpVPropBuffer, writeVars, tmpProp, vertexNum, addrOffset>>
      /\ UNCHANGED <<readVars, applyVars, backVars>> /\ UNCHANGED newProp
      /\ UNCHANGED counter
  BY DEF Begin, backVars
<1>2. PhaseInv'
  BY <1>1, Constants DEF PhaseInv, Cus
<1>3. BufferInv'
  BY <1>1 DEF BufferInv
<1>4. LaneInv'
  BY <1>1 DEF LaneInv, writeVars
<1>5. ArrayInv'
  <2>1. ASSUME NEW u \in Cus, NEW w  PROVE ~Accumulated(u, w)'
    BY <1>1, Constants DEF Accumulated, Cus
  <2>. QED  BY <1>1, <2>1 DEF ArrayInv
<1>6. ArgumentInv'
  BY <1>1 DEF ArgumentInv
<1>7. FlowInv'
  BY <1>1, QuietFlow
<1>8. PropInv'
  <2>1. ASSUME NEW p \in Part, NEW u, NEW w  PROVE Written(p, u, w)' <=> Written(p, u, w)
    BY <1>1 DEF Written, Done
  <2>2. DOMAIN newProp' = Cus
    BY <1>1 DEF PropInv
  <2>3. ASSUME NEW u \in Cus
        PROVE  /\ DOMAIN newProp'[u] = WordsOf(BlkNum * MaxVertices)
               /\ \A p \in Part, w \in 0 .. PartWords - 1 :
                    newProp'[u][p * PartWords + w] =
                      IF Written(p, u, w)' THEN NewWords(p)[w] ELSE OldWord
    BY <1>1, <2>1 DEF PropInv
  <2>. QED  BY <2>2, <2>3 DEF PropInv
<1>. QED  BY <1>2, <1>3, <1>4, <1>5, <1>6, <1>7, <1>8
-----------------------------------------------------------------------------
(***************************************************************************)
(* The gather-scatter kernel's write-out.                                  *)
(***************************************************************************)

LEMMA GatherInv ==
  ASSUME IInv, Gather
  PROVE  IInv'
<1>. USE DEF IInv, StageInv
<1>1. /\ phase = "gather" /\ phase' = "writeOut"
      /\ sent' = [l \in Lanes |-> 0] /\ sliced' = [l \in Lanes |-> 0] /\ bursts' = 0
      /\ UNCHANGED <<todo, part, cu, writeArrayLayer1, writeArray, writeBuffer, tmpProp,
                     vertexNum, addrOffset>>
      /\ UNCHANGED <<readVars, applyVars, backVars>> /\ UNCHANGED newProp
  BY DEF Gather
<1>2. PhaseInv'
  BY <1>1 DEF PhaseInv
<1>3. BufferInv'
  <2>. DEFINE B == [l \in Lanes |-> [a \in Addresses |-> RowPairs(part, cu, l)[a]]]
  <2>1. tmpVPropBuffer = [u \in Cus |-> [l \in Lanes |-> [a \in Addresses |-> <<{}, {}>>]]]
    BY <1>1 DEF BufferInv
  <2>2. tmpVPropBuffer' = [tmpVPropBuffer EXCEPT ![cu] = B]
    <3>. DEFINE At(l, a, h) ==
                  {<<cu, d>> : d \in {e \in DstVertexStart(part) .. DstVertexEnd(part) :
                     LaneOf(e) = l /\ AddressOf(e) = a /\ Half(e) = h}}
    <3>1. tmpVPropBuffer' = [tmpVPropBuffer EXCEPT ![cu] =
            [l \in Lanes |-> [a \in Addresses |->
               <<tmpVPropBuffer[cu][l][a][1] \cup At(l, a, 1),
                 tmpVPropBuffer[cu][l][a][2] \cup At(l, a, 2)>>]]]
      BY DEF Gather
    <3>2. ASSUME NEW l \in Lanes, NEW a \in Addresses
          PROVE  <<tmpVPropBuffer[cu][l][a][1] \cup At(l, a, 1),
                   tmpVPropBuffer[cu][l][a][2] \cup At(l, a, 2)>> = RowPairs(part, cu, l)[a]
      <4>1. part \in Part /\ cu \in Cus /\ a \in Nat
        BY PartSizes DEF PhaseInv
      <4>2. At(l, a, 1) = UpdateWords(part, cu)[2 * a][l]
        <5>1. PICK w, h : w = 2 * a /\ h = 1
          OBVIOUS
        <5>2. w = 2 * a + h - 1 /\ h \in 1 .. 2
          BY <4>1, <5>1
        <5>3. At(l, a, h) = UpdateWords(part, cu)[w][l]
          BY <4>1, <5>2, RowGathers
        <5>. QED  BY <5>1, <5>3
      <4>3. At(l, a, 2) = UpdateWords(part, cu)[2 * a + 1][l]
        <5>1. PICK w, h : w = 2 * a + 1 /\ h = 2
          OBVIOUS
        <5>2. w = 2 * a + h - 1 /\ h \in 1 .. 2
          BY <4>1, <5>1
        <5>3. At(l, a, h) = UpdateWords(part, cu)[w][l]
          BY <4>1, <5>2, RowGathers
        <5>. QED  BY <5>1, <5>3
      <4>. HIDE DEF At
      <4>4. tmpVPropBuffer[cu][l][a] = <<{}, {}>>
        BY <2>1, <4>1
      <4>5. RowPairs(part, cu, l)[a]
              = <<UpdateWords(part, cu)[2 * a][l], UpdateWords(part, cu)[2 * a + 1][l]>>
        BY <4>1 DEF RowPairs
      <4>. QED  BY <4>2, <4>3, <4>4, <4>5
    <3>. HIDE DEF At
    <3>3. [l \in Lanes |-> [a \in Addresses |->
               <<tmpVPropBuffer[cu][l][a][1] \cup At(l, a, 1),
                 tmpVPropBuffer[cu][l][a][2] \cup At(l, a, 2)>>]] = B
      BY <3>2
    <3>. QED  BY <3>1, <3>3, Zenon
  <2>3. ASSUME NEW a \in Addresses  PROVE a >= 0
    BY PartSizes
  <2>4. [u \in Cus |-> [l \in Lanes |-> [a \in Addresses |->
           IF phase' = "writeOut" /\ u = cu' /\ a >= sent'[l]
           THEN RowPairs(part', u, l)[a] ELSE <<{}, {}>>]]]
        = [tmpVPropBuffer EXCEPT ![cu] = B]
    BY <1>1, <2>1, <2>3 DEF PhaseInv
  <2>. QED  BY <2>2, <2>4 DEF BufferInv
<1>4. LaneInv'
  <2>1. 0 \in 0 .. AllBursts /\ 0 \in 0 .. Rows /\ Depth \in Nat /\ BurstWrite \in Nat
    BY PartSizes, Constants DEF Depth
  <2>2. /\ writeBuffer = <<>>
        /\ \A l \in Lanes : writeArrayLayer1[l] = <<>> /\ writeArray[l] = <<>>
    BY <1>1 DEF LaneInv
  <2>3. 0 * BurstWrite = 0 /\ Collected' = 0
    BY <1>1, <2>1, <2>2, SliceEmpty DEF Collected
  <2>4. ASSUME NEW F, NEW d \in Nat  PROVE Holds(<<>>, F, 0, 0, d)
    BY HoldsNothing
  <2>5. Holds(writeBuffer, UpdateWords(part, cu), bursts' * BurstWrite, 2 * Collected', BurstWrite)
    BY <1>1, <2>1, <2>2, <2>3, <2>4
  <2>6. ASSUME NEW l \in Lanes
        PROVE  /\ Holds(writeArrayLayer1[l], RowPairs(part, cu, l), sliced'[l], sent'[l], Depth)
               /\ Holds(writeArray[l], RowPairs(part, cu, l), Collected', sliced'[l], Depth)
    BY <1>1, <2>1, <2>2, <2>3, <2>4
  <2>. QED  BY <1>1, <2>1, <2>5, <2>6 DEF LaneInv
<1>5. ArrayInv'
  <2>1. ASSUME NEW u \in Cus, NEW w \in WordsOf(MaxVertices), Accumulated(u, w)'
        PROVE  Accumulated(u, w)
    <3>1. ~(w < 0 * BurstWrite)
      BY PartSizes, Constants
    <3>. QED  BY <1>1, <2>1, <3>1 DEF Accumulated
  <2>. QED  BY <1>1, <2>1 DEF ArrayInv
<1>6. ArgumentInv'
  BY <1>1 DEF ArgumentInv
<1>7. FlowInv'
  BY <1>1, QuietFlow
<1>8. PropInv'
  BY <1>1, QuietProp
<1>. QED  BY <1>2, <1>3, <1>4, <1>5, <1>6, <1>7, <1>8

LEMMA LaneWriteInv ==
  ASSUME IInv, NEW k \in Lanes, LaneWrite(k)
  PROVE  IInv'
<1>. USE DEF IInv, StageInv
<1>1. /\ phase = "writeOut" /\ phase' = "writeOut"
      /\ sent[k] \in Addresses /\ Len(writeArrayLayer1[k]) < Depth
      /\ writeArrayLayer1' = [writeArrayLayer1 EXCEPT ![k] =
                                Append(@, tmpVPropBuffer[cu][k][sent[k]])]
      /\ tmpVPropBuffer' = [tmpVPropBuffer EXCEPT ![cu][k][sent[k]] = <<{}, {}>>]
      /\ sent' = [sent EXCEPT ![k] = @ + 1]
      /\ UNCHANGED <<todo, part, cu, sliced, writeArray, writeBuffer, bursts, tmpProp,
                     vertexNum, addrOffset>>
      /\ UNCHANGED <<readVars, applyVars, backVars>> /\ UNCHANGED newProp
  BY DEF LaneWrite, HasRoom
<1>2. part \in Part /\ cu \in Cus
  BY DEF PhaseInv
<1>3. sent \in [Lanes -> 0 .. Rows] /\ Rows \in Nat /\ \A a \in Addresses : a \in Nat /\ a < Rows
  BY PartSizes DEF LaneInv
<1>4. PhaseInv'
  BY <1>1 DEF PhaseInv
<1>5. BufferInv'
  <2>. DEFINE G(u, l, a) == IF phase = "writeOut" /\ u = cu /\ a >= sent[l]
                            THEN RowPairs(part, u, l)[a] ELSE <<{}, {}>>
              H(u, l, a) == IF phase' = "writeOut" /\ u = cu' /\ a >= sent'[l]
                            THEN RowPairs(part', u, l)[a] ELSE <<{}, {}>>
  <2>1. tmpVPropBuffer = [u \in Cus |-> [l \in Lanes |-> [a \in Addresses |-> G(u, l, a)]]]
    BY DEF BufferInv
  <2>2. ASSUME NEW u \in Cus, NEW l \in Lanes, NEW a \in Addresses
        PROVE  H(u, l, a) = IF u = cu /\ l = k /\ a = sent[k] THEN <<{}, {}>> ELSE G(u, l, a)
    <3>1. CASE l = k
      <4>1. sent'[l] = sent[k] + 1 /\ sent[k] \in Nat /\ a \in Nat
        BY <1>1, <1>3, <3>1
      <4>2. a >= sent'[l] <=> (a >= sent[k] /\ a # sent[k])
        BY <4>1
      <4>. QED  BY <1>1, <3>1, <4>2
    <3>2. CASE l # k
      <4>1. sent'[l] = sent[l]
        BY <1>1, <1>3, <3>2
      <4>. QED  BY <1>1, <3>2, <4>1
    <3>. QED  BY <3>1, <3>2
  <2>. HIDE DEF G, H
  <2>3. tmpVPropBuffer' = [u \in Cus |-> [l \in Lanes |-> [a \in Addresses |->
           IF u = cu /\ l = k /\ a = sent[k] THEN <<{}, {}>> ELSE G(u, l, a)]]]
    <3>. DEFINE f == tmpVPropBuffer
                s == sent[k]
                h == [f[cu][k] EXCEPT ![s] = <<{}, {}>>]
                g == [f[cu] EXCEPT ![k] = h]
    <3>1. /\ f = [u \in Cus |-> [l \in Lanes |-> [a \in Addresses |-> G(u, l, a)]]]
          /\ s \in Addresses /\ cu \in Cus /\ tmpVPropBuffer' = [f EXCEPT ![cu] = g]
      BY <1>1, <1>2, <2>1
    <3>. HIDE DEF f, s
    <3>2. h = [a \in Addresses |-> IF a = s THEN <<{}, {}>> ELSE G(cu, k, a)]
      BY <3>1
    <3>. HIDE DEF h
    <3>3. g = [l \in Lanes |-> IF l = k THEN h ELSE [a \in Addresses |-> G(cu, l, a)]]
      BY <3>1
    <3>. HIDE DEF g
    <3>4. tmpVPropBuffer' = [u \in Cus |-> IF u = cu THEN g
                                ELSE [l \in Lanes |-> [a \in Addresses |-> G(u, l, a)]]]
      BY <3>1
    <3>5. ASSUME NEW l \in Lanes
          PROVE  (IF l = k THEN h ELSE [a \in Addresses |-> G(cu, l, a)])
                   = [a \in Addresses |->
                        IF l = k /\ a = s THEN <<{}, {}>> ELSE G(cu, l, a)]
      BY <3>2
    <3>6. g = [l \in Lanes |-> [a \in Addresses |->
                 IF l = k /\ a = s THEN <<{}, {}>> ELSE G(cu, l, a)]]
      BY <3>3, <3>5
    <3>7. ASSUME NEW u \in Cus
          PROVE  (IF u = cu THEN g ELSE [l \in Lanes |-> [a \in Addresses |-> G(u, l, a)]])
                   = [l \in Lanes |-> [a \in Addresses |->
                        IF u = cu /\ l = k /\ a = s THEN <<{}, {}>> ELSE G(u, l, a)]]
      <4>1. CASE u = cu
        BY <3>6, <4>1
      <4>2. CASE u # cu
        BY <4>2
      <4>. QED  BY <4>1, <4>2
    <3>8. tmpVPropBuffer' = [u \in Cus |-> [l \in Lanes |-> [a \in Addresses |->
             IF u = cu /\ l = k /\ a = s THEN <<{}, {}>> ELSE G(u, l, a)]]]
      BY <3>4, <3>7
    <3>. QED  BY <3>8 DEF s
  <2>4. tmpVPropBuffer' = [u \in Cus |-> [l \in Lanes |-> [a \in Addresses |-> H(u, l, a)]]]
    BY <2>2, <2>3
  <2>. QED  BY <2>4 DEF H, BufferInv
<1>6. LaneInv'
  <2>1. Collected' = Collected
    BY <1>1 DEF Collected
  <2>2. sent' \in [Lanes -> 0 .. Rows]
    BY <1>1, <1>3
  <2>3. ASSUME NEW l \in Lanes
        PROVE  Holds(writeArrayLayer1'[l], RowPairs(part, cu, l), sliced[l], sent'[l], Depth)
    <3>1. Holds(writeArrayLayer1[l], RowPairs(part, cu, l), sliced[l], sent[l], Depth)
      BY <1>1 DEF LaneInv
    <3>2. CASE l = k
      <4>1. tmpVPropBuffer[cu][k][sent[k]] = RowPairs(part, cu, k)[sent[k]]
        BY <1>1, <1>2, <1>3 DEF BufferInv
      <4>2. writeArrayLayer1'[k] = Append(writeArrayLayer1[k], tmpVPropBuffer[cu][k][sent[k]])
            /\ sent'[k] = sent[k] + 1
        BY <1>1, <1>3 DEF LaneInv
      <4>3. Depth \in Nat
        BY DEF Depth
      <4>4. Holds(writeArrayLayer1'[k], RowPairs(part, cu, k), sliced[k], sent[k] + 1, Depth)
        BY <1>1, <3>1, <3>2, <4>1, <4>2, <4>3, HoldsPut
      <4>. QED  BY <3>2, <4>2, <4>4
    <3>3. CASE l # k
      <4>1. writeArrayLayer1'[l] = writeArrayLayer1[l] /\ sent'[l] = sent[l]
        BY <1>1, <1>3, <3>3 DEF LaneInv
      <4>. QED  BY <3>1, <4>1
    <3>. QED  BY <3>2, <3>3
  <2>4. DOMAIN writeArrayLayer1' = Lanes
    BY <1>1 DEF LaneInv
  <2>. QED  BY <1>1, <2>1, <2>2, <2>3, <2>4 DEF LaneInv
<1>7. ArrayInv'
  BY <1>1 DEF ArrayInv, Accumulated
<1>8. ArgumentInv'
  BY <1>1 DEF ArgumentInv
<1>9. FlowInv'
  BY <1>1, QuietFlow
<1>10. PropInv'
  BY <1>1, QuietProp
<1>. QED  BY <1>4, <1>5, <1>6, <1>7, <1>8, <1>9, <1>10

\* A pair goes on from the lane's first stream to its second.
LEMMA SliceWriteInv ==
  ASSUME IInv, NEW k \in Lanes, SliceWrite(k)
  PROVE  IInv'
<1>. USE DEF IInv, StageInv
<1>1. /\ phase = "writeOut" /\ phase' = "writeOut"
      /\ sliced[k] \in Addresses /\ writeArrayLayer1[k] # <<>> /\ Len(writeArray[k]) < Depth
      /\ writeArray' = [writeArray EXCEPT ![k] = Append(@, Head(writeArrayLayer1[k]))]
      /\ writeArrayLayer1' = [writeArrayLayer1 EXCEPT ![k] = Tail(@)]
      /\ sliced' = [sliced EXCEPT ![k] = @ + 1]
      /\ UNCHANGED <<todo, part, cu, tmpVPropBuffer, sent, writeBuffer, bursts, tmpProp,
                     vertexNum, addrOffset>>
      /\ UNCHANGED <<readVars, applyVars, backVars>> /\ UNCHANGED newProp
  BY DEF SliceWrite, HasRoom
<1>2. PhaseInv' /\ BufferInv' /\ ArrayInv' /\ ArgumentInv'
  BY <1>1 DEF PhaseInv, BufferInv, ArrayInv, ArgumentInv, Accumulated
<1>3. FlowInv' /\ PropInv'
  BY <1>1, QuietFlow, QuietProp
<1>4. LaneInv'
  <2>1. Collected' = Collected
    BY <1>1 DEF Collected
  <2>2. sliced' \in [Lanes -> 0 .. Rows]
    <3>1. sliced[k] \in Nat /\ sliced[k] < Rows /\ Rows \in Nat
      BY <1>1, PartSizes
    <3>2. sliced[k] + 1 \in 0 .. Rows
      BY <3>1
    <3>. QED  BY <1>1, <3>2 DEF LaneInv
  <2>3. ASSUME NEW l \in Lanes
        PROVE  /\ Holds(writeArrayLayer1'[l], RowPairs(part, cu, l), sliced'[l], sent[l], Depth)
               /\ Holds(writeArray'[l], RowPairs(part, cu, l), Collected, sliced'[l], Depth)
    <3>1. /\ Holds(writeArrayLayer1[l], RowPairs(part, cu, l), sliced[l], sent[l], Depth)
          /\ Holds(writeArray[l], RowPairs(part, cu, l), Collected, sliced[l], Depth)
      BY <1>1 DEF LaneInv
    <3>2. CASE l = k
      <4>1. /\ writeArrayLayer1'[k] = Tail(writeArrayLayer1[k])
            /\ writeArray'[k] = Append(writeArray[k], Head(writeArrayLayer1[k]))
            /\ sliced'[k] = sliced[k] + 1
        BY <1>1 DEF LaneInv
      <4>2. Depth \in Nat
        BY DEF Depth
      <4>3. /\ Holds(writeArrayLayer1'[k], RowPairs(part, cu, k), sliced[k] + 1, sent[k], Depth)
            /\ Head(writeArrayLayer1[k]) = RowPairs(part, cu, k)[sliced[k]]
        <5>1. PICK s, t, F, a, b, c :
                /\ s = writeArrayLayer1[k] /\ t = Tail(s) /\ F = RowPairs(part, cu, k)
                /\ a = sliced[k] /\ c = a + 1 /\ b = sent[k]
          OBVIOUS
        <5>2. Holds(s, F, a, b, Depth) /\ s # <<>>
          BY <1>1, <3>1, <3>2, <5>1
        <5>3. t = Tail(s) /\ c = a + 1
          BY <5>1
        <5>4. Holds(t, F, c, b, Depth) /\ Head(s) = F[a]
          BY <4>2, <5>2, <5>3, HoldsTake
        <5>. QED  BY <4>1, <5>1, <5>4
      <4>4. Holds(writeArray'[k], RowPairs(part, cu, k), Collected, sliced[k] + 1, Depth)
        BY <1>1, <3>1, <3>2, <4>1, <4>2, <4>3, HoldsPut
      <4>. QED  BY <3>2, <4>1, <4>3, <4>4
    <3>3. CASE l # k
      <4>1. /\ writeArrayLayer1'[l] = writeArrayLayer1[l] /\ writeArray'[l] = writeArray[l]
            /\ sliced'[l] = sliced[l]
        BY <1>1, <3>3 DEF LaneInv
      <4>. QED  BY <3>1, <4>1
    <3>. QED  BY <3>2, <3>3
  <2>4. DOMAIN writeArrayLayer1' = Lanes /\ DOMAIN writeArray' = Lanes
    BY <1>1 DEF LaneInv
  <2>. QED  BY <1>1, <2>1, <2>2, <2>3, <2>4 DEF LaneInv
<1>. QED  BY <1>2, <1>3, <1>4

\* Two words put in at once.
LEMMA HoldsTwo ==
  ASSUME NEW s, NEW F, NEW a, NEW b, NEW d \in Nat, Holds(s, F, a, b, d),
         Len(s) + 2 <= d, NEW x, x = F[b], NEW y, y = F[b + 1],
         NEW t, t = s \o <<x, y>>
  PROVE  Holds(t, F, a, b + 2, d)
<1>. DEFINE r == Append(s, x)
<1>1. Len(s) \in Nat /\ b \in Nat /\ Len(s) < d
  BY HoldsFacts
<1>2. Holds(r, F, a, b + 1, d)
  BY <1>1, HoldsPut
<1>3. t = Append(r, y) /\ Len(r) = Len(s) + 1
  <2>1. a \in Nat /\ IsSlice(s, F, a)
    BY DEF Holds
  <2>2. PICK n : n = Len(s)
    OBVIOUS
  <2>3. s \in Seq({s[k] : k \in DOMAIN s})
    BY <2>1, <2>2, SliceSeq, Zenon
  <2>4. PICK S : s \in Seq(S) /\ x \in S /\ y \in S
    <3>1. s \in Seq({s[k] : k \in DOMAIN s} \cup {x, y})
      BY <2>3
    <3>. QED  BY <3>1
  <2>5. <<x, y>> \in Seq(S) /\ r \in Seq(S)
    BY <2>4
  <2>6. Len(r) = Len(s) + 1 /\ Len(t) = Len(s) + 2 /\ t \in Seq(S)
    BY <2>4, <2>5
  <2>7. Append(r, y) \in Seq(S) /\ Len(Append(r, y)) = Len(s) + 2
    BY <2>4, <2>5, <2>6
  <2>8. ASSUME NEW k \in 1 .. Len(s) + 2  PROVE t[k] = Append(r, y)[k]
    BY <2>4, <2>5, <2>6, <2>8
  <2>9. t = Append(r, y)
    BY <2>6, <2>7, <2>8
  <2>. QED  BY <2>6, <2>9
<1>. HIDE DEF r
<1>4. Len(r) < d
  BY <1>1, <1>3
<1>5. Holds(t, F, a, b + 1 + 1, d)
  BY <1>2, <1>3, <1>4, HoldsPut
<1>. QED  BY <1>1, <1>5

LEMMA CollectRowInv ==
  ASSUME IInv, CollectRow
  PROVE  IInv'
<1>. USE DEF IInv, StageInv
<1>1. /\ phase = "writeOut" /\ phase' = "writeOut"
      /\ bursts < AllBursts /\ Len(writeBuffer) < BurstWrite
      /\ \A l \in Lanes : writeArray[l] # <<>>
      /\ writeBuffer' = writeBuffer \o [h \in 1 .. 2 |->
                          [l \in Lanes |-> Head(writeArray[l])[h]]]
      /\ writeArray' = [l \in Lanes |-> Tail(writeArray[l])]
      /\ UNCHANGED <<todo, part, cu, tmpVPropBuffer, sent, writeArrayLayer1, sliced, bursts,
                     tmpProp, vertexNum, addrOffset>>
      /\ UNCHANGED <<readVars, applyVars, backVars>> /\ UNCHANGED newProp
  BY DEF CollectRow
<1>2. PhaseInv' /\ BufferInv' /\ ArrayInv' /\ ArgumentInv'
  BY <1>1 DEF PhaseInv, BufferInv, ArrayInv, ArgumentInv, Accumulated
<1>3. FlowInv' /\ PropInv'
  BY <1>1, QuietFlow, QuietProp
<1>4. LaneInv'
  <2>. DEFINE U == UpdateWords(part, cu)
              at == bursts * BurstWrite
              c == Collected
  <2>1. Holds(writeBuffer, U, at, 2 * c, BurstWrite)
    BY <1>1 DEF LaneInv
  <2>2. ASSUME NEW l \in Lanes
        PROVE  Holds(writeArray[l], RowPairs(part, cu, l), c, sliced[l], Depth)
    BY <1>1 DEF LaneInv
  <2>3. bursts \in Nat /\ at \in Nat /\ BurstWrite \in Nat /\ BurstWrite % 2 = 0
    BY PartSizes, Constants, MulNext DEF LaneInv
  <2>4. c \in Nat
    <3>1. Len(writeBuffer) \in Nat
      BY <2>1, <2>3, HoldsFacts
    <3>. QED  BY <2>3, <3>1 DEF Collected
  <2>5. ASSUME NEW l \in Lanes
        PROVE  /\ Holds(writeArray'[l], RowPairs(part, cu, l), c + 1, sliced[l], Depth)
               /\ Head(writeArray[l]) = RowPairs(part, cu, l)[c]
    <3>1. writeArray[l] # <<>> /\ writeArray'[l] = Tail(writeArray[l]) /\ Depth \in Nat
      BY <1>1 DEF Depth
    <3>. QED  BY <2>2, <3>1, HoldsTake
  <2>6. [h \in 1 .. 2 |-> [l \in Lanes |-> Head(writeArray[l])[h]]] = <<U[2 * c], U[2 * c + 1]>>
    <3>1. 2 * c \in Nat /\ 2 * c + 1 \in Nat
      BY <2>4
    <3>2. /\ U[2 * c] = [l \in Lanes |-> U[2 * c][l]]
          /\ U[2 * c + 1] = [l \in Lanes |-> U[2 * c + 1][l]]
      BY <3>1 DEF UpdateWords
    <3>3. ASSUME NEW l \in Lanes
          PROVE  /\ Head(writeArray[l])[1] = U[2 * c][l]
                 /\ Head(writeArray[l])[2] = U[2 * c + 1][l]
      <4>1. RowPairs(part, cu, l)[c] = <<U[2 * c][l], U[2 * c + 1][l]>>
        BY <2>4 DEF RowPairs
      <4>. QED  BY <2>5, <4>1
    <3>. HIDE DEF U, c
    <3>4. /\ [l \in Lanes |-> Head(writeArray[l])[1]] = U[2 * c]
          /\ [l \in Lanes |-> Head(writeArray[l])[2]] = U[2 * c + 1]
      BY <3>2, <3>3
    <3>. QED  BY <3>4
  <2>7. 2 * c = at + Len(writeBuffer) /\ Len(writeBuffer) \in Nat
    BY <2>1, <2>3, HoldsFacts
  <2>8. Len(writeBuffer) + 2 <= BurstWrite
    <3>1. PICK h \in Nat : BurstWrite = 2 * h
      BY <2>3
    <3>2. at = 2 * (bursts * h) /\ bursts * h \in Nat
      <4>1. ASSUME NEW i \in Nat, NEW j \in Nat  PROVE i * (2 * j) = 2 * (i * j) /\ i * j \in Nat
        OBVIOUS
      <4>. QED  BY <2>3, <3>1, <4>1
    <3>3. PICK x : x = bursts * h
      OBVIOUS
    <3>4. PICK n : n = Len(writeBuffer)
      OBVIOUS
    <3>5. x \in Nat /\ n \in Nat /\ c \in Nat /\ 2 * c = 2 * x + n /\ n < 2 * h
      BY <1>1, <2>4, <2>7, <3>1, <3>2, <3>3, <3>4
    <3>. HIDE DEF c
    <3>6. n + 2 <= 2 * h
      BY <3>5
    <3>. QED  BY <3>1, <3>4, <3>6
  <2>. HIDE DEF U, at, c
  <2>9. Holds(writeBuffer', U, at, 2 * c + 2, BurstWrite)
    BY <1>1, <2>1, <2>3, <2>6, <2>8, HoldsTwo
  <2>10. 2 * c + 2 = at + Len(writeBuffer')
    BY <2>3, <2>9, HoldsFacts
  <2>11. Collected' = c + 1
    <3>1. Collected' = (at + Len(writeBuffer')) \div 2
      BY <1>1 DEF Collected, at
    <3>2. at + Len(writeBuffer') = 2 * (c + 1)
      BY <2>4, <2>10
    <3>3. (2 * (c + 1)) \div 2 = c + 1
      BY <2>4
    <3>. QED  BY <3>1, <3>2, <3>3
  <2>12. 2 * c + 2 = 2 * Collected'
    BY <2>4, <2>11
  <2>13. Holds(writeBuffer', UpdateWords(part, cu), bursts * BurstWrite, 2 * Collected', BurstWrite)
    BY <2>9, <2>12 DEF U, at
  <2>14. ASSUME NEW l \in Lanes
        PROVE  /\ Holds(writeArrayLayer1[l], RowPairs(part, cu, l), sliced[l], sent[l], Depth)
               /\ Holds(writeArray'[l], RowPairs(part, cu, l), Collected', sliced[l], Depth)
    BY <1>1, <2>5, <2>11 DEF LaneInv
  <2>15. /\ bursts \in 0 .. AllBursts /\ DOMAIN writeArray' = Lanes
         /\ sent \in [Lanes -> 0 .. Rows] /\ DOMAIN writeArrayLayer1 = Lanes
         /\ sliced \in [Lanes -> 0 .. Rows]
    BY <1>1 DEF LaneInv
  <2>. QED  BY <1>1, <2>13, <2>14, <2>15 DEF LaneInv
<1>. QED  BY <1>2, <1>3, <1>4

\* What the counts say when the lanes have sent everything.
LEMMA LaneCounts ==
  ASSUME PhaseInv, LaneInv, phase = "writeOut"
  PROVE  /\ bursts \in Nat /\ bursts <= AllBursts /\ Collected \in Nat
         /\ bursts * BurstWrite \in Nat
         /\ 2 * Collected = bursts * BurstWrite + Len(writeBuffer)
         /\ Len(writeBuffer) \in 0 .. BurstWrite
         /\ \A l \in Lanes : /\ sent[l] \in 0 .. Rows /\ sliced[l] \in 0 .. Rows
                             /\ Collected <= sliced[l]
                             /\ sliced[l] = sent[l] => writeArrayLayer1[l] = <<>>
                             /\ Collected = sliced[l] => writeArray[l] = <<>>
         /\ 2 * Collected <= PartWords
<1>1. /\ Holds(writeBuffer, UpdateWords(part, cu), bursts * BurstWrite, 2 * Collected, BurstWrite)
      /\ bursts \in 0 .. AllBursts
      /\ sent \in [Lanes -> 0 .. Rows] /\ sliced \in [Lanes -> 0 .. Rows]
  BY DEF LaneInv
<1>2. ASSUME NEW l \in Lanes
      PROVE  /\ Holds(writeArrayLayer1[l], RowPairs(part, cu, l), sliced[l], sent[l], Depth)
             /\ Holds(writeArray[l], RowPairs(part, cu, l), Collected, sliced[l], Depth)
  BY DEF LaneInv
<1>3. BurstWrite \in Nat /\ AllBursts \in Nat /\ Depth \in Nat
  BY PartSizes, Constants DEF Depth
<1>4. bursts \in Nat /\ bursts <= AllBursts /\ bursts * BurstWrite \in Nat
  BY <1>1, <1>3, MulNext
<1>5. /\ 2 * Collected = bursts * BurstWrite + Len(writeBuffer)
      /\ Len(writeBuffer) \in 0 .. BurstWrite
  BY <1>1, <1>3, HoldsFacts
<1>6. ASSUME NEW l \in Lanes
      PROVE  /\ sent[l] \in 0 .. Rows /\ sliced[l] \in 0 .. Rows
             /\ Collected <= sliced[l] /\ Collected \in Nat
             /\ sliced[l] = sent[l] => writeArrayLayer1[l] = <<>>
             /\ Collected = sliced[l] => writeArray[l] = <<>>
  <2>1. sliced[l] = sent[l] => writeArrayLayer1[l] = <<>>
    BY <1>2, <1>3, HoldsFacts
  <2>2. /\ Collected <= sliced[l] /\ Collected \in Nat
        /\ Collected = sliced[l] => writeArray[l] = <<>>
    BY <1>2, <1>3, HoldsFacts
  <2>. QED  BY <1>1, <2>1, <2>2
<1>7. 0 \in Lanes
  BY Constants DEF Lanes
<1>8. Collected \in Nat /\ 2 * Collected <= PartWords
  <2>1. sliced[0] \in 0 .. Rows /\ Collected <= sliced[0] /\ Collected \in Nat
    BY <1>6, <1>7
  <2>2. PICK c, k : c = Collected /\ k = sliced[0]
    OBVIOUS
  <2>3. k \in Nat /\ c \in Nat /\ c <= k /\ k <= Rows /\ Rows \in Nat
    BY <2>1, <2>2, PartSizes
  <2>4. 2 * c <= 2 * Rows
    BY <2>3
  <2>. QED  BY <2>1, <2>2, <2>4, PartSizes
<1>. QED  BY <1>4, <1>5, <1>6, <1>8

LEMMA WriteBurstInv ==
  ASSUME IInv, WriteBurst
  PROVE  IInv'
<1>. USE DEF IInv, StageInv
<1>1. /\ phase = "writeOut" /\ phase' = "writeOut" /\ Len(writeBuffer) = BurstWrite
      /\ tmpProp' = [tmpProp EXCEPT ![part][cu] = [w \in DOMAIN @ |->
           IF w \div BurstWrite = bursts THEN writeBuffer[(w % BurstWrite) + 1] ELSE @[w]]]
      /\ bursts' = bursts + 1 /\ writeBuffer' = <<>>
      /\ UNCHANGED <<todo, part, cu, tmpVPropBuffer, sent, writeArrayLayer1, sliced,
                     writeArray, vertexNum, addrOffset>>
      /\ UNCHANGED <<readVars, applyVars, backVars>> /\ UNCHANGED newProp
  BY DEF WriteBurst
<1>2. PhaseInv' /\ BufferInv' /\ ArgumentInv'
  BY <1>1 DEF PhaseInv, BufferInv, ArgumentInv
<1>3. FlowInv' /\ PropInv'
  BY <1>1, QuietFlow, QuietProp
<1>. DEFINE at == bursts * BurstWrite
            c == Collected
<1>4. /\ bursts \in Nat /\ at \in Nat /\ c \in Nat /\ 2 * c = at + BurstWrite
      /\ 2 * c <= PartWords /\ BurstWrite \in Nat \ {0}
  BY <1>1, LaneCounts, Constants
<1>5. (bursts + 1) * BurstWrite = at + BurstWrite
  BY <1>4, MulNext
<1>6. Holds(writeBuffer, UpdateWords(part, cu), at, 2 * c, BurstWrite)
  BY <1>1 DEF LaneInv
<1>7. LaneInv'
  <2>1. bursts + 1 \in 0 .. AllBursts
    <3>1. ASSUME AllBursts <= bursts  PROVE FALSE
      <4>1. AllBursts * BurstWrite <= at
        BY <1>4, <3>1, PartSizes, MulMono
      <4>. HIDE DEF at, c
      <4>. QED  BY <1>4, <4>1, PartSizes
    <3>. QED  BY <1>4, <3>1, PartSizes
  <2>2. Collected' = c
    <3>1. Collected' = ((bursts + 1) * BurstWrite + 0) \div 2
      BY <1>1, SliceEmpty DEF Collected
    <3>. HIDE DEF at, c
    <3>2. (bursts + 1) * BurstWrite + 0 = 2 * c
      BY <1>4, <1>5
    <3>3. (2 * c) \div 2 = c
      BY <1>4
    <3>. QED  BY <3>1, <3>2, <3>3
  <2>3. Holds(<<>>, UpdateWords(part, cu), (bursts + 1) * BurstWrite, 2 * c, BurstWrite)
    <3>. HIDE DEF at, c
    <3>1. (bursts + 1) * BurstWrite = 2 * c /\ 2 * c \in Nat
      BY <1>4, <1>5
    <3>. QED  BY <1>4, <3>1, HoldsNothing
  <2>4. ASSUME NEW l \in Lanes
        PROVE  /\ Holds(writeArrayLayer1[l], RowPairs(part, cu, l), sliced[l], sent[l], Depth)
               /\ Holds(writeArray[l], RowPairs(part, cu, l), Collected, sliced[l], Depth)
    BY <1>1 DEF LaneInv
  <2>5. /\ sent \in [Lanes -> 0 .. Rows] /\ DOMAIN writeArrayLayer1 = Lanes
        /\ sliced \in [Lanes -> 0 .. Rows] /\ DOMAIN writeArray = Lanes
    BY DEF LaneInv
  <2>. QED  BY <1>1, <2>1, <2>2, <2>3, <2>4, <2>5 DEF LaneInv
<1>8. ArrayInv'
  <2>1. /\ DOMAIN tmpProp = Part /\ part \in Part /\ cu \in Cus
        /\ \A p \in Part : /\ DOMAIN tmpProp[p] = Cus
                           /\ \A u \in Cus : DOMAIN tmpProp[p][u] = WordsOf(MaxVertices)
    BY DEF ArrayInv, PhaseInv
  <2>. DEFINE g == [w \in WordsOf(MaxVertices) |->
                      IF w \div BurstWrite = bursts THEN writeBuffer[(w % BurstWrite) + 1]
                      ELSE tmpProp[part][cu][w]]
  <2>2. tmpProp' = [tmpProp EXCEPT ![part] = [tmpProp[part] EXCEPT ![cu] = g]]
    BY <1>1, <2>1
  <2>3. DOMAIN g = WordsOf(MaxVertices)
    OBVIOUS
  <2>4. ASSUME NEW w \in WordsOf(MaxVertices)
        PROVE  g[w] = IF w \div BurstWrite = bursts THEN writeBuffer[(w % BurstWrite) + 1]
                      ELSE tmpProp[part][cu][w]
    OBVIOUS
  <2>. HIDE DEF g
  <2>5. /\ DOMAIN tmpProp' = Part
        /\ \A p \in Part : /\ DOMAIN tmpProp'[p] = Cus
                           /\ \A u \in Cus : DOMAIN tmpProp'[p][u] = WordsOf(MaxVertices)
    BY <2>1, <2>2, <2>3
  <2>6. ASSUME NEW u \in Cus, NEW w \in WordsOf(MaxVertices), Accumulated(u, w)'
        PROVE  tmpProp'[part][u][w] = UpdateWords(part, u)[w]
    <3>1. CASE u = cu
      <4>1. tmpProp'[part][u][w] = g[w]
        BY <2>1, <2>2, <3>1
      <4>2. w \in Nat
        BY PartSizes
      <4>3. w < at + BurstWrite
        <5>1. u \in Nat /\ ~(u < u)
          BY Constants DEF Cus
        <5>. QED  BY <1>1, <1>5, <2>6, <3>1, <5>1 DEF Accumulated
      <4>4. CASE w \div BurstWrite = bursts
        <5>1. PICK r : r = w % BurstWrite
          OBVIOUS
        <5>2. w = at + r /\ r \in Nat /\ r < BurstWrite
          <6>1. /\ w = (w \div BurstWrite) * BurstWrite + (w % BurstWrite)
                /\ w % BurstWrite \in 0 .. BurstWrite - 1
            BY <1>4, <4>2, DivMod, Zenon
          <6>2. w = at + r
            BY <4>4, <5>1, <6>1, Zenon
          <6>. QED  BY <1>4, <5>1, <6>1, <6>2
        <5>3. at <= w /\ w < 2 * c /\ r + 1 = w - at + 1
          <6>. HIDE DEF at, c
          <6>. QED  BY <1>4, <4>2, <5>2
        <5>4. writeBuffer[r + 1] = UpdateWords(part, cu)[w]
          <6>1. BurstWrite \in Nat
            BY <1>4
          <6>. HIDE DEF at, c
          <6>. QED  BY <1>6, <4>2, <5>3, <6>1, HoldsAt
        <5>. QED  BY <2>4, <3>1, <4>1, <4>4, <5>1, <5>4
      <4>5. CASE w \div BurstWrite # bursts
        <5>1. w < at
          <6>1. ASSUME at <= w  PROVE FALSE
            <7>1. w \div BurstWrite = bursts
              BY <1>4, <1>5, <4>2, <4>3, <6>1, QuotientOf
            <7>. QED  BY <4>5, <7>1
          <6>. QED  BY <1>4, <4>2, <6>1
        <5>2. Accumulated(cu, w)
          BY <1>1, <5>1 DEF Accumulated
        <5>3. tmpProp[part][cu][w] = UpdateWords(part, cu)[w]
          BY <2>1, <5>2 DEF ArrayInv
        <5>. QED  BY <2>4, <3>1, <4>1, <4>5, <5>3
      <4>. QED  BY <4>4, <4>5
    <3>2. CASE u # cu
      <4>1. tmpProp'[part][u] = tmpProp[part][u]
        BY <2>1, <2>2, <3>2
      <4>2. Accumulated(u, w)
        BY <1>1, <2>6, <3>2 DEF Accumulated
      <4>. QED  BY <4>1, <4>2 DEF ArrayInv
    <3>. QED  BY <3>1, <3>2
  <2>7. part' = part
    BY <1>1
  <2>8. \A u \in Cus : \A w \in WordsOf(MaxVertices) :
          Accumulated(u, w)' => tmpProp'[part'][u][w] = UpdateWords(part', u)[w]
    BY <2>6, <2>7
  <2>. QED  BY <2>5, <2>8 DEF ArrayInv
<1>. QED  BY <1>2, <1>3, <1>7, <1>8
-----------------------------------------------------------------------------
(***************************************************************************)
(* The end of a unit's kernel and the start of the apply kernel.           *)
(***************************************************************************)

LEMMA ReaderKinds ==
  /\ VertexProp \in Readers /\ OutDegree \in Readers /\ VertexProp # OutDegree
  /\ \A u \in Cus : /\ TmpProp(u) \in Readers /\ TmpProp(u)[2] = u
                    /\ TmpProp(u) # VertexProp /\ TmpProp(u) # OutDegree
  /\ \A r \in Readers : \/ r = VertexProp \/ r = OutDegree
                        \/ r[2] \in Cus /\ r = TmpProp(r[2])
  /\ \A r : DepthOf(r) \in Nat
<1>1. VertexProp # OutDegree
  BY DEF VertexProp, OutDegree
<1>2. ASSUME NEW u
      PROVE  TmpProp(u)[2] = u /\ TmpProp(u) # VertexProp /\ TmpProp(u) # OutDegree
  BY DEF VertexProp, OutDegree, TmpProp
<1>. QED  BY <1>1, <1>2 DEF Readers, DepthOf

\* All loops of the apply kernel take the words of its partition.
LEMMA ApplySizes ==
  ASSUME PhaseInv, ArgumentInv, phase = "apply"
  PROVE  /\ part \in Part /\ vertexNum = RoundedNum(part)
         /\ LoopNum \in Nat /\ LoopNum <= PartWords
         /\ ChunkNum \in 1 .. Chunks /\ LoopNum = ChunkNum * BurstBuffer
         /\ BackBursts \in Nat /\ LoopNum = BackBursts * BurstWrite
         /\ addrOffset \div PeNum = part * PartWords /\ part * PartWords \in Nat
         /\ (addrOffset \div AlignSize) * BurstBuffer = part * PartWords
<1>1. part \in Part /\ vertexNum = RoundedNum(part) /\ addrOffset = DstVertexStart(part)
  BY DEF PhaseInv, ArgumentInv
<1>2. /\ LoopNum \in Nat /\ LoopNum <= PartWords
      /\ ChunkNum \in 1 .. Chunks /\ LoopNum = ChunkNum * BurstBuffer
      /\ BackBursts \in Nat /\ LoopNum = BackBursts * BurstWrite
  BY <1>1, RoundedSizes DEF LoopNum, ChunkNum, BackBursts
<1>3. /\ addrOffset \div PeNum = part * PartWords /\ part * PartWords \in Nat
      /\ (addrOffset \div AlignSize) * BurstBuffer = part * PartWords
  BY <1>1, PartStart
<1>. QED  BY <1>1, <1>2, <1>3

LEMMA LoopSizes ==
  PhaseInv /\ ArgumentInv /\ phase = "apply" =>
    ChunkNum \in 1 .. Chunks /\ LoopNum \in Nat /\ BackBursts \in Nat
  BY ApplySizes

LEMMA LoopSizesNext ==
  (PhaseInv /\ ArgumentInv /\ phase = "apply" =>
    ChunkNum \in 1 .. Chunks /\ LoopNum \in Nat /\ BackBursts \in Nat)'
  BY LoopSizes, PTL

\* When a unit has written out, its buffer and the streams are empty and its
\* array is complete.
LEMMA UnitWritten ==
  ASSUME StageInv, phase = "writeOut", bursts = AllBursts,
         \A l \in Lanes : sent[l] \notin Addresses /\ sliced[l] \notin Addresses
  PROVE  /\ \A l \in Lanes : writeArrayLayer1[l] = <<>> /\ writeArray[l] = <<>>
         /\ writeBuffer = <<>>
         /\ tmpVPropBuffer = [u \in Cus |-> [l \in Lanes |-> [a \in Addresses |-> <<{}, {}>>]]]
         /\ \A w \in WordsOf(MaxVertices) : tmpProp[part][cu][w] = UpdateWords(part, cu)[w]
<1>. USE DEF StageInv
<1>1. ASSUME NEW l \in Lanes  PROVE sent[l] = Rows /\ sliced[l] = Rows
  <2>1. sent[l] \in 0 .. Rows /\ sliced[l] \in 0 .. Rows
    BY LaneCounts
  <2>. QED  BY <2>1, PartSizes
<1>2. 0 \in Lanes
  BY Constants DEF Lanes
<1>3. /\ Collected \in Nat /\ 2 * Collected = PartWords + Len(writeBuffer)
      /\ Len(writeBuffer) \in Nat /\ Collected <= Rows
  BY <1>1, <1>2, LaneCounts, PartSizes
<1>4. Collected = Rows /\ Len(writeBuffer) = 0
  <2>1. PICK c, n : c = Collected /\ n = Len(writeBuffer)
    OBVIOUS
  <2>2. c \in Nat /\ n \in Nat /\ 2 * c = 2 * Rows + n /\ c <= Rows /\ Rows \in Nat
    BY <1>3, <2>1, PartSizes
  <2>3. c = Rows /\ n = 0
    BY <2>2
  <2>. QED  BY <2>1, <2>3
<1>5. writeBuffer = <<>>
  <2>1. Holds(writeBuffer, UpdateWords(part, cu), bursts * BurstWrite, 2 * Collected, BurstWrite)
    BY DEF LaneInv
  <2>2. BurstWrite \in Nat /\ bursts * BurstWrite = 2 * Collected
    BY <1>4, PartSizes, Constants
  <2>. QED  BY <2>1, <2>2, HoldsFacts
<1>6. ASSUME NEW l \in Lanes  PROVE writeArrayLayer1[l] = <<>> /\ writeArray[l] = <<>>
  BY <1>1, <1>4, LaneCounts
<1>7. \A a \in Addresses, l \in Lanes : ~(a >= sent[l])
  BY <1>1, PartSizes
<1>8. tmpVPropBuffer = [u \in Cus |-> [l \in Lanes |-> [a \in Addresses |-> <<{}, {}>>]]]
  BY <1>7 DEF BufferInv
<1>9. ASSUME NEW w \in WordsOf(MaxVertices)
      PROVE  tmpProp[part][cu][w] = UpdateWords(part, cu)[w]
  <2>1. w < bursts * BurstWrite
    BY PartSizes
  <2>2. cu \in Cus /\ Accumulated(cu, w)
    BY <2>1 DEF Accumulated, PhaseInv
  <2>. QED  BY <2>2 DEF ArrayInv
<1>. QED  BY <1>5, <1>6, <1>8, <1>9

\* The apply kernel starts with all counters at zero and empty streams.
LEMMA StartFlow ==
  ASSUME PhaseInv', ArgumentInv', FlowInv, phase # "apply", phase' = "apply",
         chunk' = [r \in Readers |-> 0], merged' = [u \in Cus |-> 0],
         applied' = 0, duplicated' = 0, counter' = [u \in Cus |-> 0],
         UNCHANGED <<readBuffer, stream, tmpStream, newStream, newArray, ram>>
  PROVE  FlowInv'
<1>. USE DEF FlowInv
<1>1. /\ ChunkNum' \in 1 .. Chunks /\ LoopNum' \in Nat /\ BackBursts' \in Nat
  BY LoopSizesNext
<1>2. /\ Depth \in Nat /\ DepthNew \in Nat /\ BurstWrite \in Nat /\ BurstBuffer \in Nat
      /\ Chunks \in Nat
      /\ 0 * BurstBuffer = 0 /\ 0 * BurstWrite = 0 /\ \A r : DepthOf(r) \in Nat
  BY Constants, PartSizes DEF Depth, DepthNew, DepthOf
<1>3. ASSUME NEW F, NEW d \in Nat  PROVE Holds(<<>>, F, 0, 0, d)
  BY HoldsNothing
<1>4. ReaderInv'
  <2>1. ASSUME NEW r \in Readers
        PROVE  /\ chunk'[r] = 0 /\ stream'[r] = <<>> /\ readBuffer'[r] = <<>>
               /\ Consumed(r)' = 0
    <3>1. chunk'[r] = 0 /\ stream'[r] = <<>> /\ readBuffer'[r] = <<>>
      BY DEF ReaderInv
    <3>2. Consumed(r)' = 0
      BY ReaderKinds DEF Consumed
    <3>. QED  BY <3>1, <3>2
  <2>2. ASSUME NEW r \in Readers
        PROVE  /\ chunk'[r] <= ChunkNum'
               /\ Holds(stream'[r], ReaderWords(r)', Consumed(r)', Emitted(r)', DepthOf(r))
               /\ Holds(readBuffer'[r], ReaderWords(r)', Emitted(r)',
                        chunk'[r] * BurstBuffer, BurstBuffer)
    <3>1. Emitted(r)' = 0
      BY <2>1, SliceEmpty DEF Emitted
    <3>2. chunk'[r] <= ChunkNum'
      BY <1>1, <2>1
    <3>3. Holds(stream'[r], ReaderWords(r)', Consumed(r)', Emitted(r)', DepthOf(r))
      BY <1>2, <1>3, <2>1, <3>1
    <3>4. Holds(readBuffer'[r], ReaderWords(r)', Emitted(r)',
                chunk'[r] * BurstBuffer, BurstBuffer)
      BY <1>2, <1>3, <2>1, <3>1
    <3>. QED  BY <3>2, <3>3, <3>4
  <2>3. chunk' \in [Readers -> 0 .. Chunks] /\ DOMAIN readBuffer' = Readers /\ DOMAIN stream' = Readers
    BY <1>2 DEF ReaderInv
  <2>. QED  BY <2>2, <2>3 DEF ReaderInv
<1>5. MergeInv'
  <2>1. ASSUME NEW u \in Cus
        PROVE  /\ merged'[u] <= LoopNum'
               /\ Holds(tmpStream'[u], MergedWords(part, u)', MergedTaken(u)', merged'[u], Depth)
    <3>1. MergedTaken(u)' = 0
      <4>1. u # CuNum - 1 => u + 1 \in Cus
        BY Constants DEF Cus
      <4>. QED  BY <4>1 DEF MergedTaken
    <3>2. tmpStream'[u] = <<>> /\ merged'[u] = 0
      BY DEF MergeInv
    <3>. QED  BY <1>1, <1>2, <1>3, <3>1, <3>2
  <2>2. /\ merged' \in [Cus -> Nat] /\ applied' \in Nat /\ duplicated' \in Nat
        /\ DOMAIN tmpStream' = Cus /\ applied' <= LoopNum'
    BY <1>1 DEF MergeInv
  <2>. QED  BY <2>1, <2>2 DEF MergeInv
<1>6. NewInv'
  <2>1. newStream' = <<>>
    BY DEF NewInv
  <2>. QED  BY <1>2, <1>3, <2>1 DEF NewInv
<1>7. BackInv'
  <2>1. ASSUME NEW u \in Cus
        PROVE  /\ counter'[u] <= BackBursts'
               /\ Holds(ram'[u], NewWords(part)', counter'[u] * BurstWrite, BackTaken(u)', BurstWrite)
               /\ Holds(newArray'[u], NewWords(part)', BackTaken(u)', duplicated', Depth)
    <3>1. ram'[u] = <<>> /\ newArray'[u] = <<>> /\ counter'[u] = 0
      BY DEF BackInv
    <3>2. BackTaken(u)' = 0
      BY <1>2, <3>1, SliceEmpty DEF BackTaken
    <3>. QED  BY <1>1, <1>2, <1>3, <3>1, <3>2
  <2>2. counter' \in [Cus -> Nat] /\ DOMAIN ram' = Cus /\ DOMAIN newArray' = Cus
    BY DEF BackInv
  <2>. QED  BY <2>1, <2>2 DEF BackInv
<1>. QED  BY <1>4, <1>5, <1>6, <1>7

LEMMA EndWriteOutInv ==
  ASSUME IInv, EndWriteOut
  PROVE  IInv'
<1>. USE DEF IInv, StageInv
<1>1. /\ phase = "writeOut" /\ bursts = AllBursts
      /\ \A l \in Lanes : sent[l] \notin Addresses /\ sliced[l] \notin Addresses
      /\ UNCHANGED <<todo, part, tmpVPropBuffer, writeVars, tmpProp, newProp>>
  BY DEF EndWriteOut
<1>2. /\ \A l \in Lanes : writeArrayLayer1[l] = <<>> /\ writeArray[l] = <<>>
      /\ writeBuffer = <<>>
      /\ tmpVPropBuffer = [u \in Cus |-> [l \in Lanes |-> [a \in Addresses |-> <<{}, {}>>]]]
      /\ \A w \in WordsOf(MaxVertices) : tmpProp[part][cu][w] = UpdateWords(part, cu)[w]
  BY <1>1, UnitWritten
<1>3. phase' # "writeOut" => BufferInv' /\ LaneInv'
  <2>. SUFFICES ASSUME phase' # "writeOut"  PROVE BufferInv' /\ LaneInv'
    OBVIOUS
  <2>1. BufferInv'
    BY <1>1, <1>2 DEF BufferInv
  <2>2. LaneInv'
    BY <1>1, <1>2 DEF LaneInv, writeVars
  <2>. QED  BY <2>1, <2>2
<1>4. cu \in Cus /\ part \in Part
  BY DEF PhaseInv
<1>5. ASSUME NEW u \in Cus, u <= cu, NEW w \in WordsOf(MaxVertices)
      PROVE  tmpProp[part][u][w] = UpdateWords(part, u)[w]
  <2>1. CASE u = cu
    BY <1>2, <2>1
  <2>2. CASE u # cu
    <3>1. u < cu
      BY <1>4, <1>5, <2>2, Constants DEF Cus
    <3>2. Accumulated(u, w)
      BY <1>1, <3>1 DEF Accumulated
    <3>. QED  BY <3>2 DEF ArrayInv
  <2>. QED  BY <2>1, <2>2
<1>6. CASE cu + 1 < CuNum
  <2>1. /\ cu' = cu + 1 /\ phase' = "gather"
        /\ UNCHANGED <<vertexNum, addrOffset>> /\ UNCHANGED <<readVars, applyVars, backVars>>
    BY <1>6 DEF EndWriteOut
  <2>2. PhaseInv'
    <3>1. cu + 1 \in Cus
      BY <1>4, <1>6, Constants DEF Cus
    <3>. QED  BY <1>1, <2>1, <3>1 DEF PhaseInv
  <2>3. ArrayInv'
    <3>1. ASSUME NEW u \in Cus, NEW w \in WordsOf(MaxVertices), Accumulated(u, w)'
          PROVE  tmpProp'[part'][u][w] = UpdateWords(part', u)[w]
      <4>1. u < cu + 1
        BY <2>1, <3>1 DEF Accumulated
      <4>2. u <= cu
        BY <1>4, <4>1, Constants DEF Cus
      <4>. QED  BY <1>1, <1>5, <4>2
    <3>. QED  BY <1>1, <3>1 DEF ArrayInv
  <2>4. ArgumentInv'
    BY <2>1 DEF ArgumentInv
  <2>5. FlowInv'
    BY <1>1, <2>1, QuietFlow
  <2>6. PropInv'
    BY <1>1, <2>1, QuietProp
  <2>. QED  BY <1>3, <2>1, <2>2, <2>3, <2>4, <2>5, <2>6
<1>7. CASE ~(cu + 1 < CuNum)
  <2>1. /\ cu' = 0 /\ phase' = "apply" /\ vertexNum' = RoundedNum(part)
        /\ addrOffset' = DstVertexStart(part)
        /\ chunk' = [r \in Readers |-> 0] /\ merged' = [u \in Cus |-> 0]
        /\ applied' = 0 /\ duplicated' = 0 /\ counter' = [u \in Cus |-> 0]
        /\ UNCHANGED <<readBuffer, stream, tmpStream, newStream, newArray, ram>>
    BY <1>7 DEF EndWriteOut
  <2>2. PhaseInv'
    <3>1. 0 \in Cus
      BY Constants DEF Cus
    <3>. QED  BY <1>1, <2>1, <3>1 DEF PhaseInv
  <2>3. ArrayInv'
    <3>1. ASSUME NEW u \in Cus, NEW w \in WordsOf(MaxVertices)
          PROVE  tmpProp'[part'][u][w] = UpdateWords(part', u)[w]
      <4>1. u <= cu
        BY <1>4, <1>7, Constants DEF Cus
      <4>. QED  BY <1>1, <1>5, <4>1
    <3>. QED  BY <1>1, <3>1 DEF ArrayInv
  <2>4. ArgumentInv'
    <3>1. RoundedNum(part) \in 0 .. MaxVertices
      BY <1>4, RoundedSizes, Constants
    <3>2. DstVertexStart(part) \in Vertices
      <4>1. PICK s, m : s = DstVertexStart(part) /\ m = BlkNum * MaxVertices
        OBVIOUS
      <4>2. s \in Nat /\ s + MaxVertices <= m /\ m \in Nat
        <5>1. BlkNum \in Nat /\ MaxVertices \in Nat
          BY PartSpan, Constants
        <5>2. BlkNum * MaxVertices \in Nat
          BY <5>1, MulNext
        <5>. QED  BY <1>4, <4>1, <5>2, PartSpan
      <4>3. s \in 0 .. m - 1
        BY <4>2, Constants
      <4>. QED  BY <4>1, <4>3 DEF Vertices
    <3>3. part' = part
      BY <1>1
    <3>. QED  BY <2>1, <3>1, <3>2, <3>3 DEF ArgumentInv
  <2>5. FlowInv'
    BY <1>1, <2>1, <2>2, <2>4, StartFlow
  <2>6. PropInv'
    <3>1. ASSUME NEW p, NEW u \in Cus, NEW w \in 0 .. PartWords - 1
          PROVE  Written(p, u, w)' <=> Written(p, u, w)
      <4>1. ~(w < counter'[u] * BurstWrite)
        BY <2>1, Constants, PartSizes
      <4>. QED  BY <1>1, <2>1, <4>1 DEF Written, Done
    <3>2. DOMAIN newProp' = Cus
      BY <1>1 DEF PropInv
    <3>3. ASSUME NEW u \in Cus
          PROVE  /\ DOMAIN newProp'[u] = WordsOf(BlkNum * MaxVertices)
                 /\ \A p \in Part, w \in 0 .. PartWords - 1 :
                      newProp'[u][p * PartWords + w] =
                        IF Written(p, u, w)' THEN NewWords(p)[w] ELSE OldWord
      BY <1>1, <3>1 DEF PropInv
    <3>. QED  BY <3>2, <3>3 DEF PropInv
  <2>. QED  BY <1>3, <2>1, <2>2, <2>3, <2>4, <2>5, <2>6
<1>. QED  BY <1>6, <1>7
-----------------------------------------------------------------------------
(***************************************************************************)
(* The apply kernel's readers.                                             *)
(***************************************************************************)

\* What the invariant says of one reader.
ReaderAt(r) ==
  /\ chunk[r] <= ChunkNum
  /\ Holds(stream[r], ReaderWords(r), Consumed(r), Emitted(r), DepthOf(r))
  /\ Holds(readBuffer[r], ReaderWords(r), Emitted(r), chunk[r] * BurstBuffer, BurstBuffer)

LEMMA ReaderSame ==
  ASSUME NEW r \in Readers, ReaderAt(r), UNCHANGED stageVars,
         chunk'[r] = chunk[r], stream'[r] = stream[r], readBuffer'[r] = readBuffer[r],
         Consumed(r)' = Consumed(r)
  PROVE  ReaderAt(r)'
<1>1. ReaderWords(r)' = ReaderWords(r) /\ Emitted(r)' = Emitted(r) /\ ChunkNum' = ChunkNum
  BY DEF stageVars, ReaderWords, Emitted, ChunkNum
<1>. QED  BY <1>1 DEF ReaderAt

LEMMA ReaderInvNext ==
  ASSUME phase' = "apply", chunk' \in [Readers -> 0 .. Chunks],
         DOMAIN readBuffer' = Readers, DOMAIN stream' = Readers,
         \A r \in Readers : ReaderAt(r)'
  PROVE  ReaderInv'
  BY DEF ReaderInv, ReaderAt

\* The words of a chunk are those of the partition, in each of the layouts.
LEMMA ChunkWords ==
  ASSUME StageInv, phase = "apply", NEW r \in Readers, NEW c \in Nat, c < ChunkNum,
         NEW k \in 1 .. BurstBuffer
  PROVE  Memory(r, (FirstChunk(r) + c) * BurstBuffer + k - 1)
           = ReaderWords(r)[c * BurstBuffer + k - 1]
<1>. DEFINE a == c * BurstBuffer
            j == a + k - 1
<1>1. /\ part \in Part /\ LoopNum \in Nat /\ LoopNum <= PartWords /\ ChunkNum \in Nat
      /\ LoopNum = ChunkNum * BurstBuffer
      /\ part * PartWords \in Nat /\ (addrOffset \div AlignSize) * BurstBuffer = part * PartWords
      /\ addrOffset \in Nat
  BY ApplySizes, PartSpan DEF StageInv, ArgumentInv
<1>2. k \in Nat /\ k >= 1 /\ k <= BurstBuffer /\ BurstBuffer \in Nat
  BY Constants
<1>3. a \in Nat /\ (c + 1) * BurstBuffer = a + BurstBuffer
  BY <1>2, MulNext
<1>4. a + BurstBuffer <= LoopNum
  <2>1. c + 1 <= ChunkNum
    BY <1>1
  <2>2. (c + 1) * BurstBuffer <= ChunkNum * BurstBuffer
    BY <1>1, <1>2, <2>1, MulMono
  <2>. QED  BY <1>1, <1>3, <2>2
<1>. HIDE DEF a
<1>5. j \in Nat /\ j < PartWords /\ j \in 0 .. PartWords - 1
  <2>1. j \in Nat /\ j < LoopNum
    BY <1>1, <1>2, <1>3, <1>4
  <2>2. PartWords \in Nat
    BY PartSizes
  <2>3. ASSUME NEW x \in Nat, NEW n \in Nat, x < n, NEW m \in Nat, n <= m
        PROVE  x < m /\ x \in 0 .. m - 1
    BY <2>3
  <2>. HIDE DEF j
  <2>. QED  BY <1>1, <2>1, <2>2, <2>3
<1>6. CASE r \in {VertexProp, OutDegree}
  <2>1. FirstChunk(r) = addrOffset \div AlignSize /\ FirstChunk(r) \in Nat
    BY <1>1, <1>6, DivMod, Constants DEF FirstChunk
  <2>2. (FirstChunk(r) + c) * BurstBuffer = part * PartWords + a
    BY <1>1, <1>2, <2>1, SumOfProducts DEF a
  <2>3. PICK w : w = (FirstChunk(r) + c) * BurstBuffer + k - 1
    OBVIOUS
  <2>4. w = part * PartWords + j
    <3>1. PICK x : x = part * PartWords
      OBVIOUS
    <3>2. w = x + a + k - 1 /\ x \in Nat
      BY <1>1, <2>2, <2>3, <3>1
    <3>3. w = x + (a + k - 1)
      BY <1>2, <1>3, <3>2
    <3>. QED  BY <3>1, <3>3
  <2>5. w * PeNum = DstVertexStart(part) + j * PeNum
    BY <1>1, <1>5, <2>4, SumOfProducts, PartStart, Constants
  <2>6. Memory(r, w) = [l \in Lanes |-> w * PeNum + l]
    BY <1>6 DEF Memory
  <2>7. ReaderWords(r)[j] = [l \in Lanes |-> DstVertexStart(part) + j * PeNum + l]
    BY <1>5, <1>6 DEF ReaderWords, OwnWords, Vertex
  <2>. HIDE DEF j
  <2>8. Memory(r, w) = ReaderWords(r)[j]
    BY <2>5, <2>6, <2>7
  <2>. QED  BY <2>3, <2>8 DEF j, a
<1>7. CASE r \notin {VertexProp, OutDegree}
  <2>1. r[2] \in Cus
    BY <1>7, ReaderKinds
  <2>2. FirstChunk(r) = 0
    BY <1>7, Multiple, Constants DEF FirstChunk
  <2>3. PICK w : w = (FirstChunk(r) + c) * BurstBuffer + k - 1
    OBVIOUS
  <2>4. w = j
    BY <2>2, <2>3 DEF a
  <2>5. w \in WordsOf(MaxVertices)
    BY <1>5, <2>4, PartSizes
  <2>6. Memory(r, w) = tmpProp[part][r[2]][w]
    BY <1>7, <2>5 DEF Memory
  <2>7. tmpProp[part][r[2]][w] = UpdateWords(part, r[2])[w]
    <3>1. Accumulated(r[2], w)
      BY DEF Accumulated
    <3>. QED  BY <2>1, <2>5, <3>1 DEF StageInv, ArrayInv
  <2>8. Memory(r, w) = ReaderWords(r)[w]
    BY <1>7, <2>6, <2>7 DEF ReaderWords
  <2>. QED  BY <2>3, <2>4, <2>8 DEF a
<1>. QED  BY <1>6, <1>7

LEMMA ReadChunkInv ==
  ASSUME IInv, NEW r \in Readers, ReadChunk(r)
  PROVE  IInv'
<1>. USE DEF IInv, FlowInv
<1>1. /\ phase = "apply" /\ chunk[r] < ChunkNum /\ readBuffer[r] = <<>>
      /\ readBuffer' = [readBuffer EXCEPT ![r] = [k \in 1 .. BurstBuffer |->
           Memory(r, (FirstChunk(r) + chunk[r]) * BurstBuffer + k - 1)]]
      /\ chunk' = [chunk EXCEPT ![r] = @ + 1]
      /\ UNCHANGED stageVars /\ UNCHANGED <<stream, newProp>>
      /\ UNCHANGED applyVars /\ UNCHANGED backVars
  BY DEF ReadChunk
<1>2. /\ phase' = "apply"
      /\ UNCHANGED <<phase, todo, part, vertexNum, merged, applied, duplicated, tmpStream,
                     newStream, counter>>
  BY <1>1 DEF stageVars, applyVars, backVars
<1>3. StageInv' /\ MergeInv' /\ NewInv' /\ BackInv' /\ PropInv'
  BY <1>1, <1>2, StageFrame, MergeFrame, NewFrame, BackFrame, PropFrame
<1>4. /\ chunk \in [Readers -> 0 .. Chunks] /\ DOMAIN readBuffer = Readers
      /\ DOMAIN stream = Readers /\ \A q \in Readers : ReaderAt(q)
  BY <1>1 DEF ReaderInv, ReaderAt
<1>5. ASSUME NEW q \in Readers  PROVE Consumed(q)' = Consumed(q)
  BY <1>2 DEF Consumed
<1>6. chunk[r] \in Nat /\ ChunkNum \in 1 .. Chunks
  BY <1>1, <1>4, ApplySizes, PartSizes DEF StageInv
<1>7. ASSUME NEW q \in Readers  PROVE ReaderAt(q)'
  <2>1. CASE q = r
    <3>. DEFINE a == chunk[r] * BurstBuffer
                F == ReaderWords(r)
    <3>1. Emitted(r) = a /\ a \in Nat /\ BurstBuffer \in Nat
          /\ (chunk[r] + 1) * BurstBuffer = a + BurstBuffer
      <4>1. BurstBuffer \in Nat
        BY Constants
      <4>2. Holds(readBuffer[r], F, Emitted(r), a, BurstBuffer)
        BY <1>4 DEF ReaderAt
      <4>3. a \in Nat /\ (chunk[r] + 1) * BurstBuffer = a + BurstBuffer
        BY <1>6, <4>1, MulNext
      <4>. HIDE DEF a, F
      <4>4. Emitted(r) = a
        BY <1>1, <4>1, <4>2, HoldsFacts
      <4>. QED  BY <4>1, <4>3, <4>4
    <3>2. readBuffer'[r] = [k \in 1 .. BurstBuffer |-> F[a + k - 1]]
      <4>1. readBuffer'[r] = [k \in 1 .. BurstBuffer |->
                Memory(r, (FirstChunk(r) + chunk[r]) * BurstBuffer + k - 1)]
        BY <1>1, <1>4
      <4>2. ASSUME NEW k \in 1 .. BurstBuffer
            PROVE  Memory(r, (FirstChunk(r) + chunk[r]) * BurstBuffer + k - 1) = F[a + k - 1]
        BY <1>1, <1>6, ChunkWords
      <4>. QED  BY <4>1, <4>2
    <3>. HIDE DEF a, F
    <3>3. Holds(readBuffer'[r], F, a, a + BurstBuffer, BurstBuffer)
      BY <3>1, <3>2, HoldsFilled, Zenon
    <3>4. chunk'[r] = chunk[r] + 1 /\ chunk[r] + 1 <= ChunkNum /\ ChunkNum' = ChunkNum
      BY <1>1, <1>2, <1>4, <1>6 DEF ChunkNum
    <3>5. Emitted(r)' = Emitted(r) /\ ReaderWords(r)' = F /\ stream'[r] = stream[r]
      BY <1>1, <1>2, <1>5 DEF Emitted, ReaderWords, F
    <3>6. Holds(stream'[r], F, Consumed(r)', Emitted(r)', DepthOf(r))
      BY <1>4, <1>5, <3>5 DEF ReaderAt, F
    <3>7. Holds(readBuffer'[r], F, Emitted(r)', chunk'[r] * BurstBuffer, BurstBuffer)
      BY <3>1, <3>3, <3>4, <3>5, Zenon
    <3>8. chunk'[r] <= ChunkNum'
      BY <3>4
    <3>. QED  BY <2>1, <3>5, <3>6, <3>7, <3>8 DEF ReaderAt
  <2>2. CASE q # r
    <3>1. chunk'[q] = chunk[q] /\ stream'[q] = stream[q] /\ readBuffer'[q] = readBuffer[q]
      BY <1>1, <1>4, <2>2
    <3>. QED  BY <1>1, <1>4, <1>5, <3>1, ReaderSame
  <2>. QED  BY <2>1, <2>2
<1>8. ReaderInv'
  <2>1. chunk[r] + 1 \in 0 .. Chunks
    <3>1. ASSUME NEW x \in Nat, NEW n \in 1 .. Chunks, x < n  PROVE x + 1 \in 0 .. Chunks
      BY <3>1, PartSizes
    <3>. QED  BY <1>1, <1>6, <3>1
  <2>2. chunk' \in [Readers -> 0 .. Chunks]
    BY <1>1, <1>4, <2>1
  <2>3. DOMAIN readBuffer' = Readers /\ DOMAIN stream' = Readers
    BY <1>1, <1>4
  <2>. QED  BY <1>2, <1>7, <2>2, <2>3, ReaderInvNext
<1>. QED  BY <1>3, <1>8

LEMMA EmitWordInv ==
  ASSUME IInv, NEW r \in Readers, EmitWord(r)
  PROVE  IInv'
<1>. USE DEF IInv, FlowInv
<1>1. /\ phase = "apply" /\ readBuffer[r] # <<>> /\ Len(stream[r]) < DepthOf(r)
      /\ stream' = [stream EXCEPT ![r] = Append(@, Head(readBuffer[r]))]
      /\ readBuffer' = [readBuffer EXCEPT ![r] = Tail(@)]
      /\ UNCHANGED stageVars /\ UNCHANGED <<chunk, newProp>>
      /\ UNCHANGED applyVars /\ UNCHANGED backVars
  BY DEF EmitWord, HasRoom
<1>2. /\ phase' = "apply"
      /\ UNCHANGED <<phase, todo, part, vertexNum, merged, applied, duplicated, tmpStream,
                     newStream, counter>>
  BY <1>1 DEF stageVars, applyVars, backVars
<1>3. StageInv' /\ MergeInv' /\ NewInv' /\ BackInv' /\ PropInv'
  BY <1>1, <1>2, StageFrame, MergeFrame, NewFrame, BackFrame, PropFrame
<1>4. /\ chunk \in [Readers -> 0 .. Chunks] /\ DOMAIN readBuffer = Readers
      /\ DOMAIN stream = Readers /\ \A q \in Readers : ReaderAt(q)
  BY <1>1 DEF ReaderInv, ReaderAt
<1>5. ASSUME NEW q \in Readers  PROVE Consumed(q)' = Consumed(q)
  BY <1>2 DEF Consumed
<1>6. ASSUME NEW q \in Readers  PROVE ReaderAt(q)'
  <2>1. CASE q = r
    <3>. DEFINE F == ReaderWords(r)
                e == Emitted(r)
                n == chunk[r] * BurstBuffer
    <3>1. /\ Holds(stream[r], F, Consumed(r), e, DepthOf(r))
          /\ Holds(readBuffer[r], F, e, n, BurstBuffer)
          /\ BurstBuffer \in Nat /\ DepthOf(r) \in Nat
      BY <1>4, Constants, ReaderKinds DEF ReaderAt
    <3>2. /\ stream'[r] = Append(stream[r], Head(readBuffer[r]))
          /\ readBuffer'[r] = Tail(readBuffer[r])
      BY <1>1, <1>4
    <3>3. e \in Nat
      BY <3>1, HoldsFacts
    <3>. HIDE DEF F, e, n
    <3>4. Holds(readBuffer'[r], F, e + 1, n, BurstBuffer) /\ Head(readBuffer[r]) = F[e]
      BY <1>1, <3>1, <3>2, HoldsTake
    <3>5. Holds(stream'[r], F, Consumed(r), e + 1, DepthOf(r))
      BY <1>1, <3>1, <3>2, <3>4, HoldsPut
    <3>6. Emitted(r)' = e + 1
      <4>1. e + 1 = Consumed(r) + Len(stream'[r])
        BY <3>1, <3>5, HoldsFacts
      <4>. QED  BY <1>5, <4>1 DEF Emitted
    <3>7. /\ ReaderWords(r)' = F /\ chunk'[r] * BurstBuffer = n
          /\ chunk'[r] <= ChunkNum'
      BY <1>1, <1>2, <1>4 DEF ReaderWords, F, n, ReaderAt, ChunkNum
    <3>. QED  BY <1>5, <2>1, <3>4, <3>5, <3>6, <3>7 DEF ReaderAt
  <2>2. CASE q # r
    <3>1. chunk'[q] = chunk[q] /\ stream'[q] = stream[q] /\ readBuffer'[q] = readBuffer[q]
      BY <1>1, <1>4, <2>2
    <3>. QED  BY <1>1, <1>4, <1>5, <3>1, ReaderSame
  <2>. QED  BY <2>1, <2>2
<1>7. ReaderInv'
  <2>1. chunk' \in [Readers -> 0 .. Chunks] /\ DOMAIN readBuffer' = Readers /\ DOMAIN stream' = Readers
    BY <1>1, <1>4
  <2>. QED  BY <1>2, <1>6, <2>1, ReaderInvNext
<1>. QED  BY <1>3, <1>7

\* A reader whose stream has lost its first word to the next process.
LEMMA ReaderTaken ==
  ASSUME NEW r \in Readers, ReaderAt(r), UNCHANGED stageVars, stream[r] # <<>>,
         chunk'[r] = chunk[r], stream'[r] = Tail(stream[r]), readBuffer'[r] = readBuffer[r],
         Consumed(r)' = Consumed(r) + 1
  PROVE  ReaderAt(r)' /\ Head(stream[r]) = ReaderWords(r)[Consumed(r)]
<1>. DEFINE F == ReaderWords(r)
            e == Emitted(r)
            c == Consumed(r)
<1>1. Holds(stream[r], F, c, e, DepthOf(r)) /\ DepthOf(r) \in Nat
  BY ReaderKinds DEF ReaderAt
<1>2. Holds(stream'[r], F, c + 1, e, DepthOf(r)) /\ Head(stream[r]) = F[c]
  <2>. HIDE DEF F, e, c
  <2>. QED  BY <1>1, HoldsTake
<1>3. F = ReaderWords(r)' /\ ChunkNum' = ChunkNum
  BY DEF stageVars, ReaderWords, ChunkNum
<1>4. Emitted(r)' = e
  <2>1. e = (c + 1) + Len(stream'[r])
    <3>. HIDE DEF F, e, c
    <3>. QED  BY <1>1, <1>2, HoldsFacts
  <2>. QED  BY <2>1 DEF Emitted
<1>5. ReaderAt(r)'
  BY <1>2, <1>3, <1>4 DEF ReaderAt
<1>. QED  BY <1>2, <1>5
-----------------------------------------------------------------------------
(***************************************************************************)
(* cuMerge and applyFunction.                                              *)
(***************************************************************************)

\* A unit's word folded into what was merged of the units before.
LEMMA MergeWord ==
  ASSUME NEW p, NEW u \in Cus, NEW w \in Nat, NEW b, NEW x, x = UpdateWords(p, u)[w],
         u = 0 => b = NoWord, u > 0 => b = MergedWords(p, u - 1)[w]
  PROVE  [l \in Lanes |-> b[l] \cup x[l]] = MergedWords(p, u)[w]
<1>1. u \in Nat
  BY Constants DEF Cus
<1>2. ASSUME NEW l \in Lanes
      PROVE  b[l] \cup x[l] = MergedWords(p, u)[w][l]
  <2>. DEFINE v == Vertex(p, w, l)
              live == v <= DstVertexEnd(p)
  <2>1. x[l] = IF live THEN {<<u, v>>} ELSE {}
    BY DEF UpdateWords
  <2>2. MergedWords(p, u)[w][l] = IF live THEN {<<c, v>> : c \in 0 .. u} ELSE {}
    BY DEF MergedWords
  <2>3. CASE u = 0
    <3>1. b[l] = {}
      BY <2>3 DEF NoWord, Unset
    <3>2. 0 .. u = {u}
      BY <2>3
    <3>. HIDE DEF v, live
    <3>. QED  BY <2>1, <2>2, <3>1, <3>2
  <2>4. CASE u > 0
    <3>1. b[l] = IF live THEN {<<c, v>> : c \in 0 .. u - 1} ELSE {}
      BY <2>4 DEF MergedWords
    <3>2. 0 .. u = (0 .. u - 1) \cup {u}
      BY <1>1, <2>4
    <3>. HIDE DEF v, live
    <3>. QED  BY <2>1, <2>2, <3>1, <3>2
  <2>. QED  BY <1>1, <2>3, <2>4
<1>3. MergedWords(p, u)[w] = [l \in Lanes |-> MergedWords(p, u)[w][l]]
  BY DEF MergedWords
<1>. QED  BY <1>2, <1>3

LEMMA MergeUnitInv ==
  ASSUME IInv, NEW u \in Cus, Merge(u)
  PROVE  IInv'
<1>. USE DEF IInv, FlowInv
<1>. DEFINE before == IF u = 0 THEN NoWord ELSE Head(tmpStream[u - 1])
            word   == Head(stream[TmpProp(u)])
            new    == [l \in Lanes |-> before[l] \cup word[l]]
            m      == merged[u]
<1>1. /\ phase = "apply" /\ merged[u] < LoopNum /\ stream[TmpProp(u)] # <<>>
      /\ u > 0 => tmpStream[u - 1] # <<>>
      /\ Len(tmpStream[u]) < Depth
      /\ tmpStream' = [v \in Cus |->
           IF v = u THEN Append(tmpStream[u], new)
           ELSE IF v = u - 1 THEN Tail(tmpStream[v]) ELSE tmpStream[v]]
      /\ stream' = [stream EXCEPT ![TmpProp(u)] = Tail(@)]
      /\ merged' = [merged EXCEPT ![u] = @ + 1]
      /\ UNCHANGED stageVars /\ UNCHANGED <<chunk, readBuffer, applied, infoArray, newStream>>
      /\ UNCHANGED backVars /\ UNCHANGED newProp
  BY DEF Merge, HasRoom
<1>2. /\ phase' = "apply"
      /\ UNCHANGED <<phase, todo, part, vertexNum, applied, duplicated, newStream, counter>>
  BY <1>1 DEF stageVars, backVars
<1>3. StageInv' /\ NewInv' /\ BackInv' /\ PropInv'
  BY <1>1, <1>2, StageFrame, NewFrame, BackFrame, PropFrame
<1>4. /\ chunk \in [Readers -> 0 .. Chunks] /\ DOMAIN readBuffer = Readers
      /\ DOMAIN stream = Readers /\ \A q \in Readers : ReaderAt(q)
  BY <1>1 DEF ReaderInv, ReaderAt
<1>5. /\ merged \in [Cus -> Nat] /\ DOMAIN tmpStream = Cus
      /\ \A v \in Cus :
           /\ merged[v] <= LoopNum
           /\ Holds(tmpStream[v], MergedWords(part, v), MergedTaken(v), merged[v], Depth)
  BY <1>1 DEF MergeInv
<1>6. u \in Nat /\ m \in Nat /\ merged'[u] = m + 1 /\ \A v \in Cus : v # u => merged'[v] = merged[v]
  BY <1>1, <1>5, Constants DEF Cus
<1>7. LoopNum \in Nat /\ LoopNum' = LoopNum
  BY <1>1, <1>2, ApplySizes DEF StageInv, LoopNum
<1>8. TmpProp(u) \in Readers /\ Consumed(TmpProp(u)) = m /\ Consumed(TmpProp(u))' = m + 1
      /\ ReaderWords(TmpProp(u)) = UpdateWords(part, u)
  BY <1>6, ReaderKinds DEF Consumed, ReaderWords
<1>9. ReaderAt(TmpProp(u))' /\ word = UpdateWords(part, u)[m]
  <2>1. /\ chunk'[TmpProp(u)] = chunk[TmpProp(u)] /\ stream'[TmpProp(u)] = Tail(stream[TmpProp(u)])
        /\ readBuffer'[TmpProp(u)] = readBuffer[TmpProp(u)]
    BY <1>1, <1>4, <1>8
  <2>. HIDE DEF m
  <2>2. ReaderAt(TmpProp(u)) /\ Consumed(TmpProp(u))' = Consumed(TmpProp(u)) + 1
    BY <1>4, <1>8
  <2>. QED  BY <1>1, <1>8, <2>1, <2>2, ReaderTaken
<1>10. ReaderInv'
  <2>1. ASSUME NEW q \in Readers, q # TmpProp(u)  PROVE ReaderAt(q)'
    <3>1. chunk'[q] = chunk[q] /\ stream'[q] = stream[q] /\ readBuffer'[q] = readBuffer[q]
      BY <1>1, <1>4, <2>1
    <3>2. Consumed(q)' = Consumed(q)
      BY <1>2, <1>6, <2>1, ReaderKinds DEF Consumed
    <3>. QED  BY <1>1, <1>4, <3>1, <3>2, ReaderSame
  <2>2. chunk' \in [Readers -> 0 .. Chunks] /\ DOMAIN readBuffer' = Readers /\ DOMAIN stream' = Readers
    BY <1>1, <1>4
  <2>. QED  BY <1>2, <1>9, <2>1, <2>2, ReaderInvNext
<1>11. u > 0 => /\ u - 1 \in Cus /\ MergedTaken(u - 1) = m /\ MergedTaken(u - 1)' = m + 1
  <2>. SUFFICES ASSUME u > 0
                PROVE  u - 1 \in Cus /\ MergedTaken(u - 1) = m /\ MergedTaken(u - 1)' = m + 1
    OBVIOUS
  <2>1. u - 1 \in Cus /\ u - 1 # CuNum - 1 /\ (u - 1) + 1 = u
    BY <1>6, Constants DEF Cus
  <2>. QED  BY <1>6, <2>1 DEF MergedTaken
<1>12. ASSUME NEW v \in Cus, v # u - 1  PROVE MergedTaken(v)' = MergedTaken(v)
  <2>1. CASE v = CuNum - 1
    BY <1>2, <2>1 DEF MergedTaken
  <2>2. CASE v # CuNum - 1
    <3>1. v + 1 \in Cus /\ v + 1 # u
      BY <1>6, <1>12, <2>2, Constants DEF Cus
    <3>. QED  BY <1>6, <2>2, <3>1 DEF MergedTaken
  <2>. QED  BY <2>1, <2>2
<1>13. Depth \in Nat
  BY DEF Depth
<1>14. u > 0 => before = MergedWords(part, u - 1)[m]
  <2>. SUFFICES ASSUME u > 0  PROVE Head(tmpStream[u - 1]) = MergedWords(part, u - 1)[m]
    OBVIOUS
  <2>1. Holds(tmpStream[u - 1], MergedWords(part, u - 1), m, merged[u - 1], Depth)
    BY <1>5, <1>11
  <2>2. tmpStream[u - 1] # <<>>
    BY <1>1
  <2>. HIDE DEF m
  <2>3. PICK s, t, F : /\ s = tmpStream[u - 1] /\ t = Tail(s)
                       /\ F = MergedWords(part, u - 1)
    OBVIOUS
  <2>4. Holds(s, F, m, merged[u - 1], Depth) /\ s # <<>>
    BY <2>1, <2>2, <2>3
  <2>5. Head(s) = F[m]
    BY <1>13, <2>3, <2>4, HoldsTake
  <2>. QED  BY <2>3, <2>5
<1>15. new = MergedWords(part, u)[m]
  <2>1. u = 0 => before = NoWord
    OBVIOUS
  <2>. HIDE DEF before, word, m
  <2>. QED  BY <1>6, <1>9, <1>14, <2>1, MergeWord
<1>16. ASSUME NEW v \in Cus
       PROVE  /\ merged'[v] <= LoopNum
              /\ Holds(tmpStream'[v], MergedWords(part, v), MergedTaken(v)', merged'[v], Depth)
  <2>1. CASE v = u
    <3>1. tmpStream'[u] = Append(tmpStream[u], new)
      BY <1>1
    <3>2. Holds(tmpStream[u], MergedWords(part, u), MergedTaken(u), m, Depth)
      BY <1>5
    <3>3. u # u - 1 /\ m + 1 <= LoopNum
      BY <1>1, <1>6, <1>7
    <3>. HIDE DEF new, m
    <3>4. Holds(tmpStream'[u], MergedWords(part, u), MergedTaken(u), m + 1, Depth)
      BY <1>1, <1>13, <1>15, <3>1, <3>2, HoldsPut
    <3>5. MergedTaken(u)' = MergedTaken(u)
      BY <1>12, <3>3
    <3>. QED  BY <1>6, <2>1, <3>3, <3>4, <3>5
  <2>2. CASE v = u - 1
    <3>1. u > 0 /\ v # u
      BY <1>6, <2>2, Constants DEF Cus
    <3>2. tmpStream'[v] = Tail(tmpStream[v]) /\ tmpStream[v] # <<>>
      BY <1>1, <2>2, <3>1
    <3>3. Holds(tmpStream[v], MergedWords(part, v), m, merged[v], Depth)
      BY <1>5, <1>11, <2>2, <3>1
    <3>. HIDE DEF m
    <3>4. Holds(tmpStream'[v], MergedWords(part, v), m + 1, merged[v], Depth)
      BY <1>13, <3>2, <3>3, HoldsTake
    <3>5. merged'[v] = merged[v] /\ MergedTaken(v)' = m + 1
      BY <1>6, <1>11, <2>2, <3>1
    <3>. QED  BY <1>5, <3>4, <3>5
  <2>3. CASE v # u /\ v # u - 1
    <3>1. tmpStream'[v] = tmpStream[v] /\ merged'[v] = merged[v] /\ MergedTaken(v)' = MergedTaken(v)
      BY <1>1, <1>6, <1>12, <2>3
    <3>. QED  BY <1>5, <3>1
  <2>. QED  BY <2>1, <2>2, <2>3
<1>17. MergeInv'
  <2>1. merged' \in [Cus -> Nat] /\ DOMAIN tmpStream' = Cus
    <3>1. merged[u] + 1 \in Nat
      BY <1>6
    <3>. QED  BY <1>1, <1>5, <3>1
  <2>2. applied' \in Nat /\ duplicated' \in Nat /\ applied' <= LoopNum'
    BY <1>1, <1>2, <1>7 DEF MergeInv
  <2>. QED  BY <1>2, <1>7, <1>16, <2>1, <2>2 DEF MergeInv
<1>. QED  BY <1>3, <1>10, <1>17

LEMMA ApplyWordInv ==
  ASSUME IInv, ApplyWord
  PROVE  IInv'
<1>. USE DEF IInv, FlowInv
<1>. DEFINE last  == CuNum - 1
            own   == Head(stream[VertexProp])
            deg   == Head(stream[OutDegree])
            accum == Head(tmpStream[last])
            new   == [l \in Lanes |-> NewValue(own[l], deg[l], accum[l])]
<1>1. /\ phase = "apply" /\ applied < LoopNum
      /\ stream[VertexProp] # <<>> /\ stream[OutDegree] # <<>>
      /\ tmpStream[last] # <<>> /\ Len(newStream) < DepthNew
      /\ newStream' = Append(newStream, new)
      /\ stream' = [stream EXCEPT ![VertexProp] = Tail(@), ![OutDegree] = Tail(@)]
      /\ tmpStream' = [tmpStream EXCEPT ![last] = Tail(@)]
      /\ applied' = applied + 1
      /\ UNCHANGED stageVars /\ UNCHANGED <<chunk, readBuffer, merged>>
      /\ UNCHANGED backVars /\ UNCHANGED newProp
  BY DEF ApplyWord, HasRoom
<1>2. /\ phase' = "apply"
      /\ UNCHANGED <<phase, todo, part, vertexNum, merged, duplicated, counter>>
  BY <1>1 DEF stageVars, backVars
<1>3. StageInv' /\ BackInv' /\ PropInv'
  BY <1>1, <1>2, StageFrame, BackFrame, PropFrame
<1>4. /\ chunk \in [Readers -> 0 .. Chunks] /\ DOMAIN readBuffer = Readers
      /\ DOMAIN stream = Readers /\ \A q \in Readers : ReaderAt(q)
  BY <1>1 DEF ReaderInv, ReaderAt
<1>5. /\ merged \in [Cus -> Nat] /\ DOMAIN tmpStream = Cus /\ applied \in Nat
      /\ \A v \in Cus :
           /\ merged[v] <= LoopNum
           /\ Holds(tmpStream[v], MergedWords(part, v), MergedTaken(v), merged[v], Depth)
  BY <1>1 DEF MergeInv
<1>6. last \in Cus /\ MergedTaken(last) = applied /\ MergedTaken(last)' = applied + 1
  BY <1>1, Constants DEF Cus, MergedTaken
<1>7. LoopNum \in Nat /\ LoopNum' = LoopNum
  BY <1>1, <1>2, ApplySizes DEF StageInv, LoopNum
<1>8. Depth \in Nat /\ DepthNew \in Nat
  BY DEF Depth, DepthNew
<1>9. ASSUME NEW r \in {VertexProp, OutDegree}
      PROVE  ReaderAt(r)' /\ Head(stream[r]) = OwnWords(part)[applied]
  <2>1. r \in Readers /\ ReaderAt(r) /\ stream[r] # <<>>
    BY <1>1, <1>4, ReaderKinds
  <2>2. Consumed(r) = applied /\ Consumed(r)' = Consumed(r) + 1
        /\ ReaderWords(r) = OwnWords(part)
    BY <1>1 DEF Consumed, ReaderWords
  <2>3. chunk'[r] = chunk[r] /\ stream'[r] = Tail(stream[r]) /\ readBuffer'[r] = readBuffer[r]
    BY <1>1, <1>4, <2>1, ReaderKinds
  <2>. QED  BY <1>1, <2>1, <2>2, <2>3, ReaderTaken
<1>10. ReaderInv'
  <2>1. ASSUME NEW q \in Readers, q \notin {VertexProp, OutDegree}  PROVE ReaderAt(q)'
    <3>1. chunk'[q] = chunk[q] /\ stream'[q] = stream[q] /\ readBuffer'[q] = readBuffer[q]
      BY <1>1, <1>4, <2>1
    <3>2. Consumed(q)' = Consumed(q)
      BY <1>2, <2>1 DEF Consumed
    <3>. QED  BY <1>1, <1>4, <3>1, <3>2, ReaderSame
  <2>2. chunk' \in [Readers -> 0 .. Chunks] /\ DOMAIN readBuffer' = Readers /\ DOMAIN stream' = Readers
    BY <1>1, <1>4
  <2>. QED  BY <1>2, <1>9, <2>1, <2>2, ReaderInvNext
<1>11. accum = MergedWords(part, last)[applied]
       /\ Holds(tmpStream'[last], MergedWords(part, last), applied + 1, merged[last], Depth)
  <2>1. Holds(tmpStream[last], MergedWords(part, last), applied, merged[last], Depth)
    BY <1>5, <1>6
  <2>2. tmpStream'[last] = Tail(tmpStream[last])
    BY <1>1, <1>5, <1>6
  <2>. HIDE DEF last
  <2>. QED  BY <1>1, <1>8, <2>1, <2>2, HoldsTake
<1>12. new = NewWords(part)[applied]
  <2>1. own = OwnWords(part)[applied] /\ deg = OwnWords(part)[applied]
    BY <1>9
  <2>2. ASSUME NEW l \in Lanes  PROVE own[l] = Vertex(part, applied, l) /\ deg[l] = own[l]
    BY <1>5, <2>1 DEF OwnWords
  <2>3. NewWords(part)[applied] = [l \in Lanes |->
          NewValue(Vertex(part, applied, l), Vertex(part, applied, l),
                   MergedWords(part, CuNum - 1)[applied][l])]
    BY <1>5 DEF NewWords
  <2>. HIDE DEF own, deg, accum
  <2>. QED  BY <1>11, <2>2, <2>3
<1>13. NewInv'
  <2>1. Holds(newStream, NewWords(part), duplicated, applied, DepthNew)
    BY <1>1 DEF NewInv
  <2>. HIDE DEF new
  <2>2. Holds(newStream', NewWords(part), duplicated, applied + 1, DepthNew)
    BY <1>1, <1>8, <1>12, <2>1, HoldsPut
  <2>. QED  BY <1>1, <1>2, <2>2 DEF NewInv
<1>14. MergeInv'
  <2>1. ASSUME NEW v \in Cus
        PROVE  /\ merged'[v] <= LoopNum
               /\ Holds(tmpStream'[v], MergedWords(part, v), MergedTaken(v)', merged'[v], Depth)
    <3>1. CASE v = last
      BY <1>1, <1>5, <1>6, <1>11, <3>1
    <3>2. CASE v # last
      <4>1. tmpStream'[v] = tmpStream[v] /\ MergedTaken(v)' = MergedTaken(v) /\ merged'[v] = merged[v]
        BY <1>1, <1>2, <1>5, <3>2 DEF MergedTaken
      <4>. QED  BY <1>5, <4>1
    <3>. QED  BY <3>1, <3>2
  <2>2. /\ merged' \in [Cus -> Nat] /\ DOMAIN tmpStream' = Cus
        /\ applied' \in Nat /\ duplicated' \in Nat /\ applied' <= LoopNum'
    <3>1. applied + 1 \in Nat /\ applied + 1 <= LoopNum
      BY <1>1, <1>5, <1>7
    <3>. QED  BY <1>1, <1>2, <1>5, <1>7, <3>1 DEF MergeInv
  <2>. QED  BY <1>2, <1>7, <2>1, <2>2 DEF MergeInv
<1>. QED  BY <1>3, <1>10, <1>13, <1>14
-----------------------------------------------------------------------------
(***************************************************************************)
(* cuDuplicate and writeBackLite.                                          *)
(***************************************************************************)

LEMMA DuplicateInv ==
  ASSUME IInv, Duplicate
  PROVE  IInv'
<1>. USE DEF IInv, FlowInv
<1>1. /\ phase = "apply" /\ duplicated < LoopNum /\ newStream # <<>>
      /\ \A u \in Cus : Len(newArray[u]) < Depth
      /\ newArray' = [u \in Cus |-> Append(newArray[u], Head(newStream))]
      /\ newStream' = Tail(newStream)
      /\ duplicated' = duplicated + 1
      /\ UNCHANGED stageVars /\ UNCHANGED readVars
      /\ UNCHANGED <<merged, tmpStream, applied, ram, counter, newProp>>
  BY DEF Duplicate, HasRoom
<1>2. /\ phase' = "apply" /\ UNCHANGED <<phase, todo, part, vertexNum>>
  BY <1>1 DEF stageVars
<1>3. StageInv' /\ ReaderInv' /\ PropInv'
  BY <1>1, <1>2, StageFrame, ReaderFrame, PropFrame
<1>4. Depth \in Nat /\ DepthNew \in Nat /\ duplicated \in Nat
  BY DEF Depth, DepthNew, MergeInv
<1>5. MergeInv'
  <2>1. duplicated' \in Nat
    BY <1>1, <1>4
  <2>2. \A u : MergedTaken(u)' = MergedTaken(u)
    BY <1>1 DEF MergedTaken
  <2>3. LoopNum' = LoopNum
    BY <1>2 DEF LoopNum
  <2>. QED  BY <1>1, <1>2, <2>1, <2>2, <2>3 DEF MergeInv
<1>6. /\ Holds(newStream', NewWords(part), duplicated + 1, applied, DepthNew)
      /\ Head(newStream) = NewWords(part)[duplicated]
  <2>1. Holds(newStream, NewWords(part), duplicated, applied, DepthNew)
    BY <1>1 DEF NewInv
  <2>. QED  BY <1>1, <1>4, <2>1, HoldsTake
<1>7. NewInv'
  BY <1>1, <1>2, <1>6 DEF NewInv
<1>8. BackInv'
  <2>1. ASSUME NEW u \in Cus
        PROVE  Holds(newArray'[u], NewWords(part), BackTaken(u), duplicated + 1, Depth)
    <3>1. Holds(newArray[u], NewWords(part), BackTaken(u), duplicated, Depth)
      BY <1>1 DEF BackInv
    <3>2. newArray'[u] = Append(newArray[u], Head(newStream))
      BY <1>1
    <3>. QED  BY <1>1, <1>4, <1>6, <3>1, <3>2, HoldsPut
  <2>2. \A u : BackTaken(u)' = BackTaken(u)
    BY <1>1 DEF BackTaken
  <2>3. BackBursts' = BackBursts
    BY <1>2 DEF BackBursts
  <2>4. DOMAIN newArray' = Cus
    BY <1>1
  <2>. QED  BY <1>1, <1>2, <2>1, <2>2, <2>3, <2>4 DEF BackInv
<1>. QED  BY <1>3, <1>5, <1>7, <1>8

LEMMA FillBackInv ==
  ASSUME IInv, NEW u \in Cus, FillBack(u)
  PROVE  IInv'
<1>. USE DEF IInv, FlowInv
<1>1. /\ phase = "apply" /\ counter[u] < BackBursts /\ Len(ram[u]) < BurstWrite
      /\ newArray[u] # <<>>
      /\ ram' = [ram EXCEPT ![u] = Append(@, Head(newArray[u]))]
      /\ newArray' = [newArray EXCEPT ![u] = Tail(@)]
      /\ UNCHANGED stageVars /\ UNCHANGED readVars /\ UNCHANGED applyVars
      /\ UNCHANGED <<duplicated, counter, newProp>>
  BY DEF FillBack
<1>2. /\ phase' = "apply"
      /\ UNCHANGED <<phase, todo, part, vertexNum, merged, applied, tmpStream, newStream>>
  BY <1>1 DEF stageVars, applyVars
<1>3. StageInv' /\ ReaderInv' /\ MergeInv' /\ NewInv' /\ PropInv'
  BY <1>1, <1>2, StageFrame, ReaderFrame, MergeFrame, NewFrame, PropFrame
<1>4. Depth \in Nat /\ BurstWrite \in Nat
  BY Constants DEF Depth
<1>5. /\ counter \in [Cus -> Nat] /\ DOMAIN ram = Cus /\ DOMAIN newArray = Cus
      /\ \A v \in Cus :
           /\ counter[v] <= BackBursts
           /\ Holds(ram[v], NewWords(part), counter[v] * BurstWrite, BackTaken(v), BurstWrite)
           /\ Holds(newArray[v], NewWords(part), BackTaken(v), duplicated, Depth)
  BY <1>1 DEF BackInv
<1>6. BackBursts' = BackBursts
  BY <1>2 DEF BackBursts
<1>7. ASSUME NEW v \in Cus
      PROVE  /\ Holds(ram'[v], NewWords(part), counter[v] * BurstWrite, BackTaken(v)', BurstWrite)
             /\ Holds(newArray'[v], NewWords(part), BackTaken(v)', duplicated, Depth)
  <2>1. CASE v = u
    <3>. DEFINE F == NewWords(part)
                b == BackTaken(u)
                a == counter[u] * BurstWrite
    <3>1. Holds(ram[u], F, a, b, BurstWrite) /\ Holds(newArray[u], F, b, duplicated, Depth)
      BY <1>5
    <3>2. ram'[u] = Append(ram[u], Head(newArray[u])) /\ newArray'[u] = Tail(newArray[u])
      BY <1>1, <1>5
    <3>3. BackTaken(u)' = a + Len(ram'[u])
      BY <1>1 DEF BackTaken
    <3>. HIDE DEF F, a, b
    <3>4. b \in Nat
      BY <1>4, <3>1, HoldsFacts
    <3>5. Holds(newArray'[u], F, b + 1, duplicated, Depth) /\ Head(newArray[u]) = F[b]
      BY <1>1, <1>4, <3>1, <3>2, HoldsTake
    <3>6. Holds(ram'[u], F, a, b + 1, BurstWrite)
      BY <1>1, <1>4, <3>1, <3>2, <3>5, HoldsPut
    <3>7. BackTaken(u)' = b + 1
      BY <1>4, <3>3, <3>6, HoldsFacts
    <3>. QED  BY <2>1, <3>5, <3>6, <3>7 DEF F, a
  <2>2. CASE v # u
    <3>1. ram'[v] = ram[v] /\ newArray'[v] = newArray[v]
      BY <1>1, <1>5, <2>2
    <3>2. BackTaken(v)' = BackTaken(v)
      BY <1>1, <3>1 DEF BackTaken
    <3>. QED  BY <1>5, <3>1, <3>2
  <2>. QED  BY <2>1, <2>2
<1>8. BackInv'
  <2>1. DOMAIN ram' = Cus /\ DOMAIN newArray' = Cus
    BY <1>1, <1>5
  <2>. QED  BY <1>1, <1>2, <1>5, <1>6, <1>7, <2>1 DEF BackInv
<1>. QED  BY <1>3, <1>8

\* The burst a writer is about to write: it lies in the partition, and no word
\* of it has been written.
LEMMA NextBurst ==
  ASSUME IInv, NEW u \in Cus, phase = "apply", Len(ram[u]) = BurstWrite
  PROVE  /\ counter[u] \in Nat /\ counter[u] * BurstWrite \in Nat
         /\ (counter[u] + 1) * BurstWrite = counter[u] * BurstWrite + BurstWrite
         /\ counter[u] + 1 <= BackBursts
         /\ counter[u] * BurstWrite + BurstWrite <= PartWords
         /\ BackTaken(u) = counter[u] * BurstWrite + BurstWrite
         /\ part \in Part /\ part * PartWords \in Nat
         /\ BackAt(u) = part * PartWords + counter[u] * BurstWrite
<1>. USE DEF IInv, FlowInv
<1>. DEFINE n == counter[u]
            a == n * BurstWrite
<1>1. n \in Nat /\ Holds(newArray[u], NewWords(part), BackTaken(u), duplicated, Depth)
  BY DEF BackInv
<1>2. BurstWrite \in Nat \ {0} /\ Depth \in Nat /\ DepthNew \in Nat
  BY Constants DEF Depth, DepthNew
<1>3. a \in Nat /\ (n + 1) * BurstWrite = a + BurstWrite
  BY <1>1, <1>2, MulNext
<1>4. BackTaken(u) = a + BurstWrite
  BY DEF BackTaken
<1>5. BackTaken(u) <= duplicated
  BY <1>1, <1>2, HoldsFacts
<1>6. duplicated \in Nat /\ duplicated <= applied /\ applied \in Nat /\ applied <= LoopNum
  <2>1. Holds(newStream, NewWords(part), duplicated, applied, DepthNew)
    BY DEF NewInv
  <2>2. applied <= LoopNum
    BY DEF MergeInv
  <2>. QED  BY <1>2, <2>1, <2>2, HoldsFacts
<1>7. /\ LoopNum \in Nat /\ LoopNum <= PartWords /\ BackBursts \in Nat
      /\ LoopNum = BackBursts * BurstWrite
      /\ part \in Part /\ addrOffset \div PeNum = part * PartWords /\ part * PartWords \in Nat
  BY ApplySizes DEF StageInv
<1>8. PartWords \in Nat
  BY PartSizes
<1>. HIDE DEF a
<1>9. a + BurstWrite <= LoopNum
  <2>1. ASSUME NEW i \in Nat, NEW j \in Nat, NEW k \in Nat, NEW l \in Nat, i <= j, j <= k, k <= l
        PROVE  i <= l
    BY <2>1
  <2>2. a + BurstWrite \in Nat
    BY <1>2, <1>3
  <2>. QED  BY <1>4, <1>5, <1>6, <1>7, <2>1, <2>2
<1>10. n + 1 <= BackBursts
  <2>. HIDE DEF n
  <2>1. ASSUME BackBursts <= n  PROVE FALSE
    <3>1. BackBursts * BurstWrite <= n * BurstWrite
      BY <1>1, <1>2, <1>7, <2>1, MulMono
    <3>2. LoopNum <= a
      BY <1>7, <3>1 DEF a
    <3>. QED  BY <1>2, <1>3, <1>7, <1>9, <3>2
  <2>. QED  BY <1>1, <1>7, <2>1
<1>11. a + BurstWrite <= PartWords
  <2>1. ASSUME NEW i \in Nat, NEW j \in Nat, NEW k \in Nat, i <= j, j <= k  PROVE i <= k
    BY <2>1
  <2>2. a + BurstWrite \in Nat
    BY <1>2, <1>3
  <2>. QED  BY <1>7, <1>8, <1>9, <2>1, <2>2
<1>12. BackAt(u) = part * PartWords + a
  BY <1>7 DEF BackAt, a
<1>. QED  BY <1>1, <1>3, <1>4, <1>7, <1>10, <1>11, <1>12 DEF a

\* Which words of the property array the burst covers.
LEMMA BurstCovers ==
  ASSUME NEW p \in Part, NEW w \in 0 .. PartWords - 1, NEW q \in Part,
         NEW a \in Nat, NEW b \in Nat, a + b <= PartWords,
         NEW at, at = q * PartWords + a, NEW i, i = p * PartWords + w
  PROVE  /\ i - at \in 0 .. b - 1 <=> (p = q /\ a <= w /\ w < a + b)
         /\ p = q => i - at = w - a
<1>1. PICK s, t : s = p * PartWords /\ t = q * PartWords
  OBVIOUS
<1>2. s \in Nat /\ t \in Nat /\ w \in Nat /\ w < PartWords /\ PartWords \in Nat
  <2>1. p * PartWords \in Nat
    BY PartStart, Zenon
  <2>2. q * PartWords \in Nat
    BY PartStart, Zenon
  <2>3. w \in Nat /\ w < PartWords /\ PartWords \in Nat
    BY PartSizes
  <2>. QED  BY <1>1, <2>1, <2>2, <2>3, Zenon
<1>3. i = s + w /\ at = t + a
  BY <1>1
<1>4. p = q => s = t
  BY <1>1
<1>5. p = q => i - at = w - a
  BY <1>2, <1>3, <1>4
<1>6. p = q /\ a <= w /\ w < a + b => i - at \in 0 .. b - 1
  BY <1>2, <1>5
<1>7. ASSUME i - at \in 0 .. b - 1  PROVE p = q /\ a <= w /\ w < a + b
  <2>1. PICK x : x = i - at + a
    OBVIOUS
  <2>2. x \in Int /\ 0 <= x /\ x < PartWords /\ a <= x /\ x < a + b /\ s + w = t + x
    BY <1>2, <1>3, <1>7, <2>1
  <2>3. p * PartWords + w = q * PartWords + x
    BY <1>1, <2>2
  <2>4. p = q /\ w = x
    BY <2>2, <2>3, WordUnique
  <2>. QED  BY <2>2, <2>4
<1>. QED  BY <1>5, <1>6, <1>7

LEMMA WriteBackInv ==
  ASSUME IInv, NEW u \in Cus, WriteBack(u)
  PROVE  IInv'
<1>. USE DEF IInv, FlowInv
<1>. DEFINE a == counter[u] * BurstWrite
            at == BackAt(u)
<1>1. /\ phase = "apply" /\ Len(ram[u]) = BurstWrite
      /\ newProp' = [newProp EXCEPT ![u] = [w \in DOMAIN @ |->
           IF w - at \in 0 .. BurstWrite - 1 THEN ram[u][w - at + 1] ELSE @[w]]]
      /\ ram' = [ram EXCEPT ![u] = <<>>]
      /\ counter' = [counter EXCEPT ![u] = @ + 1]
      /\ UNCHANGED stageVars /\ UNCHANGED readVars /\ UNCHANGED applyVars
      /\ UNCHANGED <<newArray, duplicated>>
  BY DEF WriteBack
<1>2. /\ phase' = "apply"
      /\ UNCHANGED <<phase, todo, part, vertexNum, merged, applied, tmpStream, newStream>>
  BY <1>1 DEF stageVars, applyVars
<1>3. StageInv' /\ ReaderInv' /\ MergeInv' /\ NewInv'
  BY <1>1, <1>2, StageFrame, ReaderFrame, MergeFrame, NewFrame
<1>4. BurstWrite \in Nat /\ BackBursts' = BackBursts
  BY <1>2, Constants DEF BackBursts
<1>5. /\ counter[u] \in Nat /\ a \in Nat /\ (counter[u] + 1) * BurstWrite = a + BurstWrite
      /\ counter[u] + 1 <= BackBursts /\ a + BurstWrite <= PartWords
      /\ BackTaken(u) = a + BurstWrite
      /\ part \in Part /\ part * PartWords \in Nat /\ at = part * PartWords + a
  BY <1>1, NextBurst
<1>6. /\ counter \in [Cus -> Nat] /\ DOMAIN ram = Cus /\ DOMAIN newArray = Cus
      /\ \A v \in Cus :
           /\ counter[v] <= BackBursts
           /\ Holds(ram[v], NewWords(part), counter[v] * BurstWrite, BackTaken(v), BurstWrite)
           /\ Holds(newArray[v], NewWords(part), BackTaken(v), duplicated, Depth)
  BY <1>1 DEF BackInv
<1>7. BackInv'
  <2>1. ASSUME NEW v \in Cus
        PROVE  /\ counter'[v] <= BackBursts
               /\ Holds(ram'[v], NewWords(part), counter'[v] * BurstWrite, BackTaken(v)', BurstWrite)
               /\ Holds(newArray'[v], NewWords(part), BackTaken(v)', duplicated, Depth)
    <3>1. CASE v = u
      <4>1. ram'[u] = <<>> /\ counter'[u] = counter[u] + 1
        BY <1>1, <1>6
      <4>2. counter'[u] * BurstWrite = a + BurstWrite
        BY <1>1, <1>5, <1>6
      <4>. HIDE DEF a, at
      <4>3. PICK b : b = a + BurstWrite
        OBVIOUS
      <4>4. b \in Nat /\ b = counter'[u] * BurstWrite /\ b = BackTaken(u)
        BY <1>4, <1>5, <4>2, <4>3
      <4>5. BackTaken(u)' = b
        <5>1. Len(ram'[u]) = 0
          BY <4>1, SliceEmpty
        <5>. QED  BY <4>4, <5>1 DEF BackTaken
      <4>6. Holds(<<>>, NewWords(part), b, b, BurstWrite)
        BY <1>4, <4>4, HoldsNothing
      <4>7. counter'[v] <= BackBursts
        BY <1>5, <3>1, <4>1
      <4>8. Holds(ram'[v], NewWords(part), counter'[v] * BurstWrite, BackTaken(v)', BurstWrite)
        BY <3>1, <4>1, <4>4, <4>5, <4>6, Zenon
      <4>9. Holds(newArray'[v], NewWords(part), BackTaken(v)', duplicated, Depth)
        <5>1. newArray'[u] = newArray[u] /\ BackTaken(u)' = BackTaken(u)
          BY <1>1, <4>4, <4>5
        <5>. QED  BY <1>6, <3>1, <5>1, Zenon
      <4>. QED  BY <4>7, <4>8, <4>9
    <3>2. CASE v # u
      <4>1. ram'[v] = ram[v] /\ counter'[v] = counter[v]
        BY <1>1, <1>6, <3>2
      <4>2. BackTaken(v)' = BackTaken(v) /\ newArray'[v] = newArray[v]
        BY <1>1, <4>1 DEF BackTaken
      <4>3. counter'[v] <= BackBursts
        BY <1>6, <4>1, Zenon
      <4>4. Holds(ram'[v], NewWords(part), counter'[v] * BurstWrite, BackTaken(v)', BurstWrite)
        BY <1>6, <4>1, <4>2, Zenon
      <4>5. Holds(newArray'[v], NewWords(part), BackTaken(v)', duplicated, Depth)
        BY <1>6, <4>2, Zenon
      <4>. QED  BY <4>3, <4>4, <4>5
    <3>. QED  BY <3>1, <3>2
  <2>2. counter' \in [Cus -> Nat] /\ DOMAIN ram' = Cus /\ DOMAIN newArray' = Cus
    <3>1. counter[u] + 1 \in Nat
      BY <1>5
    <3>. QED  BY <1>1, <1>6, <3>1
  <2>. QED  BY <1>1, <1>2, <1>4, <2>1, <2>2 DEF BackInv
<1>8. PropInv'
  <2>1. /\ DOMAIN newProp = Cus
        /\ \A v \in Cus : DOMAIN newProp[v] = WordsOf(BlkNum * MaxVertices)
    BY DEF PropInv
  <2>. DEFINE g == [i \in WordsOf(BlkNum * MaxVertices) |->
                      IF i - at \in 0 .. BurstWrite - 1 THEN ram[u][i - at + 1] ELSE newProp[u][i]]
  <2>2. newProp' = [newProp EXCEPT ![u] = g]
    BY <1>1, <2>1
  <2>3. ASSUME NEW p \in Part, NEW w \in 0 .. PartWords - 1
        PROVE  g[p * PartWords + w] = IF Written(p, u, w)' THEN NewWords(p)[w] ELSE OldWord
    <3>. DEFINE i == p * PartWords + w
    <3>1. g[i] = IF i - at \in 0 .. BurstWrite - 1 THEN ram[u][i - at + 1] ELSE newProp[u][i]
      BY WordIndex
    <3>2. newProp[u][i] = IF Written(p, u, w) THEN NewWords(p)[w] ELSE OldWord
      BY DEF PropInv
    <3>3. w \in Nat
      BY PartSizes
    <3>4. counter'[u] * BurstWrite = a + BurstWrite
      BY <1>1, <1>5, <1>6
    <3>5. Done(p)' <=> Done(p)
      BY <1>2 DEF Done
    <3>. HIDE DEF g
    <3>6. /\ i - at \in 0 .. BurstWrite - 1 <=> (p = part /\ a <= w /\ w < a + BurstWrite)
          /\ p = part => i - at = w - a
      BY <1>4, <1>5, BurstCovers
    <3>. HIDE DEF i, a, at
    <3>7. CASE p = part /\ a <= w /\ w < a + BurstWrite
      <4>1. Holds(ram[u], NewWords(part), a, a + BurstWrite, BurstWrite)
        BY <1>5, <1>6 DEF a
      <4>2. i - at + 1 = w - a + 1
        BY <3>6, <3>7
      <4>3. ram[u][w - a + 1] = NewWords(part)[w]
        <5>1. PICK j : j = w - a + 1
          OBVIOUS
        <5>2. ram[u][j] = NewWords(part)[w]
          BY <1>4, <3>3, <3>7, <4>1, <5>1, HoldsAt
        <5>. QED  BY <5>1, <5>2
      <4>4. Written(p, u, w)'
        BY <1>2, <3>4, <3>7 DEF Written
      <4>. QED  BY <3>1, <3>6, <3>7, <4>2, <4>3, <4>4 DEF i
    <3>8. CASE ~(p = part /\ a <= w /\ w < a + BurstWrite)
      <4>1. p = part => (w < a + BurstWrite <=> w < a)
        BY <1>4, <1>5, <3>3, <3>8
      <4>2. Written(p, u, w)' <=> Written(p, u, w)
        BY <1>1, <1>2, <3>4, <3>5, <4>1 DEF Written, a
      <4>. QED  BY <3>1, <3>2, <3>6, <3>8, <4>2 DEF i
    <3>. QED  BY <3>7, <3>8
  <2>4. DOMAIN g = WordsOf(BlkNum * MaxVertices)
    OBVIOUS
  <2>. HIDE DEF g
  <2>5. DOMAIN newProp' = Cus
    BY <2>1, <2>2
  <2>6. ASSUME NEW v \in Cus
        PROVE  /\ DOMAIN newProp'[v] = WordsOf(BlkNum * MaxVertices)
               /\ \A p \in Part, w \in 0 .. PartWords - 1 :
                    newProp'[v][p * PartWords + w] =
                      IF Written(p, v, w)' THEN NewWords(p)[w] ELSE OldWord
    <3>1. CASE v = u
      <4>1. newProp'[u] = g
        BY <2>1, <2>2
      <4>. QED  BY <2>3, <2>4, <3>1, <4>1
    <3>2. CASE v # u
      <4>1. newProp'[v] = newProp[v] /\ counter'[v] = counter[v]
        BY <1>1, <1>6, <2>1, <2>2, <3>2
      <4>2. \A p, w : Written(p, v, w)' <=> Written(p, v, w)
        BY <1>2, <4>1 DEF Written, Done
      <4>. QED  BY <4>1, <4>2 DEF PropInv
    <3>. QED  BY <3>1, <3>2
  <2>. QED  BY <2>5, <2>6 DEF PropInv
<1>. QED  BY <1>3, <1>7, <1>8
-----------------------------------------------------------------------------
(***************************************************************************)
(* The end of the apply kernel.                                            *)
(***************************************************************************)

\* When every process has ended its loop, no stream holds a word: all the
\* counters stand at the same number.
LEMMA KernelDrained ==
  ASSUME IInv, phase = "apply", KernelDone
  PROVE  /\ \A r \in Readers : stream[r] = <<>> /\ readBuffer[r] = <<>>
         /\ \A u \in Cus : /\ tmpStream[u] = <<>> /\ ram[u] = <<>> /\ newArray[u] = <<>>
                           /\ counter[u] * BurstWrite = LoopNum
         /\ newStream = <<>>
<1>. USE DEF IInv, FlowInv
<1>1. /\ \A r \in Readers : chunk[r] = ChunkNum /\ readBuffer[r] = <<>>
      /\ \A u \in Cus : merged[u] = LoopNum /\ counter[u] = BackBursts
      /\ applied = LoopNum /\ duplicated = LoopNum
  BY DEF KernelDone
<1>2. /\ LoopNum \in Nat /\ LoopNum = ChunkNum * BurstBuffer
      /\ BackBursts \in Nat /\ LoopNum = BackBursts * BurstWrite
  BY ApplySizes DEF StageInv
<1>3. /\ Depth \in Nat /\ DepthNew \in Nat /\ BurstWrite \in Nat /\ BurstBuffer \in Nat
      /\ \A r : DepthOf(r) \in Nat
  BY Constants DEF Depth, DepthNew, DepthOf
<1>4. ASSUME NEW r \in Readers  PROVE stream[r] = <<>>
  <2>1. Consumed(r) = LoopNum
    BY <1>1, ReaderKinds DEF Consumed
  <2>2. /\ Holds(stream[r], ReaderWords(r), Consumed(r), Emitted(r), DepthOf(r))
        /\ Holds(readBuffer[r], ReaderWords(r), Emitted(r), chunk[r] * BurstBuffer, BurstBuffer)
    BY DEF ReaderInv
  <2>3. Emitted(r) = LoopNum
    <3>1. Emitted(r) = chunk[r] * BurstBuffer
      BY <1>1, <1>3, <2>2, HoldsFacts
    <3>. QED  BY <1>1, <1>2, <3>1
  <2>. QED  BY <1>3, <2>1, <2>2, <2>3, HoldsFacts
<1>5. ASSUME NEW u \in Cus  PROVE tmpStream[u] = <<>>
  <2>1. MergedTaken(u) = LoopNum
    <3>1. u # CuNum - 1 => u + 1 \in Cus
      BY Constants DEF Cus
    <3>. QED  BY <1>1, <3>1 DEF MergedTaken
  <2>2. Holds(tmpStream[u], MergedWords(part, u), MergedTaken(u), merged[u], Depth)
    BY DEF MergeInv
  <2>. QED  BY <1>1, <1>3, <2>1, <2>2, HoldsFacts
<1>6. newStream = <<>>
  <2>1. Holds(newStream, NewWords(part), duplicated, applied, DepthNew)
    BY DEF NewInv
  <2>. QED  BY <1>1, <1>3, <2>1, HoldsFacts
<1>7. ASSUME NEW u \in Cus
      PROVE  ram[u] = <<>> /\ newArray[u] = <<>> /\ counter[u] * BurstWrite = LoopNum
  <2>1. counter[u] * BurstWrite = LoopNum
    BY <1>1, <1>2
  <2>2. /\ Holds(ram[u], NewWords(part), counter[u] * BurstWrite, BackTaken(u), BurstWrite)
        /\ Holds(newArray[u], NewWords(part), BackTaken(u), duplicated, Depth)
    BY DEF BackInv
  <2>3. LoopNum <= BackTaken(u) /\ BackTaken(u) \in Nat
    BY <1>3, <2>1, <2>2, HoldsFacts
  <2>4. BackTaken(u) <= LoopNum
    BY <1>1, <1>3, <2>2, HoldsFacts
  <2>5. BackTaken(u) = LoopNum
    BY <1>2, <2>3, <2>4
  <2>6. ram[u] = <<>>
    BY <1>3, <2>1, <2>2, <2>5, HoldsFacts
  <2>7. newArray[u] = <<>>
    BY <1>1, <1>3, <2>2, <2>5, HoldsFacts
  <2>. QED  BY <2>1, <2>6, <2>7
<1>. QED  BY <1>1, <1>4, <1>5, <1>6, <1>7

LEMMA EndApplyInv ==
  ASSUME IInv, EndApply
  PROVE  IInv'
<1>. USE DEF IInv
<1>1. /\ phase = "apply" /\ KernelDone /\ phase' = "idle"
      /\ UNCHANGED <<todo, part, cu, tmpVPropBuffer, tmpProp, vertexNum, addrOffset>>
      /\ UNCHANGED <<sent, writeArrayLayer1, sliced, writeArray, writeBuffer, bursts>>
      /\ UNCHANGED <<chunk, readBuffer, stream>>
      /\ UNCHANGED <<merged, tmpStream, applied, newStream>>
      /\ UNCHANGED <<newArray, duplicated, ram, counter>> /\ UNCHANGED newProp
  BY DEF EndApply, writeVars, readVars, applyVars, backVars
<1>2. /\ \A r \in Readers : stream[r] = <<>> /\ readBuffer[r] = <<>>
      /\ \A u \in Cus : /\ tmpStream[u] = <<>> /\ ram[u] = <<>> /\ newArray[u] = <<>>
                        /\ counter[u] * BurstWrite = LoopNum
      /\ newStream = <<>>
  BY <1>1, KernelDrained
<1>3. StageInv'
  <2>. USE DEF StageInv
  <2>1. PhaseInv'
    BY <1>1 DEF PhaseInv
  <2>2. BufferInv'
    BY <1>1 DEF BufferInv
  <2>3. LaneInv'
    BY <1>1 DEF LaneInv
  <2>4. ArrayInv'
    <3>1. \A u, w : ~Accumulated(u, w)'
      BY <1>1 DEF Accumulated
    <3>. QED  BY <1>1, <3>1 DEF ArrayInv
  <2>5. ArgumentInv'
    BY <1>1 DEF ArgumentInv
  <2>. QED  BY <2>1, <2>2, <2>3, <2>4, <2>5
<1>4. FlowInv'
  <2>. USE DEF FlowInv
  <2>1. ReaderInv'
    BY <1>1, <1>2 DEF ReaderInv
  <2>2. MergeInv'
    BY <1>1, <1>2 DEF MergeInv
  <2>3. NewInv'
    BY <1>1, <1>2 DEF NewInv
  <2>4. BackInv'
    BY <1>1, <1>2 DEF BackInv
  <2>. QED  BY <2>1, <2>2, <2>3, <2>4
<1>5. PropInv'
  <2>1. part \in Part /\ part \notin todo /\ RoundedNum(part) \div PeNum = LoopNum
    BY <1>1 DEF StageInv, PhaseInv, ArgumentInv, LoopNum
  <2>2. ASSUME NEW p \in Part, NEW u \in Cus, NEW w
        PROVE  Written(p, u, w)' <=> Written(p, u, w)
    <3>1. CASE p = part
      <4>1. Done(p)' /\ ~Done(p)
        BY <1>1, <2>1, <3>1 DEF Done
      <4>2. counter[u] * BurstWrite = RoundedNum(p) \div PeNum
        BY <1>2, <2>1, <3>1
      <4>. QED  BY <1>1, <3>1, <4>1, <4>2 DEF Written
    <3>2. CASE p # part
      <4>1. Done(p)' <=> Done(p)
        BY <1>1, <3>2 DEF Done
      <4>. QED  BY <1>1, <3>2, <4>1 DEF Written
    <3>. QED  BY <3>1, <3>2
  <2>3. DOMAIN newProp' = Cus
    BY <1>1 DEF PropInv
  <2>4. ASSUME NEW u \in Cus
        PROVE  /\ DOMAIN newProp'[u] = WordsOf(BlkNum * MaxVertices)
               /\ \A p \in Part, w \in 0 .. PartWords - 1 :
                    newProp'[u][p * PartWords + w] =
                      IF Written(p, u, w)' THEN NewWords(p)[w] ELSE OldWord
    BY <1>1, <2>2 DEF PropInv
  <2>. QED  BY <2>3, <2>4 DEF PropInv
<1>. QED  BY <1>3, <1>4, <1>5

\* The invariant is inductive.
LEMMA NextInv == IInv /\ [Next]_vars => IInv'
<1>. SUFFICES ASSUME IInv, [Next]_vars  PROVE IInv'
  OBVIOUS
<1>1. CASE Step
  <2>1. ASSUME NEW p \in Part, Begin(p)  PROVE IInv'
    BY <2>1, BeginInv
  <2>2. ASSUME NEW l \in Lanes, LaneWrite(l)  PROVE IInv'
    BY <2>2, LaneWriteInv
  <2>8. ASSUME NEW l \in Lanes, SliceWrite(l)  PROVE IInv'
    BY <2>8, SliceWriteInv
  <2>3. ASSUME NEW r \in Readers, ReadChunk(r)  PROVE IInv'
    BY <2>3, ReadChunkInv
  <2>4. ASSUME NEW r \in Readers, EmitWord(r)  PROVE IInv'
    BY <2>4, EmitWordInv
  <2>5. ASSUME NEW u \in Cus, Merge(u)  PROVE IInv'
    BY <2>5, MergeUnitInv
  <2>6. ASSUME NEW u \in Cus, FillBack(u)  PROVE IInv'
    BY <2>6, FillBackInv
  <2>7. ASSUME NEW u \in Cus, WriteBack(u)  PROVE IInv'
    BY <2>7, WriteBackInv
  <2>. QED
    BY <1>1, <2>1, <2>2, <2>3, <2>4, <2>5, <2>6, <2>7, <2>8, GatherInv, CollectRowInv,
       WriteBurstInv, EndWriteOutInv, ApplyWordInv, DuplicateInv, EndApplyInv, Zenon
    DEF Step
<1>2. CASE UNCHANGED vars
  <2>. USE DEF vars, IInv
  <2>1. StageInv'
    <3>1. UNCHANGED stageVars
      BY <1>2 DEF stageVars
    <3>. QED  BY <3>1, StageFrame
  <2>2. FlowInv'
    <3>1. ReaderInv'
      BY <1>2, ReaderFrame DEF FlowInv, readVars, applyVars
    <3>2. MergeInv'
      BY <1>2, MergeFrame DEF FlowInv, applyVars, backVars
    <3>3. NewInv'
      BY <1>2, NewFrame DEF FlowInv, applyVars, backVars
    <3>4. BackInv'
      BY <1>2, BackFrame DEF FlowInv, backVars
    <3>. QED  BY <3>1, <3>2, <3>3, <3>4 DEF FlowInv
  <2>3. PropInv'
    BY <1>2, PropFrame DEF backVars
  <2>. QED  BY <2>1, <2>2, <2>3
<1>. QED  BY <1>1, <1>2 DEF Next, Finished

LEMMA Invariance == Spec => []IInv
  BY InitInv, NextInv, PTL DEF Spec
-----------------------------------------------------------------------------
(***************************************************************************)
(* The theorems.                                                           *)
(***************************************************************************)

\* The states of the invariant are type correct.
LEMMA InvTypes == IInv => TypeOK
<1>. SUFFICES ASSUME IInv  PROVE TypeOK
  OBVIOUS
<1>. USE DEF IInv, StageInv, FlowInv
<1>1. /\ Depth \in Nat /\ DepthNew \in Nat /\ BurstWrite \in Nat /\ BurstBuffer \in Nat
      /\ \A r : DepthOf(r) \in Nat
      /\ Len(<<>>) = 0
  BY Constants DEF Depth, DepthNew, DepthOf
<1>2. /\ phase \in {"idle", "gather", "writeOut", "apply"}
      /\ todo \subseteq Part /\ part \in Part /\ cu \in Cus
  BY DEF PhaseInv
<1>3. bursts \in 0 .. AllBursts /\ Len(writeBuffer) \in 0 .. BurstWrite
  <2>1. CASE phase = "writeOut"
    <3>1. Holds(writeBuffer, UpdateWords(part, cu), bursts * BurstWrite, 2 * Collected, BurstWrite)
      BY <2>1 DEF LaneInv
    <3>2. Len(writeBuffer) \in 0 .. BurstWrite
      BY <1>1, <3>1, HoldsLen
    <3>. QED  BY <3>2 DEF LaneInv
  <2>2. CASE phase # "writeOut"
    BY <1>1, <2>2 DEF LaneInv
  <2>. QED  BY <2>1, <2>2
<1>4. ASSUME NEW l \in Lanes
      PROVE  /\ sent[l] \in Nat /\ Len(writeArrayLayer1[l]) \in 0 .. Depth
             /\ sliced[l] \in Nat /\ Len(writeArray[l]) \in 0 .. Depth
  <2>1. sent[l] \in Nat /\ sliced[l] \in Nat
    BY PartSizes DEF LaneInv
  <2>2. CASE phase = "writeOut"
    <3>1. /\ Holds(writeArrayLayer1[l], RowPairs(part, cu, l), sliced[l], sent[l], Depth)
          /\ Holds(writeArray[l], RowPairs(part, cu, l), Collected, sliced[l], Depth)
      BY <2>2 DEF LaneInv
    <3>2. Len(writeArrayLayer1[l]) \in 0 .. Depth
      BY <1>1, <3>1, HoldsLen
    <3>3. Len(writeArray[l]) \in 0 .. Depth
      BY <1>1, <3>1, HoldsLen
    <3>. QED  BY <2>1, <3>2, <3>3
  <2>3. CASE phase # "writeOut"
    BY <1>1, <2>1, <2>3 DEF LaneInv
  <2>. QED  BY <2>2, <2>3
<1>5. vertexNum \in 0 .. MaxVertices /\ addrOffset \in Vertices
  BY DEF ArgumentInv
<1>6. ASSUME NEW r \in Readers
      PROVE  /\ chunk[r] \in 0 .. MaxVertices \div AlignSize
             /\ Len(readBuffer[r]) \in 0 .. BurstBuffer
             /\ Len(stream[r]) \in 0 .. DepthOf(r)
  <2>1. chunk[r] \in 0 .. MaxVertices \div AlignSize
    BY DEF ReaderInv, Chunks
  <2>2. CASE phase = "apply"
    <3>1. /\ Holds(stream[r], ReaderWords(r), Consumed(r), Emitted(r), DepthOf(r))
          /\ Holds(readBuffer[r], ReaderWords(r), Emitted(r), chunk[r] * BurstBuffer, BurstBuffer)
      BY <2>2 DEF ReaderInv
    <3>2. Len(stream[r]) \in 0 .. DepthOf(r)
      BY <1>1, <3>1, HoldsLen
    <3>3. Len(readBuffer[r]) \in 0 .. BurstBuffer
      BY <1>1, <3>1, HoldsLen
    <3>. QED  BY <2>1, <3>2, <3>3
  <2>3. CASE phase # "apply"
    <3>1. stream[r] = <<>> /\ readBuffer[r] = <<>>
      BY <2>3 DEF ReaderInv
    <3>. QED  BY <1>1, <2>1, <3>1
  <2>. QED  BY <2>2, <2>3
<1>7. ASSUME NEW u \in Cus
      PROVE  /\ Len(tmpStream[u]) \in 0 .. Depth
             /\ Len(newArray[u]) \in 0 .. Depth
             /\ Len(ram[u]) \in 0 .. BurstWrite
  <2>1. CASE phase = "apply"
    <3>1. Holds(tmpStream[u], MergedWords(part, u), MergedTaken(u), merged[u], Depth)
      BY <2>1 DEF MergeInv
    <3>2. /\ Holds(ram[u], NewWords(part), counter[u] * BurstWrite, BackTaken(u), BurstWrite)
          /\ Holds(newArray[u], NewWords(part), BackTaken(u), duplicated, Depth)
      BY <2>1 DEF BackInv
    <3>3. Len(tmpStream[u]) \in 0 .. Depth
      BY <1>1, <3>1, HoldsLen
    <3>4. Len(ram[u]) \in 0 .. BurstWrite
      BY <1>1, <3>2, HoldsLen
    <3>5. Len(newArray[u]) \in 0 .. Depth
      BY <1>1, <3>2, HoldsLen
    <3>. QED  BY <3>3, <3>4, <3>5
  <2>2. CASE phase # "apply"
    <3>1. tmpStream[u] = <<>> /\ newArray[u] = <<>> /\ ram[u] = <<>>
      BY <2>2 DEF MergeInv, BackInv
    <3>. QED  BY <1>1, <3>1
  <2>. QED  BY <2>1, <2>2
<1>8. Len(newStream) \in 0 .. DepthNew
  <2>1. CASE phase = "apply"
    BY <1>1, <2>1, HoldsLen DEF NewInv
  <2>2. CASE phase # "apply"
    BY <1>1, <2>2 DEF NewInv
  <2>. QED  BY <2>1, <2>2
<1>. QED  BY <1>2, <1>3, <1>4, <1>5, <1>6, <1>7, <1>8 DEF TypeOK

\* For every number of units, lanes and partitions and every burst length the
\* processes stay inside their loops and no stream gets fuller than its depth.
THEOREM Types == Spec => []TypeOK
  BY Invariance, InvTypes, PTL

\* In the states of the invariant the partitions done have their properties.
LEMMA InvOwn == IInv => NewPropertiesOwn
<1>. SUFFICES ASSUME IInv, NEW p \in Part, Done(p),
                     NEW v \in DstVertexStart(p) .. DstVertexEnd(p), NEW u \in Cus
              PROVE  ValueAt(u, v) = NewValue(v, v, {<<c, v>> : c \in Cus})
  BY DEF NewPropertiesOwn
<1>1. PICK n : n = RoundedNum(p) \div PeNum
  OBVIOUS
<1>2. n \in Nat /\ n <= PartWords /\ DstVertexEnd(p) < DstVertexStart(p) + n * PeNum
  BY <1>1, RoundedSizes
<1>3. v \in Nat /\ DstVertexStart(p) <= v /\ v <= DstVertexEnd(p)
      /\ v < DstVertexStart(p) + n * PeNum
  <2>1. n * PeNum \in Nat
    BY <1>2, MulNext, Constants
  <2>. QED  BY <1>2, <2>1, PartSpan
<1>4. PICK w \in 0 .. n - 1, l \in Lanes : v = Vertex(p, w, l)
  BY <1>2, <1>3, VertexOf
<1>5. w \in 0 .. PartWords - 1 /\ w \in Nat /\ w < n
  BY <1>2, PartSizes
<1>6. v \div PeNum = p * PartWords + w /\ v % PeNum = l
  BY <1>4, <1>5, VertexPlace
<1>7. newProp[u][p * PartWords + w] = NewWords(p)[w]
  <2>1. Written(p, u, w)
    BY <1>1, <1>5 DEF Written
  <2>. QED  BY <1>5, <2>1 DEF IInv, PropInv
<1>8. NewWords(p)[w][l] = NewValue(v, v, {<<c, v>> : c \in Cus})
  <2>1. MergedWords(p, CuNum - 1)[w][l] = {<<c, v>> : c \in Cus}
    BY <1>3, <1>4, <1>5 DEF MergedWords, Cus
  <2>. QED  BY <1>4, <1>5, <2>1 DEF NewWords
<1>. QED  BY <1>6, <1>7, <1>8 DEF ValueAt

\* When the kernel of a partition has ended, every vertex of the partition has
\* in every unit's memory the property made of its own old property, its own
\* out-degree and its own updates of all units, for all sizes of
\* global_config.h.
THEOREM PropertiesOwn == Spec => []NewPropertiesOwn
  BY Invariance, InvOwn, PTL

\* What a burst writes is not yet written and lies in the current partition.
LEMMA BurstOnce ==
  ASSUME IInv, NEW u \in Cus, WriteBack(u), NEW v \in Cus, NEW i \in DOMAIN newProp[v],
         newProp'[v][i] # newProp[v][i]
  PROVE  newProp[v][i] = OldWord /\ (i * PeNum) \div MaxVertices = part
<1>. DEFINE a == counter[u] * BurstWrite
            at == BackAt(u)
<1>1. /\ phase = "apply" /\ Len(ram[u]) = BurstWrite
      /\ newProp' = [newProp EXCEPT ![u] = [w \in DOMAIN @ |->
           IF w - at \in 0 .. BurstWrite - 1 THEN ram[u][w - at + 1] ELSE @[w]]]
  BY DEF WriteBack
<1>2. /\ DOMAIN newProp = Cus
      /\ \A x \in Cus : DOMAIN newProp[x] = WordsOf(BlkNum * MaxVertices)
  BY DEF IInv, PropInv
<1>3. v = u
  BY <1>1, <1>2
<1>4. i - at \in 0 .. BurstWrite - 1
  BY <1>1, <1>2, <1>3
<1>5. PICK p \in Part, w \in 0 .. PartWords - 1 : i = p * PartWords + w
  BY <1>2, WordOf
<1>6. /\ a \in Nat /\ a + BurstWrite <= PartWords /\ BurstWrite \in Nat
      /\ part \in Part /\ at = part * PartWords + a
  BY <1>1, NextBurst, Constants
<1>7. p = part /\ a <= w
  <2>. HIDE DEF a, at
  <2>. QED  BY <1>4, <1>5, <1>6, BurstCovers
<1>8. newProp[v][i] = OldWord
  <2>1. w \in Nat
    BY PartSizes
  <2>2. ~(w < a)
    <3>. HIDE DEF a
    <3>. QED  BY <1>6, <1>7, <2>1
  <2>3. ~Written(p, v, w)
    BY <1>1, <1>3, <1>7, <2>2 DEF Written, Done
  <2>. QED  BY <1>5, <2>3 DEF IInv, PropInv
<1>9. (i * PeNum) \div MaxVertices = p
  <2>1. p \in Nat /\ w \in Nat /\ w + 1 <= PartWords /\ PartWords \in Nat
    BY PartSpan, PartSizes
  <2>2. PICK s, x : s = p * PartWords /\ x = w * PeNum
    OBVIOUS
  <2>3. s \in Nat /\ x \in Nat /\ (w + 1) * PeNum = x + PeNum
    BY <2>1, <2>2, MulNext, Constants
  <2>4. x + PeNum <= MaxVertices
    <3>1. (w + 1) * PeNum <= PartWords * PeNum
      BY <2>1, MulMono, Constants
    <3>. QED  BY <2>3, <3>1, PartSizes
  <2>5. i * PeNum = s * PeNum + x
    BY <1>5, <2>1, <2>2, <2>3, SumOfProducts, Constants
  <2>6. s * PeNum = p * MaxVertices
    BY <2>1, <2>2, Assoc, PartSizes, Constants
  <2>7. x < MaxVertices
    BY <2>3, <2>4, Constants
  <2>8. i * PeNum = p * MaxVertices + x
    BY <2>5, <2>6
  <2>9. MaxVertices \in Nat \ {0}
    BY Constants
  <2>10. PICK m : m = i * PeNum
    OBVIOUS
  <2>11. m = p * MaxVertices + x
    BY <2>8, <2>10
  <2>12. m \div MaxVertices = p
    BY <2>1, <2>3, <2>7, <2>9, <2>11, QuotientRest, Zenon
  <2>. QED  BY <2>10, <2>12
<1>. QED  BY <1>7, <1>8, <1>9

\* No word of the property array is written twice in a super-step, and none by
\* the kernel of another partition than its own, for all sizes: the bursts of
\* the writers tile the array although a partition's size is rounded up.
THEOREM WrittenOnce == Spec => WordsWrittenOnce
<1>1. IInv /\ [Next]_vars =>
        [\A u \in Cus : \A w \in DOMAIN newProp[u] :
           newProp'[u][w] # newProp[u][w] =>
             newProp[u][w] = OldWord /\ (w * PeNum) \div MaxVertices = part]_vars
  <2>. SUFFICES ASSUME IInv, Next, NEW v \in Cus, NEW w \in DOMAIN newProp[v],
                       newProp'[v][w] # newProp[v][w]
                PROVE  newProp[v][w] = OldWord /\ (w * PeNum) \div MaxVertices = part
    OBVIOUS
  <2>1. ~UNCHANGED newProp
    OBVIOUS
  <2>2. Step
    BY <2>1 DEF Next, Finished, vars
  <2>3. PICK u \in Cus : WriteBack(u)
    BY <2>1, <2>2
    DEF Step, Begin, Gather, LaneWrite, SliceWrite, CollectRow, WriteBurst, EndWriteOut, ReadChunk,
        EmitWord, Merge, FillBack, ApplyWord, Duplicate, EndApply
  <2>. QED  BY <2>3, BurstOnce
<1>. QED  BY <1>1, Invariance, PTL DEF Spec, WordsWrittenOnce
=============================================================================
