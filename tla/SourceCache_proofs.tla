------------------------- MODULE SourceCache_proofs -------------------------
(***************************************************************************)
(* What holds of srcPropertyProcess for every list of blocks, cache, burst *)
(* and buffer size: the types and bounds of its buffers, and that every    *)
(* look-up of readEdgesStage finds the property of the vertex asked for.   *)
(***************************************************************************)
EXTENDS SourceCache, SequenceTheorems, TLAPS

-----------------------------------------------------------------------------
(***************************************************************************)
(* Arithmetic of addresses, lines, bursts and slots.                       *)
(***************************************************************************)

LEMMA DivMod ==
  ASSUME NEW a \in Nat, NEW n \in Nat \ {0}
  PROVE  /\ a \div n \in Nat /\ a % n \in 0 .. (n - 1) /\ a % n \in Nat
         /\ a = (a \div n) * n + (a % n)
  OBVIOUS

LEMMA MulMono ==
  ASSUME NEW n \in Nat, NEW a \in Int, NEW b \in Int, a <= b
  PROVE  a * n <= b * n /\ a * n \in Int /\ b * n \in Int
  OBVIOUS

\* A quotient is found from the interval a number lies in.
LEMMA QuotientOf ==
  ASSUME NEW n \in Nat \ {0}, NEW q \in Nat, NEW a \in Nat,
         q * n <= a, a < (q + 1) * n
  PROVE  a \div n = q
  OBVIOUS

\* The multiples of n are n apart.
LEMMA MultipleMod ==
  ASSUME NEW n \in Nat \ {0}, NEW q \in Nat
  PROVE  (q * n) % n = 0 /\ (q * n) \div n = q
<1>. DEFINE a == q * n
<1>1. a \in Nat /\ q * n <= a /\ a < (q + 1) * n
  OBVIOUS
<1>2. a = q * n
  OBVIOUS
<1>. HIDE DEF a
<1>3. a \div n = q
  BY <1>1, QuotientOf
<1>4. a = (a \div n) * n + (a % n) /\ a % n \in Nat
  BY <1>1, DivMod, Zenon
<1>5. a % n = 0
  BY <1>1, <1>2, <1>3, <1>4
<1>. QED  BY <1>3, <1>5 DEF a

LEMMA MultipleStep ==
  ASSUME NEW n \in Nat \ {0}, NEW a \in Nat, NEW b \in Nat,
         a % n = 0, b % n = 0
  PROVE  (a < b => a + n <= b) /\ (a + n) % n = 0
<1>. DEFINE p == a \div n
            q == b \div n
<1>1. p \in Nat /\ q \in Nat /\ a = p * n /\ b = q * n
  BY DivMod
<1>. HIDE DEF p, q
<1>2. a + n = (p + 1) * n
  BY <1>1
<1>3. ASSUME a < b  PROVE a + n <= b
  <2>1. q <= p => q * n <= p * n
    BY <1>1, MulMono
  <2>2. p + 1 <= q
    BY <1>1, <1>3, <2>1
  <2>. QED  BY <1>1, <1>2, <2>2, MulMono
<1>4. (a + n) % n = 0
  BY <1>1, <1>2, MultipleMod
<1>. QED  BY <1>3, <1>4

LEMMA Sizes ==
  /\ LineSize \in Nat \ {0} /\ BurstLines \in Nat \ {0}
  /\ Burst \in Nat \ {0} /\ LineSize <= Burst
  /\ CacheSize \in Nat \ {0} /\ Margin \in Nat /\ ENDFLAG \in Nat
  /\ LineSize <= Margin /\ Margin < CacheSize
<1>1. LineSize \in Nat \ {0} /\ BurstLines \in Nat \ {0}
  BY CacheAssumption
<1>2. Burst \in Nat \ {0} /\ LineSize <= Burst
  BY <1>1 DEF Burst
<1>. QED  BY <1>1, <1>2, CacheAssumption

LEMMA LineFacts ==
  ASSUME NEW v \in Nat
  PROVE  /\ Line(v) \in Nat /\ Line(v) <= v /\ v < Line(v) + LineSize
         /\ Line(v) % LineSize = 0
<1>1. LineSize \in Nat \ {0}
  BY Sizes
<1>. DEFINE q == v \div LineSize
<1>2. q \in Nat /\ v % LineSize \in 0 .. (LineSize - 1)
      /\ v = q * LineSize + (v % LineSize)
  BY <1>1, DivMod
<1>3. Line(v) = q * LineSize
  BY DEF Line
<1>. HIDE DEF q
<1>4. (q * LineSize) % LineSize = 0
  BY <1>1, <1>2, MultipleMod
<1>5. q * LineSize \in Nat
  BY <1>1, <1>2
<1>. QED  BY <1>1, <1>2, <1>3, <1>4, <1>5

LEMMA IndexFacts ==
  ASSUME NEW v \in Nat
  PROVE  /\ Index(v) \in Nat
         /\ Index(v) * Burst <= Line(v) /\ v < (Index(v) + 1) * Burst
<1>1. /\ Burst \in Nat \ {0} /\ LineSize \in Nat \ {0}
      /\ BurstLines \in Nat \ {0}
  BY Sizes
<1>2. Index(v) \in Nat /\ Index(v) * Burst <= v /\ v < (Index(v) + 1) * Burst
  BY <1>1, DivMod DEF Index
<1>3. Index(v) * Burst <= Line(v)
  <2>. DEFINE i == Index(v) * BurstLines
              s == Index(v) * Burst
  <2>1. s = i * LineSize /\ i \in Nat /\ s \in Nat
    BY <1>1, <1>2 DEF Burst
  <2>. HIDE DEF i
  <2>2. s % LineSize = 0
    BY <1>1, <2>1, MultipleMod, Zenon
  <2>4. s <= v
    BY <1>2
  <2>. HIDE DEF s
  <2>3. Line(v) < s => Line(v) + LineSize <= s
    BY <1>1, <2>1, <2>2, LineFacts, MultipleStep
  <2>5. s <= Line(v)
    <3>1. Line(v) \in Nat /\ v < Line(v) + LineSize
      BY LineFacts
    <3>. QED  BY <1>1, <2>1, <2>3, <2>4, <3>1
  <2>. QED  BY <2>5 DEF s
<1>. QED  BY <1>2, <1>3

LEMMA IndexMono ==
  ASSUME NEW v \in Nat, NEW w \in Nat, v <= w
  PROVE  Index(v) <= Index(w)
<1>1. Burst \in Nat \ {0}
  BY Sizes
<1>2. /\ Index(v) \in Nat /\ Index(w) \in Nat
      /\ Index(v) * Burst <= v /\ w < (Index(w) + 1) * Burst
  BY IndexFacts, LineFacts, Sizes
<1>. DEFINE i == Index(v)
            j == Index(w)
<1>3. j + 1 <= i => (j + 1) * Burst <= i * Burst
  BY <1>1, <1>2, MulMono
<1>4. i * Burst \in Nat /\ (j + 1) * Burst \in Nat
  BY <1>1, <1>2
<1>. HIDE DEF i, j
<1>5. ~(j + 1 <= i)
  BY <1>2, <1>3, <1>4 DEF i, j
<1>. QED  BY <1>2, <1>5 DEF i, j

\* The slot of an address is its line number modulo the number of slots.
LEMMA SlotOf ==
  ASSUME NEW q \in Nat, NEW r \in 0 .. (LineSize - 1)
  PROVE  /\ CacheSize \div LineSize \in Nat \ {0}
         /\ Slot(q * LineSize + r) = q % (CacheSize \div LineSize)
<1>. DEFINE L == LineSize
            C == CacheSize \div LineSize
            m == q \div C
            k == q % C
<1>1. L \in Nat \ {0} /\ CacheSize \in Nat \ {0} /\ CacheSize % L = 0
  BY Sizes, CacheAssumption
<1>2. C \in Nat /\ CacheSize = C * L
  BY <1>1, DivMod
<1>3. C # 0
  BY <1>1, <1>2
<1>. HIDE DEF C
<1>4. m \in Nat /\ k \in 0 .. (C - 1) /\ q = m * C + k
  BY <1>2, <1>3, DivMod
<1>. HIDE DEF m, k, L
<1>5. q * L + r = m * CacheSize + (k * L + r)
  BY <1>1, <1>2, <1>4
<1>6. k * L + r \in Nat /\ k * L + r < CacheSize
  <2>1. (k + 1) * L <= C * L
    BY <1>1, <1>2, <1>4, MulMono
  <2>2. (k + 1) * L = k * L + L /\ k * L \in Nat
    BY <1>1, <1>4
  <2>. QED  BY <1>1, <1>2, <2>1, <2>2 DEF L
<1>7. (q * L + r) % CacheSize = k * L + r
  <2>. DEFINE a == q * L + r
              b == k * L + r
  <2>1. a \in Nat /\ m * CacheSize <= a /\ a < (m + 1) * CacheSize
    <3>1. m * CacheSize \in Nat /\ (m + 1) * CacheSize = m * CacheSize + CacheSize
      BY <1>1, <1>4
    <3>2. a = m * CacheSize + b /\ b \in Nat /\ b < CacheSize
      BY <1>5, <1>6
    <3>. HIDE DEF a, b
    <3>. QED  BY <1>1, <3>1, <3>2
  <2>. HIDE DEF a, b
  <2>2. a \div CacheSize = m
    BY <1>1, <1>4, <2>1, QuotientOf
  <2>3. a = m * CacheSize + (a % CacheSize)
    BY <1>1, <2>1, <2>2, DivMod
  <2>4. m * CacheSize \in Nat
    BY <1>1, <1>4
  <2>5. a % CacheSize \in Nat
    BY <1>1, <2>1, DivMod
  <2>6. a = m * CacheSize + b /\ b \in Nat
    BY <1>5, <1>6 DEF a, b
  <2>7. a % CacheSize = b
    BY <2>3, <2>4, <2>5, <2>6
  <2>. QED  BY <2>7 DEF a, b
<1>8. (k * L + r) \div L = k
  <2>1. k * L \in Nat /\ (k + 1) * L = k * L + L
    BY <1>1, <1>4
  <2>2. k * L <= k * L + r /\ k * L + r < (k + 1) * L
    BY <1>1, <2>1 DEF L
  <2>. QED  BY <1>1, <1>4, <1>6, <2>2, QuotientOf
<1>. QED  BY <1>2, <1>3, <1>7, <1>8 DEF Slot, L, C, k

LEMMA SlotOfLine ==
  ASSUME NEW v \in Nat
  PROVE  /\ Slot(Line(v)) = Slot(v)
         /\ Slot(v) \in 0 .. (CacheSize \div LineSize - 1)
<1>. DEFINE q == v \div LineSize
            r == v % LineSize
<1>1. LineSize \in Nat \ {0}
  BY Sizes
<1>2. q \in Nat /\ r \in 0 .. (LineSize - 1) /\ v = q * LineSize + r
      /\ Line(v) = q * LineSize
  BY <1>1, DivMod DEF Line
<1>. HIDE DEF q, r
<1>3. q * LineSize = q * LineSize + 0 /\ 0 \in 0 .. (LineSize - 1)
  BY <1>1, <1>2
<1>4. Slot(v) = q % (CacheSize \div LineSize)
  BY <1>2, SlotOf
<1>5. Slot(Line(v)) = q % (CacheSize \div LineSize)
  BY <1>2, <1>3, SlotOf
<1>6. CacheSize \div LineSize \in Nat \ {0}
  BY <1>2, SlotOf
<1>7. q % (CacheSize \div LineSize) \in 0 .. (CacheSize \div LineSize - 1)
  BY <1>2, <1>6, DivMod
<1>. QED  BY <1>4, <1>5, <1>7

\* Two lines that share a slot are at least a cache apart.
LEMMA SlotClash ==
  ASSUME NEW l \in Nat, NEW h \in Nat, l % LineSize = 0, h % LineSize = 0,
         l < h, Slot(l) = Slot(h)
  PROVE  l + CacheSize <= h
<1>. DEFINE L == LineSize
            C == CacheSize \div LineSize
            p == l \div L
            q == h \div L
<1>1. L \in Nat \ {0} /\ CacheSize \in Nat \ {0} /\ CacheSize % L = 0
  BY Sizes, CacheAssumption
<1>2. /\ p \in Nat /\ l = p * L /\ q \in Nat /\ h = q * L
      /\ C \in Nat /\ CacheSize = C * L
  <2>1. ASSUME NEW a \in Nat, a % L = 0
        PROVE  a \div L \in Nat /\ a = (a \div L) * L
    <3>1. a \div L \in Nat /\ a = (a \div L) * L + (a % L)
      BY <1>1, DivMod
    <3>. QED  BY <1>1, <2>1, <3>1
  <2>. QED  BY <1>1, <2>1
<1>. HIDE DEF C, p, q
<1>3. p * L = p * L + 0 /\ q * L = q * L + 0 /\ 0 \in 0 .. (LineSize - 1)
  BY <1>1, <1>2
<1>4. Slot(l) = p % C /\ Slot(h) = q % C /\ C \in Nat \ {0}
  BY <1>2, <1>3, SlotOf DEF C
<1>. HIDE DEF L
<1>5. p < q
  <2>1. q <= p => q * L <= p * L
    BY <1>1, <1>2, MulMono
  <2>. QED  BY <1>2, <2>1
<1>6. p + C <= q
  <2>. DEFINE i == p \div C
              j == q \div C
  <2>0. p % C = q % C
    BY <1>4, Zenon
  <2>1. /\ i \in Nat /\ j \in Nat /\ p % C \in Nat
        /\ p = i * C + (p % C) /\ q = j * C + (p % C)
    <3>1. i \in Nat /\ p % C \in Nat /\ p = i * C + (p % C)
      BY <1>2, <1>4, DivMod, Zenon
    <3>2. j \in Nat /\ q = j * C + (q % C)
      BY <1>2, <1>4, DivMod, Zenon
    <3>. QED  BY <2>0, <3>1, <3>2, Zenon
  <2>. HIDE DEF i, j
  <2>2. j <= i => j * C <= i * C
    BY <1>2, <2>1, MulMono
  <2>3. i * C \in Nat /\ j * C \in Nat /\ (i + 1) * C = i * C + C
    BY <1>2, <2>1
  <2>4. i + 1 <= j
    BY <1>2, <1>5, <2>1, <2>2, <2>3
  <2>5. (i + 1) * C <= j * C
    BY <1>2, <2>1, <2>4, MulMono
  <2>. QED  BY <1>2, <2>1, <2>3, <2>5
<1>7. (p + C) * L <= q * L /\ (p + C) * L = p * L + C * L
  BY <1>1, <1>2, <1>6, MulMono
<1>. QED  BY <1>2, <1>7
-----------------------------------------------------------------------------
(***************************************************************************)
(* The list, the counters of the streams and the flags.                    *)
(***************************************************************************)

MaxLine == ENDFLAG - LineSize

InputInv ==
  /\ input \in Inputs
  /\ endData \in {[lo |-> 0, hi |-> 0]}
                   \cup {input[k] : k \in {Len(input)} \cap DOMAIN input}

CountInv ==
  /\ {dup1, dup2, gr_counter, gw_counter, taken, merged, mapped, blocks} \subseteq Nat
  /\ dup2 <= dup1 /\ dup1 <= dup2 + 1 /\ dup1 <= EndToken
  /\ mapped <= dup2 /\ dup2 - mapped <= StreamDepth
  /\ gr_counter <= dup1 /\ dup1 - gr_counter <= StreamDepth
  /\ gw_counter <= gr_counter /\ gr_counter - gw_counter < PoolSize
  /\ taken <= gw_counter /\ gw_counter - taken <= StreamDepth
  /\ \/ merged <= taken /\ taken <= merged + 1
     \/ taken = EndToken /\ merged = EndToken + 1
  /\ blocks <= merged /\ merged - blocks <= StreamDepth

FlagInv ==
  /\ end_flag \in BOOLEAN /\ break_flag \in BOOLEAN
  /\ delaying \in {"loop", "flush", "done"}

\* A list is a sequence of blocks sorted by source.
LEMMA InputFacts ==
  ASSUME InputInv
  PROVE  /\ Len(input) \in Nat /\ DOMAIN input = 1 .. Len(input)
         /\ EndToken \in Nat \ {0} /\ EndToken = Len(input) + 1
         /\ input # <<>> => Len(input) \in DOMAIN input
         /\ \A k \in DOMAIN input : IsBlock(input[k])
         /\ \A j, k \in DOMAIN input : j < k => input[j].hi <= input[k].lo
<1>1. input \in Seq([lo : Nat, hi : Nat])
  BY CacheAssumption DEF InputInv
<1>2. Len(input) \in Nat /\ DOMAIN input = 1 .. Len(input)
      /\ (input # <<>> => Len(input) # 0)
  BY <1>1
<1>3. /\ \A k \in DOMAIN input : IsBlock(input[k])
      /\ \A j, k \in DOMAIN input : j < k => input[j].hi <= input[k].lo
  BY CacheAssumption DEF InputInv
<1>. QED  BY <1>2, <1>3 DEF EndToken

\* What the end token carries passes for a block as well.
LEMMA DataFacts ==
  ASSUME InputInv, NEW k \in Nat \ {0}
  PROVE  /\ IsBlock(Data(k))
         /\ k \in DOMAIN input => Data(k) = input[k]
<1>1. IsBlock([lo |-> 0, hi |-> 0])
  BY CacheAssumption, Sizes DEF IsBlock
<1>2. IsBlock(endData)
  <2>1. CASE endData = [lo |-> 0, hi |-> 0]
    BY <1>1, <2>1
  <2>2. ASSUME NEW j \in DOMAIN input, endData = input[j]
        PROVE  IsBlock(endData)
    BY <2>2, InputFacts
  <2>. QED  BY <2>1, <2>2 DEF InputInv
<1>3. /\ Len(input) \in Nat /\ DOMAIN input = 1 .. Len(input)
      /\ \A j \in DOMAIN input : IsBlock(input[j])
  BY InputFacts
<1>. QED  BY <1>2, <1>3 DEF Data

LEMMA InputNext == ASSUME [Next]_vars  PROVE UNCHANGED <<input, endData>>
  BY DEF Next, vars, Duplicate, Delay, Merge, Map, Fetch, Iterate, Drain, Finished

LEMMA DuplicateCount ==
  ASSUME InputInv, CountInv, Duplicate
  PROVE  CountInv'
<1>1. EndToken \in Nat /\ EndToken' = EndToken /\ StreamDepth \in Nat
  BY InputFacts, CacheAssumption DEF Duplicate, EndToken
<1>2. UNCHANGED <<gr_counter, gw_counter, taken, merged, mapped, blocks>>
  BY DEF Duplicate, delayVars, mergeVars, cmdVars, readVars
<1>. QED  BY <1>1, <1>2 DEF Duplicate, DupToDelay, DupToCommand, CountInv

LEMMA DelayCount ==
  ASSUME InputInv, CountInv, Delay
  PROVE  CountInv'
<1>1. /\ EndToken \in Nat /\ EndToken' = EndToken /\ StreamDepth \in Nat
      /\ PoolSize \in Nat
  BY InputFacts, CacheAssumption DEF Delay, EndToken
<1>2. UNCHANGED <<dup1, dup2, taken, merged, mapped, blocks>>
  BY DEF Delay, dupVars, mergeVars, cmdVars, readVars
<1>3. CASE DelayIterate
  <2>1. \/ gw_counter' = gw_counter
        \/ DelayCanWrite /\ gw_counter' = gw_counter + 1
    BY <1>3 DEF DelayIterate
  <2>2. \/ gr_counter' = gr_counter
        \/ DelayCanRead /\ gr_counter' = gr_counter + 1
    BY <1>3 DEF DelayIterate
  <2>3. DelayBuffer \in Nat \ {0}
    BY CacheAssumption
  <2>. QED
    BY <1>1, <1>2, <2>1, <2>2, <2>3 DEF DelayCanWrite, DelayCanRead, CountInv
<1>4. CASE DelayFlush
  BY <1>1, <1>2, <1>4 DEF DelayFlush, CountInv
<1>. QED  BY <1>3, <1>4 DEF Delay

LEMMA MergeCount ==
  ASSUME InputInv, CountInv, Merge
  PROVE  CountInv'
<1>1. EndToken \in Nat /\ EndToken' = EndToken /\ StreamDepth \in Nat
  BY InputFacts, CacheAssumption DEF Merge, EndToken
<1>2. UNCHANGED <<dup1, dup2, gr_counter, gw_counter, mapped, blocks>>
  BY DEF Merge, dupVars, delayVars, cmdVars, readVars
<1>. QED  BY <1>1, <1>2 DEF Merge, MergeRead, MergeWrite, CountInv

LEMMA MapCount ==
  ASSUME InputInv, CountInv, Map
  PROVE  CountInv'
<1>1. EndToken \in Nat /\ EndToken' = EndToken
  BY InputFacts DEF Map, EndToken
<1>2. UNCHANGED <<dup1, dup2, gr_counter, gw_counter, taken, merged, blocks>>
  BY DEF Map, dupVars, delayVars, mergeVars, readVars
<1>3. mapped' = mapped \/ (mapped < dup2 /\ mapped' = mapped + 1)
  BY DEF Map, MapRead, MapWrite
<1>4. StreamDepth \in Nat
  BY CacheAssumption
<1>. QED  BY <1>1, <1>2, <1>3, <1>4 DEF CountInv

LEMMA IterateCount ==
  ASSUME InputInv, CountInv, Iterate
  PROVE  CountInv'
<1>1. EndToken \in Nat /\ EndToken' = EndToken
  BY InputFacts DEF Iterate, EndToken
<1>2. UNCHANGED <<dup1, dup2, gr_counter, gw_counter, taken, merged, mapped>>
  BY DEF Iterate, dupVars, delayVars, mergeVars, cmdVars
<1>3. blocks' = blocks \/ (merged > blocks /\ blocks' = blocks + 1)
  BY DEF Iterate, TakeBlock, CanTakeBlock
<1>4. StreamDepth \in Nat
  BY CacheAssumption
<1>. QED  BY <1>1, <1>2, <1>3, <1>4 DEF CountInv

LEMMA NextCount == InputInv /\ CountInv /\ [Next]_vars => CountInv'
<1>. SUFFICES ASSUME InputInv, CountInv, [Next]_vars  PROVE CountInv'
  OBVIOUS
<1>1. CASE Fetch \/ Drain \/ Finished \/ UNCHANGED vars
  <2>1. UNCHANGED <<input, dup1, dup2, gr_counter, gw_counter, taken, merged,
                    mapped, blocks>>
    BY <1>1 DEF Fetch, Drain, Finished, vars, dupVars, delayVars, mergeVars,
                cmdVars, readVars
  <2>. QED  BY <2>1 DEF CountInv, EndToken
<1>. QED
  BY <1>1, DuplicateCount, DelayCount, MergeCount, MapCount, IterateCount
  DEF Next

LEMMA NextFlag == FlagInv /\ [Next]_vars => FlagInv'
<1>. SUFFICES ASSUME FlagInv, [Next]_vars  PROVE FlagInv'
  OBVIOUS
<1>1. CASE Delay
  <2>1. UNCHANGED break_flag
    BY <1>1 DEF Delay, readVars
  <2>2. CASE DelayIterate
    <3>1. end_flag' \in IF DelayCanRead THEN {gr_counter + 1 = EndToken}
                                        ELSE {end_flag, FALSE}
      BY <2>2 DEF DelayIterate
    <3>2. (gr_counter + 1 = EndToken) \in BOOLEAN
      OBVIOUS
    <3>3. end_flag' \in BOOLEAN
      BY <3>1, <3>2, Zenon DEF FlagInv
    <3>4. delaying' \in {"loop", "flush", "done"}
      BY <2>2 DEF DelayIterate
    <3>. QED  BY <2>1, <3>3, <3>4, Zenon DEF FlagInv
  <2>3. CASE DelayFlush
    <3>1. delaying' \in {"loop", "flush", "done"} /\ end_flag' = end_flag
      BY <2>3 DEF DelayFlush, FlagInv
    <3>. QED  BY <2>1, <3>1, Zenon DEF FlagInv
  <2>. QED  BY <1>1, <2>2, <2>3 DEF Delay
<1>2. CASE Iterate
  <2>1. UNCHANGED <<end_flag, delaying>>
    BY <1>2 DEF Iterate, delayVars
  <2>2. break_flag' = break_flag \/ break_flag' = (blocks = EndToken)
    BY <1>2 DEF Iterate, TakeBlock
  <2>. QED  BY <2>1, <2>2, Zenon DEF FlagInv
<1>3. CASE Duplicate \/ Merge \/ Map \/ Fetch \/ Drain \/ Finished \/ UNCHANGED vars
  <2>1. UNCHANGED <<end_flag, delaying, break_flag>>
    BY <1>3 DEF Duplicate, Merge, Map, Fetch, Drain, Finished, vars, delayVars,
                readVars
  <2>. QED  BY <2>1, Zenon DEF FlagInv
<1>. QED  BY <1>1, <1>2, <1>3 DEF Next
-----------------------------------------------------------------------------
(***************************************************************************)
(* Commands and the fetch.                                                 *)
(***************************************************************************)

Start(c) == c.idx * Burst
Stop(c)  == (c.idx + c.size) * Burst

CommandType ==
  {c \in [idx : Nat, size : Nat, flag : BOOLEAN] : Stop(c) <= MaxLine}

CommandInv ==
  /\ last_index \in {NoIndex} \cup Nat
  /\ cmdStream \in Seq(CommandType) /\ Len(cmdStream) <= CmdDepth
  /\ issuing \in Seq(CommandType) /\ Len(issuing) <= 2

\* updateVertexCache has sent the end line.
EndSent == fetch.at > fetch.stop

FetchInv ==
  /\ fetch \in [at : Nat, stop : Nat, end : BOOLEAN]
  /\ fetch.stop <= MaxLine /\ fetch.stop % LineSize = 0
  /\ IF EndSent THEN fetch.end /\ fetch.at = fetch.stop + 1
                ELSE fetch.at % LineSize = 0

\* The first burst asked for beyond those asked for before.
FirstNew(b) == IF Index(b.lo) > last_index THEN Index(b.lo) ELSE last_index + 1
LastNew(b)  == Index(b.hi + Margin)

\* A block asks for the bursts from the first new one to one beyond its
\* look-ahead, if any is new, and never beyond the last line there is.
LEMMA NeededFacts ==
  ASSUME last_index \in {NoIndex} \cup Nat, NEW b, IsBlock(b)
  PROVE  LET c == Command(FirstNew(b), LastNew(b)) IN
         /\ Index(b.lo) \in Nat /\ LastNew(b) \in Nat /\ Index(b.lo) <= LastNew(b)
         /\ \/ /\ LastNew(b) <= last_index /\ Needed(b) = <<>>
            \/ /\ LastNew(b) > last_index /\ Needed(b) = <<c>>
         /\ LastNew(b) > last_index =>
              c \in CommandType /\ ~c.flag /\ c.idx = FirstNew(b)
              /\ c.idx + c.size = LastNew(b) + 2
<1>. DEFINE c == Command(FirstNew(b), LastNew(b))
<1>1. b.lo \in Nat /\ b.hi \in Nat /\ b.lo <= b.hi + Margin /\ b.hi + Margin \in Nat
      /\ b.hi + Margin + 3 * Burst <= ENDFLAG
  BY Sizes DEF IsBlock
<1>2. Index(b.lo) \in Nat /\ LastNew(b) \in Nat /\ Index(b.lo) <= LastNew(b)
  BY <1>1, IndexFacts, IndexMono DEF LastNew
<1>3. last_index \in Int /\ last_index >= -1
  BY DEF NoIndex
<1>4. \/ LastNew(b) <= last_index /\ Needed(b) = <<>>
      \/ LastNew(b) > last_index /\ Needed(b) = <<c>>
  BY <1>2, <1>3 DEF Needed, FirstNew, LastNew
<1>5. ASSUME LastNew(b) > last_index
      PROVE  c \in CommandType /\ ~c.flag /\ c.idx = FirstNew(b)
             /\ c.idx + c.size = LastNew(b) + 2
  <2>1. FirstNew(b) \in Nat /\ FirstNew(b) <= LastNew(b) + 2
    BY <1>2, <1>3, <1>5 DEF FirstNew
  <2>2. /\ c.idx \in Nat /\ c.size \in Nat /\ c.flag = FALSE
        /\ c \in [idx : Nat, size : Nat, flag : BOOLEAN]
        /\ c.idx = FirstNew(b) /\ c.idx + c.size = LastNew(b) + 2
    BY <1>2, <2>1 DEF Command
  <2>. DEFINE n == LastNew(b)
  <2>3. n * Burst <= b.hi + Margin
    <3>1. n * Burst <= Line(b.hi + Margin) /\ Line(b.hi + Margin) <= b.hi + Margin
          /\ Line(b.hi + Margin) \in Nat
      BY <1>1, IndexFacts, LineFacts DEF LastNew
    <3>2. n * Burst \in Nat
      BY <1>2, Sizes
    <3>. HIDE DEF n
    <3>. QED  BY <1>1, <3>1, <3>2
  <2>4. n \in Nat
    BY <1>2
  <2>. HIDE DEF n
  <2>5. (n + 2) * Burst = n * Burst + 2 * Burst /\ n * Burst \in Nat
    BY <2>4, Sizes
  <2>6. (n + 2) * Burst <= MaxLine
    BY <1>1, <2>3, <2>5, Sizes DEF MaxLine
  <2>7. Stop(c) = (n + 2) * Burst
    BY <2>2 DEF Stop, n
  <2>. HIDE DEF c
  <2>. QED  BY <2>2, <2>6, <2>7 DEF CommandType
<1>. QED  BY <1>2, <1>4, <1>5

\* The command that ends the stream asks for nothing, or again for what the
\* command before it asked for.
LEMMA EndCommandFacts ==
  ASSUME NEW cmds \in Seq(CommandType), NEW e \in EndCommands(cmds)
  PROVE  e \in CommandType /\ e.flag /\ (cmds = <<>> => e.idx = 0 /\ e.size = 0)
<1>1. CASE e = [idx |-> 0, size |-> 0, flag |-> TRUE]
  <2>1. Stop(e) = 0 /\ MaxLine >= 0
    <3>1. (0 + 0) * Burst = 0
      BY Sizes
    <3>2. MaxLine >= 0
      BY Sizes, CacheAssumption DEF MaxLine
    <3>. QED  BY <1>1, <3>1, <3>2 DEF Stop
  <2>. QED  BY <1>1, <2>1 DEF CommandType
<1>2. ASSUME NEW k \in {Len(cmds)} \cap DOMAIN cmds,
             e = [cmds[k] EXCEPT !.flag = TRUE]
      PROVE  e \in CommandType /\ e.flag /\ cmds # <<>>
  <2>1. cmds[k] \in CommandType /\ cmds # <<>>
    OBVIOUS
  <2>2. /\ e \in [idx : Nat, size : Nat, flag : BOOLEAN] /\ e.flag
        /\ e.idx = cmds[k].idx /\ e.size = cmds[k].size
    BY <1>2, <2>1 DEF CommandType
  <2>3. Stop(e) = Stop(cmds[k])
    BY <2>2 DEF Stop
  <2>. QED  BY <2>1, <2>2, <2>3 DEF CommandType
<1>. QED  BY <1>1, <1>2 DEF EndCommands

LEMMA MapCommand ==
  ASSUME InputInv, CountInv, CommandInv, Map
  PROVE  CommandInv'
<1>1. CASE MapRead
  <2>. DEFINE b == Data(mapped + 1)
              cmds == Needed(b)
  <2>1. IsBlock(b) /\ last_index \in {NoIndex} \cup Nat
    BY DataFacts DEF CountInv, CommandInv
  <2>2. cmds \in Seq(CommandType) /\ Len(cmds) <= 1
    <3>. DEFINE c == Command(FirstNew(b), LastNew(b))
    <3>1. cmds = <<>> \/ (cmds = <<c>> /\ c \in CommandType)
      BY <2>1, NeededFacts
    <3>. HIDE DEF c, cmds
    <3>2. CASE cmds = <<>>
      BY <3>2
    <3>3. ASSUME cmds = <<c>>, c \in CommandType
          PROVE  cmds \in Seq(CommandType) /\ Len(cmds) <= 1
      BY <3>3
    <3>. QED  BY <3>1, <3>2, <3>3
  <2>3. last_index' \in {NoIndex} \cup Nat
    <3>1. LastNew(b) + 1 \in Nat
      BY <2>1, NeededFacts
    <3>2. last_index' = last_index \/ last_index' = LastNew(b) + 1
      BY <1>1 DEF MapRead, LastNew
    <3>. QED  BY <2>1, <3>1, <3>2
  <2>4. issuing' = cmds \/ \E e \in EndCommands(cmds) : issuing' = Append(cmds, e)
    BY <1>1 DEF MapRead
  <2>. HIDE DEF cmds, b
  <2>5. issuing' \in Seq(CommandType) /\ Len(issuing') <= 2
    <3>1. ASSUME NEW e \in EndCommands(cmds), issuing' = Append(cmds, e)
          PROVE  issuing' \in Seq(CommandType) /\ Len(issuing') <= 2
      <4>1. e \in CommandType
        BY <2>2, EndCommandFacts
      <4>. QED  BY <2>2, <3>1, <4>1
    <3>. QED  BY <2>2, <2>4, <3>1
  <2>6. cmdStream' = cmdStream
    BY <1>1 DEF MapRead
  <2>. QED  BY <2>3, <2>5, <2>6 DEF CommandInv
<1>2. CASE MapWrite
  <2>1. /\ Head(issuing) \in CommandType /\ Tail(issuing) \in Seq(CommandType)
        /\ Len(Tail(issuing)) <= 2
    BY <1>2 DEF MapWrite, CommandInv
  <2>2. Append(cmdStream, Head(issuing)) \in Seq(CommandType)
        /\ Len(Append(cmdStream, Head(issuing))) <= CmdDepth
    BY <1>2, <2>1, CacheAssumption DEF MapWrite, CommandInv
  <2>. QED  BY <1>2, <2>1, <2>2 DEF MapWrite, CommandInv
<1>. QED  BY <1>1, <1>2 DEF Map

\* Commands begin and end at lines.
LEMMA CommandLines ==
  ASSUME NEW c \in CommandType
  PROVE  /\ Start(c) \in Nat /\ Stop(c) \in Nat /\ Start(c) <= Stop(c)
         /\ Start(c) % LineSize = 0 /\ Stop(c) % LineSize = 0
         /\ Stop(c) <= MaxLine
<1>1. c.idx \in Nat /\ c.size \in Nat /\ Stop(c) <= MaxLine
  BY DEF CommandType
<1>2. /\ LineSize \in Nat \ {0} /\ BurstLines \in Nat \ {0}
      /\ Burst \in Nat \ {0}
  BY Sizes
<1>3. ASSUME NEW i \in Nat
      PROVE  i * Burst \in Nat /\ (i * Burst) % LineSize = 0
  <2>1. i * Burst = (i * BurstLines) * LineSize /\ i * BurstLines \in Nat
    BY <1>2 DEF Burst
  <2>2. ((i * BurstLines) * LineSize) % LineSize = 0
    BY <1>2, <2>1, MultipleMod, Zenon
  <2>3. i * Burst \in Nat
    BY <1>2
  <2>. QED  BY <2>1, <2>2, <2>3, Zenon
<1>4. c.idx + c.size \in Nat /\ c.idx <= c.idx + c.size
  BY <1>1
<1>5. c.idx * Burst <= (c.idx + c.size) * Burst
  BY <1>1, <1>2, <1>4, MulMono
<1>. QED  BY <1>1, <1>3, <1>4, <1>5, Zenon DEF Start, Stop

LEMMA FetchFetch ==
  ASSUME CommandInv, FetchInv, Fetch
  PROVE  FetchInv' /\ CommandInv' /\ (EndSent => EndSent')
<1>0. LineSize \in Nat \ {0}
  BY Sizes
<1>1. CASE FetchCommand
  <2>. DEFINE c == Head(cmdStream)
  <2>1. c \in CommandType /\ Tail(cmdStream) \in Seq(CommandType)
        /\ Len(Tail(cmdStream)) <= CmdDepth
    BY <1>1, CacheAssumption DEF FetchCommand, CommandInv
  <2>2. fetch' = [at |-> Start(c), stop |-> Stop(c), end |-> c.flag]
    BY <1>1 DEF FetchCommand, Start, Stop
  <2>3. cmdStream' = Tail(cmdStream) /\ UNCHANGED <<last_index, issuing>>
    BY <1>1 DEF Fetch, FetchCommand, cmdVars
  <2>4. c.flag \in BOOLEAN
    BY <2>1 DEF CommandType
  <2>5. ~EndSent
    BY <1>1 DEF FetchCommand, EndSent, FetchInv
  <2>. HIDE DEF c
  <2>6. FetchInv'
    BY <2>1, <2>2, <2>4, CommandLines DEF FetchInv, EndSent
  <2>7. CommandInv'
    BY <2>1, <2>3 DEF CommandInv
  <2>. QED  BY <2>5, <2>6, <2>7
<1>2. CASE SendLine
  <2>1. /\ fetch' = [fetch EXCEPT !.at = @ + LineSize] /\ fetch.at < fetch.stop
        /\ UNCHANGED <<cmdStream, last_index, issuing>>
    BY <1>2 DEF Fetch, SendLine, cmdVars
  <2>2. /\ fetch.at \in Nat /\ fetch.stop \in Nat /\ ~EndSent
        /\ fetch.at % LineSize = 0 /\ fetch.stop % LineSize = 0
    BY <2>1 DEF FetchInv, EndSent
  <2>3. fetch.at + LineSize <= fetch.stop /\ (fetch.at + LineSize) % LineSize = 0
    BY <1>0, <2>1, <2>2, MultipleStep
  <2>4. /\ fetch'.at = fetch.at + LineSize /\ fetch'.stop = fetch.stop
        /\ fetch' \in [at : Nat, stop : Nat, end : BOOLEAN]
    BY <1>0, <2>1, <2>2 DEF FetchInv
  <2>. QED
    BY <1>0, <2>1, <2>2, <2>3, <2>4 DEF FetchInv, EndSent, CommandInv
<1>3. CASE SendEndLine
  <2>1. /\ fetch' = [fetch EXCEPT !.at = @ + 1] /\ fetch.at = fetch.stop
        /\ fetch.end /\ UNCHANGED <<cmdStream, last_index, issuing>>
    BY <1>3 DEF Fetch, SendEndLine, cmdVars
  <2>2. /\ fetch'.at = fetch.at + 1 /\ fetch'.stop = fetch.stop
        /\ fetch'.end /\ fetch' \in [at : Nat, stop : Nat, end : BOOLEAN]
    <3>1. fetch \in [at : Nat, stop : Nat, end : BOOLEAN]
      BY DEF FetchInv
    <3>2. /\ fetch'.at = fetch.at + 1 /\ fetch'.stop = fetch.stop
          /\ fetch' \in [at : Nat, stop : Nat, end : BOOLEAN]
      BY <2>1, <3>1
    <3>3. fetch'.end
      BY <2>1, <3>1
    <3>. QED  BY <3>2, <3>3
  <2>3. fetch.at \in Nat
    BY DEF FetchInv
  <2>. QED  BY <2>1, <2>2, <2>3 DEF FetchInv, EndSent, CommandInv
<1>. QED  BY <1>1, <1>2, <1>3 DEF Fetch

LEMMA NextCommandFetch ==
  /\ InputInv /\ CountInv /\ CommandInv /\ FetchInv /\ [Next]_vars
  => CommandInv' /\ FetchInv'
<1>. SUFFICES ASSUME InputInv, CountInv, CommandInv, FetchInv, [Next]_vars
              PROVE  CommandInv' /\ FetchInv'
  OBVIOUS
<1>1. CASE Map
  <2>1. UNCHANGED fetch
    BY <1>1 DEF Map
  <2>. QED  BY <1>1, <2>1, MapCommand DEF FetchInv, EndSent
<1>2. CASE Fetch
  BY <1>2, FetchFetch
<1>3. CASE Duplicate \/ Delay \/ Merge \/ Iterate \/ Drain \/ Finished \/ UNCHANGED vars
  <2>1. UNCHANGED <<fetch, last_index, cmdStream, issuing>>
    BY <1>3 DEF Duplicate, Delay, Merge, Iterate, Drain, Finished, vars, cmdVars
  <2>. QED  BY <2>1 DEF FetchInv, CommandInv, EndSent
<1>. QED  BY <1>1, <1>2, <1>3 DEF Next
-----------------------------------------------------------------------------
(***************************************************************************)
(* The lines sent and the cache.                                           *)
(***************************************************************************)

RealLines == {x \in 0 .. MaxLine : x % LineSize = 0}
CacheSlots == 0 .. (CacheSize \div LineSize - 1)

\* The end line is the last one, and is never put in the cache.
LineInv ==
  /\ cacheStream \in Seq(RealLines \cup {EndLine})
  /\ Len(cacheStream) <= LineDepth
  /\ \A k \in DOMAIN cacheStream :
       cacheStream[k] = EndLine => EndSent /\ k = Len(cacheStream)
  /\ held \in RealLines \cup {NoLine, EndLine}
  /\ held = EndLine => EndSent /\ cacheStream = <<>>
  /\ caching_value = IF held = NoLine THEN 0 ELSE held
  /\ vertexPropCache \in [CacheSlots -> RealLines \cup {NoLine}]

RegisterInv == processing_value \in Nat /\ min_processing_value \in Nat

LEMMA EndLineFacts ==
  /\ EndLine = MaxLine + 1 /\ MaxLine \in Nat /\ EndLine \notin RealLines
  /\ EndLine # NoLine /\ NoLine \notin RealLines /\ EndLine \in Nat
<1>1. EndLine = MaxLine + 1 /\ MaxLine \in Nat
  <2>1. Margin + 3 * Burst <= ENDFLAG
    BY CacheAssumption
  <2>. QED  BY <2>1, Sizes DEF EndLine, MaxLine
<1>. QED  BY <1>1 DEF RealLines, NoLine

\* A line sent goes behind those on their way.
LEMMA AppendLine ==
  ASSUME LineInv, NEW l \in RealLines \cup {EndLine}, Len(cacheStream) < LineDepth,
         cacheStream' = Append(cacheStream, l), ~EndSent,
         l = EndLine => EndSent',
         UNCHANGED <<held, caching_value, vertexPropCache>>
  PROVE  LineInv'
<1>1. /\ Len(cacheStream') = Len(cacheStream) + 1 /\ Len(cacheStream) \in Nat
      /\ DOMAIN cacheStream' = 1 .. Len(cacheStream')
      /\ DOMAIN cacheStream = 1 .. Len(cacheStream)
      /\ \A k \in 1 .. Len(cacheStream) : cacheStream'[k] = cacheStream[k]
      /\ cacheStream'[Len(cacheStream) + 1] = l
      /\ cacheStream' \in Seq(RealLines \cup {EndLine})
  BY DEF LineInv
<1>2. ASSUME NEW k \in DOMAIN cacheStream', cacheStream'[k] = EndLine
      PROVE  EndSent' /\ k = Len(cacheStream')
  <2>1. CASE k \in DOMAIN cacheStream
    BY <1>1, <1>2, <2>1 DEF LineInv
  <2>2. CASE k = Len(cacheStream) + 1
    BY <1>1, <1>2, <2>2
  <2>. QED  BY <1>1, <2>1, <2>2
<1>3. Len(cacheStream') <= LineDepth
  BY <1>1, CacheAssumption
<1>4. held # EndLine
  BY DEF LineInv
<1>. QED  BY <1>1, <1>2, <1>3, <1>4 DEF LineInv

LEMMA FetchLine ==
  ASSUME CommandInv, FetchInv, LineInv, Fetch
  PROVE  LineInv'
<1>0. UNCHANGED <<held, caching_value, vertexPropCache>>
      /\ (EndSent => EndSent')
  BY FetchFetch DEF Fetch, readVars
<1>1. CASE FetchCommand
  <2>1. cacheStream' = cacheStream
    BY <1>1 DEF FetchCommand
  <2>. QED  BY <1>0, <2>1 DEF LineInv
<1>2. CASE SendLine
  <2>1. /\ fetch.at < fetch.stop /\ fetch.at \in Nat /\ fetch.stop \in Nat
        /\ fetch.stop <= MaxLine /\ ~EndSent /\ fetch.at % LineSize = 0
    BY <1>2 DEF SendLine, FetchInv, EndSent
  <2>2. fetch.at \in RealLines
    BY <2>1, EndLineFacts DEF RealLines
  <2>. QED  BY <1>0, <1>2, <2>1, <2>2, EndLineFacts, AppendLine DEF SendLine
<1>3. CASE SendEndLine
  <2>1. ~EndSent
    BY <1>3 DEF SendEndLine, FetchInv, EndSent
  <2>2. EndSent'
    BY <1>3 DEF SendEndLine, FetchInv, EndSent
  <2>. QED  BY <1>0, <1>3, <2>1, <2>2, AppendLine DEF SendEndLine
<1>. QED  BY <1>1, <1>2, <1>3 DEF Fetch

\* Taking the first line off the stream.
LEMMA TailLine ==
  ASSUME LineInv, cacheStream # <<>>, cacheStream' = Tail(cacheStream),
         EndSent' <=> EndSent
  PROVE  /\ cacheStream' \in Seq(RealLines \cup {EndLine})
         /\ Len(cacheStream') <= LineDepth
         /\ \A k \in DOMAIN cacheStream' :
              cacheStream'[k] = EndLine => EndSent' /\ k = Len(cacheStream')
         /\ Head(cacheStream) \in RealLines \cup {EndLine}
         /\ Head(cacheStream) = EndLine => EndSent /\ cacheStream' = <<>>
         /\ held # EndLine
<1>1. /\ Len(cacheStream) \in Nat /\ DOMAIN cacheStream = 1 .. Len(cacheStream)
      /\ Len(cacheStream') = Len(cacheStream) - 1
      /\ DOMAIN cacheStream' = 1 .. Len(cacheStream')
      /\ \A k \in 1 .. Len(cacheStream') : cacheStream'[k] = cacheStream[k + 1]
      /\ Head(cacheStream) = cacheStream[1] /\ 1 \in DOMAIN cacheStream
      /\ cacheStream' \in Seq(RealLines \cup {EndLine})
      /\ Head(cacheStream) \in RealLines \cup {EndLine}
  BY DEF LineInv
<1>2. Len(cacheStream') <= LineDepth
  BY <1>1, CacheAssumption DEF LineInv
<1>3. ASSUME NEW k \in DOMAIN cacheStream', cacheStream'[k] = EndLine
      PROVE  EndSent' /\ k = Len(cacheStream')
  <2>1. k + 1 \in DOMAIN cacheStream /\ cacheStream[k + 1] = EndLine
    BY <1>1, <1>3
  <2>2. EndSent /\ k + 1 = Len(cacheStream)
    BY <2>1 DEF LineInv
  <2>. QED  BY <1>1, <2>2
<1>4. Head(cacheStream) = EndLine => EndSent /\ cacheStream' = <<>>
  <2>1. Head(cacheStream) = EndLine => EndSent /\ Len(cacheStream) = 1
    BY <1>1 DEF LineInv
  <2>2. Len(cacheStream) = 1 => cacheStream' = <<>>
    BY <1>1
  <2>. QED  BY <2>1, <2>2
<1>5. held # EndLine
  BY DEF LineInv
<1>. QED  BY <1>1, <1>2, <1>3, <1>4, <1>5

LEMMA IterateLine ==
  ASSUME LineInv, Iterate
  PROVE  LineInv'
<1>1. EndSent' <=> EndSent
  BY DEF Iterate, EndSent
<1>2. CASE UNCHANGED <<caching_value, held, cacheStream, vertexPropCache>>
  BY <1>1, <1>2 DEF LineInv
<1>3. CASE Window
  <2>1. /\ cacheStream # <<>> /\ cacheStream' = Tail(cacheStream)
        /\ caching_value' = Head(cacheStream) /\ held' = Head(cacheStream)
        /\ vertexPropCache' = IF held = NoLine THEN vertexPropCache
                              ELSE [vertexPropCache EXCEPT ![Slot(held)] = held]
    BY <1>3 DEF Iterate, TakeLine, Window
  <2>2. /\ held # EndLine /\ held' \in RealLines \cup {EndLine}
        /\ held' = EndLine => EndSent' /\ cacheStream' = <<>>
    BY <1>1, <2>1, TailLine
  <2>3. held \in RealLines \cup {NoLine}
    BY <2>2 DEF LineInv
  <2>4. vertexPropCache' \in [CacheSlots -> RealLines \cup {NoLine}]
    BY <2>1, <2>3 DEF LineInv
  <2>5. caching_value' = IF held' = NoLine THEN 0 ELSE held'
    BY <2>1, <2>2, EndLineFacts
  <2>6. /\ cacheStream' \in Seq(RealLines \cup {EndLine})
        /\ Len(cacheStream') <= LineDepth
        /\ \A k \in DOMAIN cacheStream' :
             cacheStream'[k] = EndLine => EndSent' /\ k = Len(cacheStream')
    BY <1>1, <2>1, TailLine
  <2>. QED  BY <2>2, <2>4, <2>5, <2>6 DEF LineInv
<1>. QED  BY <1>2, <1>3 DEF Iterate, TakeLine

LEMMA DrainLine ==
  ASSUME LineInv, Drain
  PROVE  LineInv'
<1>1. /\ EndSent' <=> EndSent
      /\ cacheStream # <<>> /\ cacheStream' = Tail(cacheStream)
      /\ UNCHANGED <<held, caching_value, vertexPropCache>>
  BY DEF Drain, EndSent, readVars
<1>. QED  BY <1>1, TailLine DEF LineInv

LEMMA NextLine ==
  CommandInv /\ FetchInv /\ LineInv /\ [Next]_vars => LineInv'
<1>. SUFFICES ASSUME CommandInv, FetchInv, LineInv, [Next]_vars  PROVE LineInv'
  OBVIOUS
<1>1. CASE Duplicate \/ Delay \/ Merge \/ Map \/ Finished \/ UNCHANGED vars
  <2>1. UNCHANGED <<cacheStream, held, caching_value, vertexPropCache, fetch>>
    BY <1>1 DEF Duplicate, Delay, Merge, Map, Finished, vars, readVars
  <2>. QED  BY <2>1 DEF LineInv, EndSent
<1>. QED  BY <1>1, FetchLine, IterateLine, DrainLine DEF Next

LEMMA NextRegister == InputInv /\ CountInv /\ RegisterInv /\ [Next]_vars => RegisterInv'
<1>. SUFFICES ASSUME InputInv, CountInv, RegisterInv, [Next]_vars  PROVE RegisterInv'
  OBVIOUS
<1>1. CASE Iterate
  <2>1. IsBlock(Data(blocks + 1))
    BY DataFacts DEF CountInv
  <2>. QED  BY <1>1, <2>1 DEF Iterate, TakeBlock, IsBlock, RegisterInv
<1>2. CASE ~Iterate
  BY <1>2 DEF Next, vars, Duplicate, Delay, Merge, Map, Fetch, Drain, Finished,
              readVars, RegisterInv
<1>. QED  BY <1>1, <1>2
-----------------------------------------------------------------------------
(***************************************************************************)
(* Types.                                                                  *)
(***************************************************************************)

TypeInv == /\ InputInv /\ CountInv /\ FlagInv /\ CommandInv /\ FetchInv
           /\ LineInv /\ RegisterInv

LEMMA InitTypeInv == Init => TypeInv
<1>. SUFFICES ASSUME Init  PROVE TypeInv
  OBVIOUS
<1>1. InputInv
  BY DEF Init, InputInv
<1>2. CountInv
  BY <1>1, InputFacts, CacheAssumption DEF Init, CountInv
<1>3. FlagInv
  BY DEF Init, FlagInv
<1>4. CommandInv
  <2>1. /\ <<>> \in Seq(CommandType) /\ Len(<<>>) = 0
    BY EmptySeq
  <2>. QED  BY <2>1, CacheAssumption DEF Init, CommandInv
<1>5. FetchInv
  <2>1. 0 % LineSize = 0 /\ 0 <= MaxLine
    BY Sizes, EndLineFacts
  <2>. QED  BY <2>1 DEF Init, FetchInv, Idle, EndSent
<1>6. LineInv
  <2>1. <<>> \in Seq(RealLines \cup {EndLine}) /\ Len(<<>>) = 0
    BY EmptySeq
  <2>2. /\ cacheStream = <<>> /\ held = NoLine /\ caching_value = 0
        /\ vertexPropCache = [s \in CacheSlots |-> NoLine]
    BY DEF Init, CacheSlots
  <2>. QED  BY <2>1, <2>2, CacheAssumption, EndLineFacts DEF LineInv
<1>7. RegisterInv
  BY DEF Init, RegisterInv
<1>. QED  BY <1>1, <1>2, <1>3, <1>4, <1>5, <1>6, <1>7 DEF TypeInv

LEMMA NextTypeInv == TypeInv /\ [Next]_vars => TypeInv'
<1>. SUFFICES ASSUME TypeInv, [Next]_vars  PROVE TypeInv'
  OBVIOUS
<1>. USE DEF TypeInv
<1>1. InputInv'
  BY InputNext DEF InputInv
<1>. QED
  BY <1>1, NextCount, NextFlag, NextCommandFetch, NextLine, NextRegister

LEMMA TypeInvSuffices == TypeInv => TypeOK
<1>. SUFFICES ASSUME TypeInv  PROVE TypeOK
  OBVIOUS
<1>1. /\ input \in Inputs
      /\ EndToken \in Nat
  BY InputFacts DEF TypeInv, InputInv
<1>2. /\ Counters \subseteq 0 .. EndToken + 1
      /\ blocks <= merged /\ merged - blocks <= StreamDepth
      /\ taken <= gw_counter /\ gw_counter - taken <= StreamDepth
      /\ gw_counter <= gr_counter /\ gr_counter - gw_counter < PoolSize
      /\ gr_counter <= dup1 /\ dup1 - gr_counter <= StreamDepth
      /\ mapped <= dup2 /\ dup2 - mapped <= StreamDepth
  <2>1. CountInv
    BY DEF TypeInv
  <2>. QED  BY <1>1, <2>1 DEF CountInv, Counters
<1>3. /\ end_flag \in BOOLEAN /\ break_flag \in BOOLEAN
      /\ delaying \in {"loop", "flush", "done"}
  BY DEF TypeInv, FlagInv
<1>4. /\ last_index \in {NoIndex} \cup Nat
      /\ Len(cmdStream) <= CmdDepth /\ Len(issuing) <= 2
  BY DEF TypeInv, CommandInv
<1>5. RealLines \subseteq Lines
  <2>1. MaxLine <= ENDFLAG /\ MaxLine \in Nat /\ ENDFLAG \in Nat
    BY Sizes, EndLineFacts DEF MaxLine
  <2>. QED  BY <2>1 DEF RealLines, Lines
<1>6. 0 \in Lines
  BY Sizes DEF Lines
<1>7. LineInv
  BY DEF TypeInv
<1>8. held \in {NoLine, EndLine} \cup Lines
  BY <1>5, <1>7 DEF LineInv
<1>9. caching_value \in {EndLine} \cup Lines
  BY <1>5, <1>6, <1>7 DEF LineInv
<1>10. vertexPropCache \in [CacheSlots -> {NoLine} \cup Lines]
  BY <1>5, <1>7 DEF LineInv
<1>11. Len(cacheStream) <= LineDepth
  BY <1>7 DEF LineInv
<1>12. processing_value \in Nat /\ min_processing_value \in Nat
  BY DEF TypeInv, RegisterInv
<1>. QED
  BY <1>1, <1>2, <1>3, <1>4, <1>8, <1>9, <1>10, <1>11, <1>12, Zenon
  DEF TypeOK, CacheSlots

LEMMA TypeInvariant == Spec => []TypeInv
  BY InitTypeInv, NextTypeInv, PTL DEF Spec

\* Types, and the bounds every stream and buffer keeps: the ring of the delay
\* is never overwritten, no stream exceeds its depth, no line lies beyond the
\* end line, and the end line never enters the cache.
THEOREM BuffersBounded == Spec => []TypeOK
  BY TypeInvariant, TypeInvSuffices, PTL
-----------------------------------------------------------------------------
(***************************************************************************)
(* Commands and lines come in ascending order.                             *)
(***************************************************************************)

Loaded == input # <<>>

\* The commands not yet carried out, and the end of the last burst asked for.
Cmds     == cmdStream \o issuing
Frontier == (last_index + 1) * Burst

\* The look-ahead of every block read has been asked for; commands ascend, lie
\* between the fetch and the frontier, and the one with the flag is empty and
\* the last.
Asked ==
  \A k \in DOMAIN input : k <= mapped => Index(input[k].hi + Margin) <= last_index

CmdOrder ==
  \A i, j \in DOMAIN Cmds :
    i < j => ~Cmds[i].flag /\ (~Cmds[j].flag => Stop(Cmds[i]) <= Start(Cmds[j]))

CmdRange ==
  \A i \in DOMAIN Cmds :
    IF Cmds[i].flag
    THEN mapped = EndToken /\ Cmds[i].idx = 0 /\ Cmds[i].size = 0
    ELSE fetch.stop <= Start(Cmds[i]) /\ Stop(Cmds[i]) <= Frontier

FetchRange ==
  IF fetch.end
  THEN Cmds = <<>> /\ mapped = EndToken /\ fetch.stop = 0
  ELSE fetch.stop <= Frontier /\ fetch.at <= fetch.stop

ChainInv == Loaded => Asked /\ CmdOrder /\ CmdRange /\ FetchRange

LEMMA CmdsType ==
  ASSUME CommandInv
  PROVE  /\ Cmds \in Seq(CommandType) /\ Len(Cmds) \in Nat
         /\ DOMAIN Cmds = 1 .. Len(Cmds)
         /\ \A k \in DOMAIN Cmds : Cmds[k] \in CommandType
<1>1. Cmds \in Seq(CommandType)
  BY DEF CommandInv, Cmds
<1>. QED  BY <1>1

LEMMA FrontierFacts ==
  ASSUME CommandInv
  PROVE  Frontier \in Nat /\ last_index \in Int /\ last_index >= -1
<1>1. last_index \in Int /\ last_index >= -1
  BY DEF CommandInv, NoIndex
<1>. QED  BY <1>1, Sizes DEF Frontier

\* Writing a command out leaves the commands to come as they are.
LEMMA CmdsWrite ==
  ASSUME CommandInv, MapWrite
  PROVE  Cmds' = Cmds
<1>. DEFINE h == Head(issuing)
            t == Tail(issuing)
<1>1. /\ cmdStream \in Seq(CommandType) /\ issuing \in Seq(CommandType)
      /\ issuing # <<>> /\ cmdStream' = Append(cmdStream, h) /\ issuing' = t
  BY DEF MapWrite, CommandInv
<1>2. h \in CommandType /\ t \in Seq(CommandType) /\ issuing = <<h>> \o t
  BY <1>1
<1>3. <<h>> \in Seq(CommandType) /\ Append(cmdStream, h) = cmdStream \o <<h>>
  BY <1>1, <1>2
<1>. HIDE DEF h, t
<1>4. (cmdStream \o <<h>>) \o t = cmdStream \o (<<h>> \o t)
  BY <1>1, <1>2, <1>3, ConcatAssociative
<1>. QED  BY <1>1, <1>2, <1>3, <1>4, Zenon DEF Cmds

\* Reading a token adds at most one command, when the list has blocks: those
\* of a block from the first new burst on, or the empty one that ends.
LEMMA CmdsRead ==
  ASSUME InputInv, CountInv, CommandInv, ChainInv, Loaded, MapRead,
         NEW b, b = Data(mapped + 1),
         NEW c, c = Command(FirstNew(b), LastNew(b))
  PROVE  \/ /\ mapped + 1 # EndToken /\ LastNew(b) <= last_index
            /\ Cmds' = Cmds /\ last_index' = last_index
         \/ /\ mapped + 1 # EndToken /\ LastNew(b) > last_index
            /\ Cmds' = Append(Cmds, c) /\ last_index' = LastNew(b) + 1
         \/ /\ mapped + 1 = EndToken /\ last_index' = last_index
            /\ \E e \in CommandType : /\ e.flag /\ e.idx = 0 /\ e.size = 0
                                      /\ Cmds' = Append(Cmds, e)
<1>0. mapped \in Nat /\ mapped + 1 \in Nat \ {0}
  BY DEF CountInv
<1>1. /\ last_index \in {NoIndex} \cup Nat
      /\ cmdStream \in Seq(CommandType) /\ issuing = <<>>
      /\ cmdStream' = cmdStream /\ last_index \in Int
  BY FrontierFacts DEF CommandInv, MapRead
<1>2. Cmds = cmdStream /\ Cmds' = cmdStream \o issuing'
  BY <1>1, ConcatEmptySeq DEF Cmds
<1>3. IsBlock(b)
  BY <1>0, DataFacts
<1>4. /\ LastNew(b) \in Nat
      /\ \/ LastNew(b) <= last_index /\ Needed(b) = <<>>
         \/ LastNew(b) > last_index /\ Needed(b) = <<c>> /\ c \in CommandType
  BY <1>1, <1>3, NeededFacts
<1>5. /\ last_index' = IF Needed(b) = <<>> THEN last_index ELSE LastNew(b) + 1
      /\ mapped + 1 # EndToken => issuing' = Needed(b)
      /\ mapped + 1 = EndToken =>
           \E e \in EndCommands(Needed(b)) : issuing' = Append(Needed(b), e)
  BY DEF MapRead, LastNew
<1>6. CASE mapped + 1 = EndToken
  <2>1. mapped = Len(input) /\ Len(input) \in DOMAIN input
    <3>1. /\ Len(input) \in Nat /\ EndToken = Len(input) + 1
          /\ Len(input) \in DOMAIN input
      BY InputFacts DEF Loaded
    <3>. QED  BY <1>0, <1>6, <3>1
  <2>. DEFINE z == input[Len(input)]
  <2>2. IsBlock(z) /\ Index(z.hi + Margin) <= last_index
    BY <1>0, <2>1, InputFacts DEF ChainInv, Asked
  <2>3. b = endData
    BY <1>0, <1>6, <2>1, InputFacts DEF Data
  <2>4. b = [lo |-> 0, hi |-> 0] \/ b = z
    BY <2>3 DEF InputInv
  <2>. HIDE DEF z
  <2>5. /\ b.hi + Margin \in Nat /\ z.hi + Margin \in Nat
        /\ b.hi + Margin <= z.hi + Margin
    <3>1. z.hi \in Nat /\ b.hi \in Nat
      BY <1>3, <2>2 DEF IsBlock
    <3>2. b.hi <= z.hi
      BY <2>4, <3>1
    <3>. QED  BY <3>1, <3>2, Sizes
  <2>6. LastNew(b) <= last_index
    <3>1. /\ Index(b.hi + Margin) <= Index(z.hi + Margin)
          /\ Index(z.hi + Margin) \in Nat /\ Index(b.hi + Margin) \in Nat
      BY <2>5, IndexMono, IndexFacts
    <3>. QED  BY <1>1, <2>2, <3>1 DEF LastNew
  <2>7. Needed(b) = <<>>
    BY <1>1, <1>4, <2>6
  <2>8. PICK e \in EndCommands(<<>>) : issuing' = Append(<<>>, e)
    BY <1>5, <1>6, <2>7, Zenon
  <2>11. Append(<<>>, e) = <<e>>
    OBVIOUS
  <2>9. e \in CommandType /\ e.flag /\ e.idx = 0 /\ e.size = 0
    BY EmptySeq, EndCommandFacts
  <2>10. Cmds' = Append(Cmds, e)
    BY <1>1, <1>2, <2>8, <2>9, <2>11, AppendIsConcat
  <2>. QED  BY <1>5, <1>6, <2>7, <2>9, <2>10
<1>7. CASE mapped + 1 # EndToken
  <2>1. CASE LastNew(b) <= last_index /\ Needed(b) = <<>>
    <3>1. Cmds' = Cmds
      BY <1>1, <1>2, <1>5, <1>7, <2>1, ConcatEmptySeq
    <3>. QED  BY <1>5, <1>7, <2>1, <3>1, Zenon
  <2>2. CASE LastNew(b) > last_index /\ Needed(b) = <<c>> /\ c \in CommandType
    <3>1. Cmds' = Append(Cmds, c)
      BY <1>1, <1>2, <1>5, <1>7, <2>2, AppendIsConcat
    <3>2. Needed(b) # <<>>
      <4>1. <<c>> # <<>>
        OBVIOUS
      <4>. QED  BY <2>2, <4>1, Zenon
    <3>. QED  BY <1>5, <1>7, <2>2, <3>1, <3>2, Zenon
  <2>. QED  BY <1>4, <2>1, <2>2
<1>. QED  BY <1>6, <1>7

\* A sequence with one more entry, or one less, entry by entry.
LEMMA AppendEntries ==
  ASSUME NEW S, NEW s \in Seq(S), NEW e \in S, NEW t, t = Append(s, e)
  PROVE  /\ Len(s) \in Nat /\ Len(t) = Len(s) + 1
         /\ DOMAIN s = 1 .. Len(s) /\ DOMAIN t = 1 .. Len(t)
         /\ \A k \in DOMAIN s : k \in DOMAIN t /\ t[k] = s[k]
         /\ t[Len(s) + 1] = e /\ Len(s) + 1 \in DOMAIN t
         /\ \A k \in DOMAIN t : k \in DOMAIN s \/ k = Len(s) + 1
<1>1. /\ Len(s) \in Nat /\ Len(t) = Len(s) + 1
      /\ DOMAIN s = 1 .. Len(s) /\ DOMAIN t = 1 .. Len(t)
      /\ \A k \in 1 .. Len(s) : t[k] = s[k]
      /\ t[Len(s) + 1] = e
  OBVIOUS
<1>. QED  BY <1>1

LEMMA TailEntries ==
  ASSUME NEW S, NEW s \in Seq(S), s # <<>>, NEW t, t = Tail(s)
  PROVE  /\ Len(s) \in Nat /\ Len(t) = Len(s) - 1
         /\ DOMAIN s = 1 .. Len(s) /\ DOMAIN t = 1 .. Len(t)
         /\ Head(s) = s[1] /\ 1 \in DOMAIN s
         /\ \A k \in DOMAIN t : k + 1 \in DOMAIN s /\ t[k] = s[k + 1]
         /\ \A k \in DOMAIN s : k = 1 \/ (k - 1 \in DOMAIN t /\ t[k - 1] = s[k])
<1>1. /\ Len(s) \in Nat /\ Len(t) = Len(s) - 1 /\ Len(s) >= 1
      /\ DOMAIN s = 1 .. Len(s) /\ DOMAIN t = 1 .. Len(t)
      /\ Head(s) = s[1]
      /\ \A k \in 1 .. Len(t) : t[k] = s[k + 1]
  OBVIOUS
<1>2. \A k \in DOMAIN t : k + 1 \in DOMAIN s /\ t[k] = s[k + 1]
  BY <1>1
<1>3. ASSUME NEW k \in DOMAIN s, k # 1
      PROVE  k - 1 \in DOMAIN t /\ t[k - 1] = s[k]
  <2>1. k - 1 \in DOMAIN t /\ (k - 1) + 1 = k
    BY <1>1, <1>3
  <2>. QED  BY <1>2, <2>1
<1>. QED  BY <1>1, <1>2, <1>3

LEMMA MapChain ==
  ASSUME InputInv, CountInv, CommandInv, FetchInv, ChainInv, Loaded, Map
  PROVE  ChainInv'
<1>. DEFINE b == Data(mapped + 1)
            c == Command(FirstNew(b), LastNew(b))
<1>1. /\ UNCHANGED <<input, fetch>> /\ Asked /\ CmdOrder /\ CmdRange /\ FetchRange
      /\ EndToken' = EndToken
  BY DEF Map, ChainInv, EndToken
<1>2. CASE MapWrite
  <2>1. Cmds' = Cmds /\ UNCHANGED <<mapped, last_index>>
    BY <1>2, CmdsWrite DEF MapWrite
  <2>. QED
    BY <1>1, <2>1
    DEF ChainInv, Asked, CmdOrder, CmdRange, FetchRange, Frontier
<1>3. CASE MapRead
  <2>1. /\ mapped \in Nat /\ mapped' = mapped + 1 /\ mapped # EndToken
        /\ mapped + 1 \in Nat \ {0}
    <3>1. EndToken \in Nat
      BY InputFacts
    <3>2. mapped < dup2 /\ mapped' = mapped + 1
      BY <1>3 DEF MapRead
    <3>3. /\ mapped \in Nat /\ dup2 \in Nat /\ dup1 \in Nat
          /\ dup2 <= dup1 /\ dup1 <= EndToken
      BY DEF CountInv
    <3>. QED  BY <3>1, <3>2, <3>3
  <2>2. ~fetch.end /\ \A i \in DOMAIN Cmds : ~Cmds[i].flag
    BY <1>1, <2>1 DEF FetchRange, CmdRange
  <2>3. /\ IsBlock(b) /\ last_index \in {NoIndex} \cup Nat
        /\ last_index \in Int /\ last_index >= -1
    BY <2>1, DataFacts, FrontierFacts DEF CommandInv
  <2>4. /\ LastNew(b) \in Nat /\ Index(b.lo) \in Nat
        /\ LastNew(b) > last_index =>
             /\ c \in CommandType /\ ~c.flag /\ c.idx = FirstNew(b)
             /\ c.idx + c.size = LastNew(b) + 2
    BY <2>3, NeededFacts
  <2>5. \/ /\ mapped + 1 # EndToken /\ LastNew(b) <= last_index
           /\ Cmds' = Cmds /\ last_index' = last_index
        \/ /\ mapped + 1 # EndToken /\ LastNew(b) > last_index
           /\ Cmds' = Append(Cmds, c) /\ last_index' = LastNew(b) + 1
        \/ /\ mapped + 1 = EndToken /\ last_index' = last_index
           /\ \E e \in CommandType : /\ e.flag /\ e.idx = 0 /\ e.size = 0
                                     /\ Cmds' = Append(Cmds, e)
    BY <1>3, CmdsRead
  <2>6. \A k \in DOMAIN input : k = mapped + 1 => LastNew(b) = Index(input[k].hi + Margin)
                                                  /\ mapped + 1 # EndToken
    <3>1. DOMAIN input = 1 .. Len(input) /\ EndToken = Len(input) + 1
          /\ Len(input) \in Nat
      BY InputFacts
    <3>. QED  BY <2>1, <3>1, DataFacts DEF LastNew
  <2>. HIDE DEF b, c
  <2>7. last_index' \in Int /\ last_index <= last_index'
    BY <2>3, <2>4, <2>5
  <2>8. Asked'
    <3>1. ASSUME NEW k \in DOMAIN input, k <= mapped + 1
          PROVE  Index(input[k].hi + Margin) <= last_index'
      <4>1. DOMAIN input = 1 .. Len(input) /\ Len(input) \in Nat /\ IsBlock(input[k])
        BY InputFacts
      <4>5. input[k].hi + Margin \in Nat
        <5>1. input[k].hi \in Nat
          BY <4>1 DEF IsBlock
        <5>. QED  BY <5>1, Sizes
      <4>2. Index(input[k].hi + Margin) \in Nat
        BY <4>5, IndexFacts
      <4>3. CASE k <= mapped
        BY <1>1, <2>3, <2>7, <4>2, <4>3 DEF Asked
      <4>4. CASE k = mapped + 1
        BY <2>3, <2>4, <2>5, <2>6, <4>4
      <4>. QED  BY <2>1, <3>1, <4>1, <4>3, <4>4
    <3>. QED  BY <1>1, <2>1, <3>1 DEF Asked
  <2>9. Frontier \in Nat /\ Frontier' \in Int /\ Frontier <= Frontier'
    <3>1. Frontier \in Nat /\ Burst \in Nat
      BY FrontierFacts, Sizes
    <3>3. last_index \in Int
      BY <2>3
    <3>2. ASSUME NEW i \in Int, NEW j \in Int, i <= j
          PROVE  (i + 1) * Burst <= (j + 1) * Burst /\ (j + 1) * Burst \in Int
      BY <3>1, <3>2, MulMono
    <3>. QED  BY <2>7, <3>1, <3>2, <3>3 DEF Frontier
  <2>10. /\ Cmds \in Seq(CommandType) /\ \A i \in DOMAIN Cmds : Cmds[i] \in CommandType
    BY CmdsType
  <2>11. ASSUME NEW i \in DOMAIN Cmds
         PROVE  fetch.stop <= Start(Cmds[i]) /\ Stop(Cmds[i]) <= Frontier'
                /\ Stop(Cmds[i]) \in Nat /\ Stop(Cmds[i]) <= Frontier
    <3>1. Stop(Cmds[i]) \in Nat
      BY <2>10, CommandLines
    <3>2. fetch.stop <= Start(Cmds[i]) /\ Stop(Cmds[i]) <= Frontier
      BY <1>1, <2>2 DEF CmdRange
    <3>. QED  BY <2>9, <3>1, <3>2
  <2>12. ASSUME Cmds' = Cmds
         PROVE  CmdOrder' /\ CmdRange'
    BY <1>1, <2>2, <2>11, <2>12 DEF CmdOrder, CmdRange
  <2>13. ASSUME LastNew(b) > last_index, Cmds' = Append(Cmds, c),
                last_index' = LastNew(b) + 1
         PROVE  CmdOrder' /\ CmdRange'
    <3>1. c \in CommandType /\ ~c.flag /\ c.idx = FirstNew(b)
          /\ c.idx + c.size = LastNew(b) + 2
      BY <2>4, <2>13
    <3>2. Frontier <= Start(c) /\ Start(c) \in Nat
      <4>1. last_index + 1 <= FirstNew(b) /\ FirstNew(b) \in Int
        BY <2>3, <2>4 DEF FirstNew
      <4>2. (last_index + 1) * Burst <= FirstNew(b) * Burst
        BY <2>3, <4>1, MulMono, Sizes
      <4>. QED  BY <3>1, <4>2, CommandLines DEF Frontier, Start
    <3>3. Stop(c) = Frontier'
      <4>1. LastNew(b) + 2 = last_index' + 1
        BY <2>4, <2>13
      <4>. QED  BY <3>1, <4>1 DEF Stop, Frontier
    <3>4. fetch.stop <= Start(c)
      <4>1. fetch.stop <= Frontier
        BY <1>1, <2>2 DEF FetchRange
      <4>2. fetch.stop \in Nat
        BY DEF FetchInv
      <4>3. Frontier \in Nat
        BY <2>9
      <4>. QED  BY <3>2, <4>1, <4>2, <4>3
    <3>5. /\ \A k \in DOMAIN Cmds : k \in DOMAIN Cmds' /\ Cmds'[k] = Cmds[k]
          /\ \A k \in DOMAIN Cmds' : k \in DOMAIN Cmds
                                     \/ (k = Len(Cmds) + 1 /\ Cmds'[k] = c)
          /\ DOMAIN Cmds = 1 .. Len(Cmds) /\ Len(Cmds) \in Nat
          /\ DOMAIN Cmds' = 1 .. (Len(Cmds) + 1)
      BY <2>10, <2>13, <3>1, AppendEntries
    <3>6. ASSUME NEW i \in DOMAIN Cmds', NEW j \in DOMAIN Cmds', i < j
          PROVE  ~Cmds'[i].flag /\ (~Cmds'[j].flag => Stop(Cmds'[i]) <= Start(Cmds'[j]))
      <4>1. i \in DOMAIN Cmds /\ Cmds'[i] = Cmds[i]
        BY <3>5, <3>6
      <4>2. CASE j \in DOMAIN Cmds
        BY <1>1, <3>5, <3>6, <4>1, <4>2 DEF CmdOrder
      <4>3. CASE Cmds'[j] = c
        BY <2>2, <2>9, <2>11, <3>2, <4>1, <4>3
      <4>. QED  BY <3>5, <4>2, <4>3
    <3>7. ASSUME NEW i \in DOMAIN Cmds'
          PROVE  ~Cmds'[i].flag /\ fetch.stop <= Start(Cmds'[i])
                 /\ Stop(Cmds'[i]) <= Frontier'
      <4>1. CASE i \in DOMAIN Cmds
        BY <2>2, <2>11, <3>5, <4>1
      <4>2. CASE Cmds'[i] = c
        BY <2>9, <3>1, <3>3, <3>4, <4>2
      <4>. QED  BY <3>5, <4>1, <4>2
    <3>. QED  BY <1>1, <3>6, <3>7 DEF CmdOrder, CmdRange
  <2>14. ASSUME mapped + 1 = EndToken,
                NEW e \in CommandType, e.flag, e.idx = 0, e.size = 0,
                Cmds' = Append(Cmds, e)
         PROVE  CmdOrder' /\ CmdRange'
    <3>1. /\ \A k \in DOMAIN Cmds : k \in DOMAIN Cmds' /\ Cmds'[k] = Cmds[k]
          /\ \A k \in DOMAIN Cmds' : k \in DOMAIN Cmds
                                     \/ (k = Len(Cmds) + 1 /\ Cmds'[k] = e)
          /\ DOMAIN Cmds = 1 .. Len(Cmds) /\ Len(Cmds) \in Nat
          /\ DOMAIN Cmds' = 1 .. (Len(Cmds) + 1)
      BY <2>10, <2>14, AppendEntries
    <3>2. ASSUME NEW i \in DOMAIN Cmds', NEW j \in DOMAIN Cmds', i < j
          PROVE  ~Cmds'[i].flag /\ (~Cmds'[j].flag => Stop(Cmds'[i]) <= Start(Cmds'[j]))
      <4>1. i \in DOMAIN Cmds /\ Cmds'[i] = Cmds[i]
        BY <3>1, <3>2
      <4>2. CASE j \in DOMAIN Cmds
        BY <1>1, <3>1, <3>2, <4>1, <4>2 DEF CmdOrder
      <4>3. CASE Cmds'[j] = e
        BY <2>2, <2>14, <4>1, <4>3
      <4>. QED  BY <3>1, <4>2, <4>3
    <3>3. ASSUME NEW i \in DOMAIN Cmds'
          PROVE  IF Cmds'[i].flag
                 THEN mapped' = EndToken /\ Cmds'[i].idx = 0 /\ Cmds'[i].size = 0
                 ELSE fetch.stop <= Start(Cmds'[i]) /\ Stop(Cmds'[i]) <= Frontier'
      <4>1. CASE i \in DOMAIN Cmds
        BY <2>2, <2>11, <3>1, <4>1
      <4>2. CASE Cmds'[i] = e
        BY <2>1, <2>14, <4>2
      <4>. QED  BY <3>1, <4>1, <4>2
    <3>. QED  BY <1>1, <3>2, <3>3 DEF CmdOrder, CmdRange
  <2>15. CmdOrder' /\ CmdRange'
    BY <2>5, <2>12, <2>13, <2>14
  <2>16. FetchRange'
    <3>1. fetch.stop <= Frontier /\ fetch.at <= fetch.stop
      BY <1>1, <2>2 DEF FetchRange
    <3>3. fetch.stop \in Nat
      BY DEF FetchInv
    <3>2. fetch.stop <= Frontier'
      BY <2>9, <3>1, <3>3
    <3>. QED  BY <1>1, <2>2, <3>1, <3>2 DEF FetchRange
  <2>. QED  BY <2>8, <2>15, <2>16 DEF ChainInv
<1>. QED  BY <1>2, <1>3 DEF Map

\* Taking a command up leaves the others to come.
LEMMA CmdsFetch ==
  ASSUME CommandInv, FetchCommand, UNCHANGED issuing
  PROVE  /\ Cmds # <<>> /\ Cmds' = Tail(Cmds) /\ Head(cmdStream) = Cmds[1]
         /\ Cmds' \in Seq(CommandType)
<1>. DEFINE h == Head(cmdStream)
            t == Tail(cmdStream)
<1>1. /\ cmdStream \in Seq(CommandType) /\ issuing \in Seq(CommandType)
      /\ cmdStream # <<>> /\ cmdStream' = t /\ issuing' = issuing
  BY DEF FetchCommand, CommandInv
<1>2. h \in CommandType /\ t \in Seq(CommandType) /\ cmdStream = <<h>> \o t
  BY <1>1
<1>3. <<h>> \in Seq(CommandType)
  BY <1>2
<1>. HIDE DEF h, t
<1>4. (<<h>> \o t) \o issuing = <<h>> \o (t \o issuing)
      /\ t \o issuing \in Seq(CommandType)
  BY <1>1, <1>2, <1>3, ConcatAssociative
<1>5. ASSUME NEW s \in Seq(CommandType)
      PROVE  <<h>> \o s # <<>> /\ Tail(<<h>> \o s) = s /\ (<<h>> \o s)[1] = h
  BY <1>2, <1>5
<1>6. Cmds = <<h>> \o (t \o issuing) /\ Cmds' = t \o issuing
  BY <1>1, <1>2, <1>4, Zenon DEF Cmds
<1>. QED  BY <1>4, <1>5, <1>6, Zenon DEF h

LEMMA FetchChain ==
  ASSUME InputInv, CommandInv, FetchInv, ChainInv, Loaded, Fetch
  PROVE  ChainInv'
<1>1. /\ UNCHANGED <<input, last_index, mapped, issuing>>
      /\ Asked /\ CmdOrder /\ CmdRange /\ FetchRange
      /\ EndToken' = EndToken /\ Asked' /\ Frontier' = Frontier
  BY DEF Fetch, cmdVars, ChainInv, EndToken, Asked, Frontier
<1>2. CASE FetchCommand
  <2>1. /\ Cmds \in Seq(CommandType) /\ Cmds # <<>> /\ Cmds' = Tail(Cmds)
        /\ Head(cmdStream) = Cmds[1] /\ Cmds' \in Seq(CommandType)
    BY <1>1, <1>2, CmdsFetch, CmdsType
  <2>2. /\ 1 \in DOMAIN Cmds /\ DOMAIN Cmds = 1 .. Len(Cmds)
        /\ DOMAIN Cmds' = 1 .. Len(Cmds') /\ Len(Cmds) \in Nat
        /\ Len(Cmds') = Len(Cmds) - 1
        /\ \A k \in DOMAIN Cmds' : k + 1 \in DOMAIN Cmds /\ Cmds'[k] = Cmds[k + 1]
    BY <2>1, TailEntries
  <2>. DEFINE c == Cmds[1]
  <2>3. /\ c \in CommandType
        /\ fetch' = [at |-> Start(c), stop |-> Stop(c), end |-> c.flag]
    BY <1>2, <2>1, <2>2 DEF FetchCommand, Start, Stop
  <2>4. /\ fetch'.at = Start(c) /\ fetch'.stop = Stop(c)
        /\ Start(c) <= Stop(c)
    BY <2>3, CommandLines
  <2>5. fetch'.end = c.flag
    BY <2>3, Zenon
  <2>6. ASSUME NEW i \in DOMAIN Cmds', NEW j \in DOMAIN Cmds', i < j
        PROVE  ~Cmds'[i].flag /\ (~Cmds'[j].flag => Stop(Cmds'[i]) <= Start(Cmds'[j]))
    <3>1. /\ i + 1 \in DOMAIN Cmds /\ j + 1 \in DOMAIN Cmds /\ i + 1 < j + 1
          /\ Cmds'[i] = Cmds[i + 1] /\ Cmds'[j] = Cmds[j + 1]
      BY <2>2, <2>6
    <3>. QED  BY <1>1, <3>1 DEF CmdOrder
  <2>7. ASSUME NEW i \in DOMAIN Cmds'
        PROVE  /\ ~c.flag
               /\ IF Cmds'[i].flag
                  THEN mapped = EndToken /\ Cmds'[i].idx = 0 /\ Cmds'[i].size = 0
                  ELSE fetch'.stop <= Start(Cmds'[i]) /\ Stop(Cmds'[i]) <= Frontier
    <3>1. /\ i + 1 \in DOMAIN Cmds /\ 1 < i + 1 /\ Cmds'[i] = Cmds[i + 1]
      BY <2>2, <2>7
    <3>2. ~c.flag /\ (~Cmds[i + 1].flag => Stop(c) <= Start(Cmds[i + 1]))
      BY <1>1, <2>2, <3>1 DEF CmdOrder
    <3>3. IF Cmds[i + 1].flag
          THEN mapped = EndToken /\ Cmds[i + 1].idx = 0 /\ Cmds[i + 1].size = 0
          ELSE Stop(Cmds[i + 1]) <= Frontier
      BY <1>1, <3>1 DEF CmdRange
    <3>. HIDE DEF c
    <3>4. Stop(c) = fetch'.stop
      BY <2>4
    <3>. QED  BY <3>1, <3>2, <3>3, <3>4
  <2>8. FetchRange'
    <3>1. CASE c.flag
      <4>1. Cmds' = <<>>
        <5>1. DOMAIN Cmds' = {}
          BY <2>7, <3>1
        <5>. QED  BY <2>1, <2>2, <5>1
      <4>2. mapped = EndToken /\ c.idx = 0 /\ c.size = 0
        BY <1>1, <2>2, <3>1 DEF CmdRange
      <4>3. Stop(c) = 0
        BY <4>2, Sizes DEF Stop
      <4>4. fetch'.end /\ mapped' = EndToken'
        BY <1>1, <2>5, <3>1, <4>2, Zenon
      <4>. QED  BY <2>4, <4>1, <4>3, <4>4 DEF FetchRange
    <3>2. CASE ~c.flag
      <4>1. Stop(c) <= Frontier
        BY <1>1, <2>2, <3>2 DEF CmdRange
      <4>2. ~fetch'.end
        BY <2>5, <3>2, Zenon
      <4>. HIDE DEF c
      <4>. QED  BY <1>1, <2>4, <4>1, <4>2 DEF FetchRange
    <3>. QED  BY <3>1, <3>2
  <2>9. CmdOrder' /\ CmdRange'
    BY <1>1, <2>6, <2>7 DEF CmdOrder, CmdRange
  <2>. QED  BY <1>1, <2>8, <2>9 DEF ChainInv
<1>3. CASE SendLine \/ SendEndLine
  <2>1. Cmds' = Cmds /\ fetch'.stop = fetch.stop
    <3>1. cmdStream' = cmdStream
      BY <1>3 DEF SendLine, SendEndLine
    <3>2. fetch'.stop = fetch.stop
      BY <1>3 DEF SendLine, SendEndLine, FetchInv
    <3>. QED  BY <1>1, <3>1, <3>2 DEF Cmds
  <2>2. fetch'.end = fetch.end
    BY <1>3, Zenon DEF SendLine, SendEndLine, FetchInv
  <2>3. ~fetch.end => fetch'.at <= fetch.stop
    <3>1. CASE SendLine
      <4>1. /\ fetch.at < fetch.stop /\ fetch.at \in Nat /\ fetch.stop \in Nat
            /\ fetch.at % LineSize = 0 /\ fetch.stop % LineSize = 0
        BY <3>1 DEF SendLine, FetchInv, EndSent
      <4>2. fetch'.at = fetch.at + LineSize
        BY <3>1 DEF SendLine, FetchInv
      <4>. QED  BY <4>1, <4>2, MultipleStep, Sizes
    <3>2. CASE SendEndLine
      BY <3>2 DEF SendEndLine
    <3>. QED  BY <1>3, <3>1, <3>2
  <2>4. CmdOrder' /\ CmdRange'
    BY <1>1, <2>1 DEF CmdOrder, CmdRange
  <2>5. FetchRange'
    BY <1>1, <2>1, <2>2, <2>3 DEF FetchRange
  <2>. QED  BY <1>1, <2>4, <2>5 DEF ChainInv
<1>. QED  BY <1>2, <1>3 DEF Fetch

LEMMA NextChain ==
  /\ InputInv /\ CountInv /\ CommandInv /\ FetchInv /\ ChainInv /\ [Next]_vars
  => ChainInv'
<1>. SUFFICES ASSUME InputInv, CountInv, CommandInv, FetchInv, ChainInv,
                     [Next]_vars, Loaded'
              PROVE  ChainInv'
  BY DEF ChainInv
<1>1. Loaded
  BY InputNext DEF Loaded
<1>2. CASE Duplicate \/ Delay \/ Merge \/ Iterate \/ Drain \/ Finished \/ UNCHANGED vars
  <2>1. UNCHANGED <<input, mapped, last_index, issuing, cmdStream, fetch>>
    BY <1>2 DEF Duplicate, Delay, Merge, Iterate, Drain, Finished, vars, cmdVars
  <2>2. Cmds' = Cmds /\ Frontier' = Frontier /\ EndToken' = EndToken
    BY <2>1 DEF Cmds, Frontier, EndToken
  <2>. QED
    BY <2>1, <2>2
    DEF ChainInv, Loaded, Asked, CmdOrder, CmdRange, FetchRange
<1>. QED  BY <1>1, <1>2, MapChain, FetchChain DEF Next

LEMMA InitChain == Init => ChainInv
<1>. SUFFICES ASSUME Init  PROVE Asked /\ CmdOrder /\ CmdRange /\ FetchRange
  BY DEF ChainInv
<1>1. /\ Cmds = <<>> /\ DOMAIN Cmds = {}
  BY DEF Init, Cmds
<1>2. Frontier = 0 /\ EndToken \in Nat
  <2>1. last_index + 1 = 0
    BY DEF Init, NoIndex
  <2>2. InputInv
    BY DEF Init, InputInv
  <2>. QED  BY <2>1, <2>2, Sizes, InputFacts DEF Frontier
<1>3. Asked
  <2>1. InputInv /\ mapped = 0
    BY DEF Init, InputInv
  <2>. QED  BY <2>1, InputFacts DEF Asked
<1>4. FetchRange
  BY <1>2 DEF Init, Idle, FetchRange
<1>. QED  BY <1>1, <1>3, <1>4 DEF CmdOrder, CmdRange

\* The lines on their way ascend, beyond the line held and, until the end
\* command is taken up, below the one fetched next.
LineOrder ==
  /\ \A i, j \in DOMAIN cacheStream : i < j => cacheStream[i] < cacheStream[j]
  /\ \A i \in DOMAIN cacheStream : held < cacheStream[i]
  /\ ~fetch.end => /\ held < fetch.at
                   /\ \A i \in DOMAIN cacheStream : cacheStream[i] < fetch.at

OrderInv == Loaded => LineOrder

LEMMA LineNumbers ==
  ASSUME LineInv
  PROVE  /\ Len(cacheStream) \in Nat /\ DOMAIN cacheStream = 1 .. Len(cacheStream)
         /\ \A k \in DOMAIN cacheStream :
              cacheStream[k] \in Nat /\ cacheStream[k] \in RealLines \cup {EndLine}
         /\ held \in Int /\ held >= -1 /\ (held # NoLine => held \in Nat)
<1>1. RealLines \cup {EndLine} \subseteq Nat
  BY EndLineFacts DEF RealLines
<1>2. /\ Len(cacheStream) \in Nat /\ DOMAIN cacheStream = 1 .. Len(cacheStream)
      /\ \A k \in DOMAIN cacheStream : cacheStream[k] \in RealLines \cup {EndLine}
  BY DEF LineInv
<1>3. held \in Nat \/ held = NoLine
  BY <1>1 DEF LineInv
<1>. QED  BY <1>1, <1>2, <1>3 DEF NoLine

\* What taking a line does.
LEMMA TakeLineFacts ==
  ASSUME LineInv, TakeLine
  PROVE  \/ UNCHANGED <<caching_value, held, cacheStream, vertexPropCache>>
         \/ /\ cacheStream # <<>> /\ cacheStream' = Tail(cacheStream)
            /\ min_processing_value + CacheSize - Margin > caching_value
            /\ held' = cacheStream[1] /\ 1 \in DOMAIN cacheStream
            /\ held' \in RealLines \cup {EndLine}
            /\ held \in RealLines \cup {NoLine}
            /\ held = NoLine => vertexPropCache' = vertexPropCache
            /\ held # NoLine =>
                 /\ caching_value = held /\ Slot(held) \in CacheSlots
                 /\ vertexPropCache' = [vertexPropCache EXCEPT ![Slot(held)] = held]
<1>. SUFFICES ASSUME Window
              PROVE  /\ cacheStream # <<>> /\ cacheStream' = Tail(cacheStream)
                     /\ min_processing_value + CacheSize - Margin > caching_value
                     /\ held' = cacheStream[1] /\ 1 \in DOMAIN cacheStream
                     /\ held' \in RealLines \cup {EndLine}
                     /\ held \in RealLines \cup {NoLine}
                     /\ held = NoLine => vertexPropCache' = vertexPropCache
                     /\ held # NoLine =>
                          /\ caching_value = held /\ Slot(held) \in CacheSlots
                          /\ vertexPropCache' = [vertexPropCache EXCEPT ![Slot(held)] = held]
  BY DEF TakeLine
<1>1. /\ cacheStream # <<>> /\ cacheStream' = Tail(cacheStream)
      /\ min_processing_value + CacheSize - Margin > caching_value
      /\ held' = Head(cacheStream)
      /\ vertexPropCache' = IF held = NoLine THEN vertexPropCache
                            ELSE [vertexPropCache EXCEPT ![Slot(held)] = held]
  BY DEF TakeLine, Window
<1>2. /\ Head(cacheStream) = cacheStream[1] /\ 1 \in DOMAIN cacheStream
      /\ cacheStream[1] \in RealLines \cup {EndLine}
  BY <1>1 DEF LineInv
<1>3. /\ held \in RealLines \cup {NoLine}
      /\ caching_value = IF held = NoLine THEN 0 ELSE held
  BY <1>1 DEF LineInv
<1>4. held # NoLine => held \in Nat
  BY <1>3 DEF RealLines
<1>5. held # NoLine => Slot(held) \in CacheSlots
  BY <1>4, SlotOfLine DEF CacheSlots
<1>. QED  BY <1>1, <1>2, <1>3, <1>5

LEMMA FetchOrder ==
  ASSUME CommandInv, FetchInv, LineInv, ChainInv, LineOrder, Loaded, Fetch
  PROVE  LineOrder'
<1>1. /\ UNCHANGED held /\ CmdRange /\ FetchRange
      /\ fetch.at \in Nat /\ fetch.stop \in Nat
  BY DEF Fetch, readVars, ChainInv, FetchInv
<1>2. CASE FetchCommand
  <2>. DEFINE c == Cmds[1]
  <2>1. /\ cacheStream' = cacheStream /\ fetch.at = fetch.stop /\ ~fetch.end
        /\ Head(cmdStream) = c /\ Cmds \in Seq(CommandType) /\ Cmds # <<>>
    BY <1>2, CmdsFetch, CmdsType DEF FetchCommand, Fetch, cmdVars
  <2>2. 1 \in DOMAIN Cmds /\ c \in CommandType
    BY <2>1
  <2>3. fetch' = [at |-> Start(c), stop |-> Stop(c), end |-> c.flag]
    BY <1>2, <2>1 DEF FetchCommand, Start, Stop
  <2>4. fetch'.at = Start(c) /\ Start(c) \in Nat
    BY <2>2, <2>3, CommandLines
  <2>5. ASSUME ~fetch'.end
        PROVE  fetch.at <= fetch'.at
    <3>1. ~c.flag
      BY <2>3, <2>5, Zenon
    <3>. QED  BY <1>1, <2>1, <2>2, <2>4, <3>1 DEF CmdRange
  <2>6. ASSUME ~fetch'.end
        PROVE  /\ held < fetch'.at
               /\ \A i \in DOMAIN cacheStream : cacheStream[i] < fetch'.at
    <3>1. /\ held < fetch.at
          /\ \A i \in DOMAIN cacheStream : cacheStream[i] < fetch.at
      BY <2>1 DEF LineOrder
    <3>2. fetch'.at \in Nat /\ fetch.at <= fetch'.at
      BY <2>4, <2>5, <2>6
    <3>3. held \in Int
      BY LineNumbers
    <3>4. held < fetch'.at
      BY <1>1, <3>1, <3>2, <3>3
    <3>5. ASSUME NEW i \in DOMAIN cacheStream
          PROVE  cacheStream[i] < fetch'.at
      <4>1. cacheStream[i] \in Nat /\ cacheStream[i] < fetch.at
        BY <3>1, LineNumbers
      <4>. QED  BY <1>1, <3>2, <4>1
    <3>. QED  BY <3>4, <3>5
  <2>. QED  BY <1>1, <2>1, <2>6 DEF LineOrder
<1>3. CASE SendLine \/ SendEndLine
  <2>. DEFINE l == IF fetch.at < fetch.stop THEN fetch.at ELSE EndLine
  <2>1. /\ l \in RealLines \cup {EndLine} /\ cacheStream' = Append(cacheStream, l)
        /\ l \in Nat
    <3>1. CASE SendLine
      <4>0. /\ fetch.at < fetch.stop /\ fetch.stop <= MaxLine
            /\ fetch.at % LineSize = 0
        BY <1>1, <3>1 DEF SendLine, FetchInv, EndSent
      <4>1. fetch.at \in RealLines /\ l = fetch.at
        BY <1>1, <4>0, EndLineFacts DEF RealLines
      <4>. QED  BY <1>1, <3>1, <4>1 DEF SendLine
    <3>2. CASE SendEndLine
      <4>1. l = EndLine
        BY <1>1, <3>2 DEF SendEndLine
      <4>. QED  BY <3>2, <4>1, EndLineFacts DEF SendEndLine
    <3>. QED  BY <1>3, <3>1, <3>2
  <2>2. ~EndSent
    BY <1>1, <1>3 DEF SendLine, SendEndLine, EndSent
  <2>3. held < l /\ \A i \in DOMAIN cacheStream : cacheStream[i] < l
    <3>1. CASE SendLine
      <4>1. ~fetch.end /\ l = fetch.at
        BY <1>1, <3>1 DEF SendLine, FetchRange
      <4>. QED  BY <4>1 DEF LineOrder
    <3>2. CASE SendEndLine
      <4>1. l = EndLine
        BY <1>1, <3>2 DEF SendEndLine
      <4>2. held < EndLine
        BY <2>2, EndLineFacts DEF LineInv, RealLines, NoLine
      <4>3. ASSUME NEW i \in DOMAIN cacheStream
            PROVE  cacheStream[i] < EndLine
        <5>1. cacheStream[i] \in RealLines
          BY <2>2, LineNumbers DEF LineInv
        <5>. QED  BY <5>1, EndLineFacts DEF RealLines
      <4>. QED  BY <4>1, <4>2, <4>3
    <3>. QED  BY <1>3, <3>1, <3>2
  <2>. HIDE DEF l
  <2>4. /\ \A k \in DOMAIN cacheStream : cacheStream'[k] = cacheStream[k]
        /\ \A k \in DOMAIN cacheStream' :
             k \in DOMAIN cacheStream \/ (k = Len(cacheStream) + 1 /\ cacheStream'[k] = l)
        /\ DOMAIN cacheStream = 1 .. Len(cacheStream) /\ Len(cacheStream) \in Nat
        /\ DOMAIN cacheStream' = 1 .. (Len(cacheStream) + 1)
    <3>1. cacheStream \in Seq(RealLines \cup {EndLine})
      BY DEF LineInv
    <3>. QED  BY <2>1, <3>1, AppendEntries
  <2>5. ASSUME NEW i \in DOMAIN cacheStream', NEW j \in DOMAIN cacheStream', i < j
        PROVE  cacheStream'[i] < cacheStream'[j]
    <3>1. i \in DOMAIN cacheStream /\ cacheStream'[i] = cacheStream[i]
      BY <2>4, <2>5
    <3>2. CASE j \in DOMAIN cacheStream
      BY <2>4, <2>5, <3>1, <3>2 DEF LineOrder
    <3>3. CASE cacheStream'[j] = l
      BY <2>3, <3>1, <3>3
    <3>. QED  BY <2>4, <3>2, <3>3
  <2>6. ASSUME NEW i \in DOMAIN cacheStream'
        PROVE  held' < cacheStream'[i]
    BY <1>1, <2>3, <2>4 DEF LineOrder
  <2>7. ASSUME ~fetch'.end
        PROVE  /\ held' < fetch'.at
               /\ \A i \in DOMAIN cacheStream' : cacheStream'[i] < fetch'.at
    <3>1. fetch'.end = fetch.end
      BY <1>3, Zenon DEF SendLine, SendEndLine, FetchInv
    <3>2. SendLine /\ ~fetch.end
      BY <1>3, <2>7, <3>1 DEF SendEndLine
    <3>3. l = fetch.at /\ fetch'.at = fetch.at + LineSize
      BY <3>2 DEF SendLine, FetchInv, l
    <3>4. LineSize \in Nat \ {0}
      BY Sizes
    <3>5. held < fetch'.at
      <4>1. held \in Int /\ held < fetch.at
        BY <3>2, LineNumbers DEF LineOrder
      <4>. QED  BY <1>1, <3>3, <3>4, <4>1
    <3>6. ASSUME NEW i \in DOMAIN cacheStream'
          PROVE  cacheStream'[i] < fetch'.at
      <4>1. cacheStream'[i] \in Nat /\ cacheStream'[i] <= fetch.at
        <5>1. CASE i \in DOMAIN cacheStream
          BY <1>1, <2>4, <3>2, <5>1, LineNumbers DEF LineOrder
        <5>2. CASE cacheStream'[i] = l
          BY <1>1, <3>3, <5>2
        <5>. QED  BY <2>4, <5>1, <5>2
      <4>. QED  BY <1>1, <3>3, <3>4, <4>1
    <3>. QED  BY <1>1, <3>5, <3>6
  <2>. QED  BY <2>5, <2>6, <2>7 DEF LineOrder
<1>. QED  BY <1>2, <1>3 DEF Fetch

\* Taking the first line leaves the rest in order.
LEMMA TailOrder ==
  ASSUME LineInv, LineOrder, cacheStream # <<>>, cacheStream' = Tail(cacheStream),
         held' = held \/ held' = cacheStream[1], UNCHANGED fetch
  PROVE  LineOrder'
<1>1. /\ 1 \in DOMAIN cacheStream
      /\ DOMAIN cacheStream' \subseteq Nat \ {0}
      /\ \A k \in DOMAIN cacheStream' :
           k + 1 \in DOMAIN cacheStream /\ cacheStream'[k] = cacheStream[k + 1]
  <2>1. cacheStream \in Seq(RealLines \cup {EndLine})
    BY DEF LineInv
  <2>2. DOMAIN cacheStream' = 1 .. Len(cacheStream')
    BY <2>1, TailEntries
  <2>. QED  BY <2>1, <2>2, TailEntries
<1>2. ASSUME NEW i \in DOMAIN cacheStream', NEW j \in DOMAIN cacheStream', i < j
      PROVE  cacheStream'[i] < cacheStream'[j]
  <2>1. i + 1 < j + 1
    BY <1>1, <1>2
  <2>. QED  BY <1>1, <2>1 DEF LineOrder
<1>3. ASSUME NEW i \in DOMAIN cacheStream'
      PROVE  held' < cacheStream'[i]
  <2>1. 1 < i + 1
    BY <1>1
  <2>. QED  BY <1>1, <2>1 DEF LineOrder
<1>4. ~fetch'.end => /\ held' < fetch'.at
                     /\ \A i \in DOMAIN cacheStream' : cacheStream'[i] < fetch'.at
  BY <1>1 DEF LineOrder
<1>. QED  BY <1>2, <1>3, <1>4 DEF LineOrder

LEMMA NextOrder ==
  CommandInv /\ FetchInv /\ LineInv /\ ChainInv /\ OrderInv /\ [Next]_vars => OrderInv'
<1>. SUFFICES ASSUME CommandInv, FetchInv, LineInv, ChainInv, OrderInv,
                     [Next]_vars, Loaded'
              PROVE  LineOrder'
  BY DEF OrderInv
<1>1. Loaded /\ LineOrder
  BY InputNext DEF Loaded, OrderInv
<1>2. CASE Duplicate \/ Delay \/ Merge \/ Map \/ Finished \/ UNCHANGED vars
  <2>1. UNCHANGED <<cacheStream, held, fetch>>
    BY <1>2 DEF Duplicate, Delay, Merge, Map, Finished, vars, readVars
  <2>. QED  BY <1>1, <2>1 DEF LineOrder
<1>3. CASE Iterate
  <2>1. TakeLine /\ UNCHANGED fetch
    BY <1>3 DEF Iterate
  <2>2. CASE UNCHANGED <<caching_value, held, cacheStream, vertexPropCache>>
    BY <1>1, <2>1, <2>2 DEF LineOrder
  <2>. QED  BY <1>1, <2>1, <2>2, TakeLineFacts, TailOrder
<1>4. CASE Drain
  BY <1>1, <1>4, TailOrder DEF Drain, readVars
<1>. QED  BY <1>1, <1>2, <1>3, <1>4, FetchOrder DEF Next

LEMMA InitOrder == Init => OrderInv
<1>. SUFFICES ASSUME Init  PROVE LineOrder
  BY DEF OrderInv
<1>. QED  BY DEF Init, LineOrder, Idle, NoLine
-----------------------------------------------------------------------------
(***************************************************************************)
(* The registers, and how far the cache may be ahead of them.              *)
(***************************************************************************)

\* The registers hold the block taken last.
BlockInv ==
  /\ blocks = 0 => min_processing_value = 0
  /\ blocks \in DOMAIN input => /\ processing_value = input[blocks].hi
                                /\ min_processing_value = input[blocks].lo

\* No line in the cache is beyond the window of the block taken last.
CacheBelow(bound) == \A s \in CacheSlots : vertexPropCache[s] < bound

BoundInv ==
  blocks <= Len(input) => CacheBelow(min_processing_value + CacheSize - Margin)

LEMMA TakeBlockFacts ==
  ASSUME Iterate
  PROVE  /\ TakeLine /\ ~break_flag
         /\ UNCHANGED <<input, endData, mapped, last_index, issuing, cmdStream, fetch>>
         /\ \/ UNCHANGED <<processing_value, min_processing_value, blocks, break_flag>>
            \/ /\ Passed(caching_value')
               /\ processing_value' = Data(blocks + 1).hi
               /\ min_processing_value' = Data(blocks + 1).lo
               /\ blocks' = blocks + 1
               /\ break_flag' = (blocks = EndToken)
  BY DEF Iterate, cmdVars, TakeBlock, CanTakeBlock

\* The line put in the cache is the last the window let through.
LEMMA TakeLineBound ==
  ASSUME LineInv, TakeLine, NEW m \in Int, m = min_processing_value + CacheSize - Margin,
         CacheBelow(m)
  PROVE  \A s \in CacheSlots : vertexPropCache'[s] < m
<1>1. CASE vertexPropCache' = vertexPropCache
  BY <1>1 DEF CacheBelow
<1>2. CASE /\ vertexPropCache' = [vertexPropCache EXCEPT ![Slot(held)] = held]
           /\ held < m
  <2>1. vertexPropCache \in [CacheSlots -> RealLines \cup {NoLine}]
    BY DEF LineInv
  <2>. QED  BY <1>2, <2>1 DEF CacheBelow
<1>. QED  BY <1>1, <1>2, TakeLineFacts

LEMMA NextBlock == InputInv /\ CountInv /\ BlockInv /\ [Next]_vars => BlockInv'
<1>. SUFFICES ASSUME InputInv, CountInv, BlockInv, [Next]_vars  PROVE BlockInv'
  OBVIOUS
<1>1. UNCHANGED input /\ blocks \in Nat
  BY InputNext DEF CountInv
<1>2. CASE UNCHANGED <<processing_value, min_processing_value, blocks>>
  BY <1>1, <1>2 DEF BlockInv
<1>3. CASE Iterate
  <2>1. CASE /\ processing_value' = Data(blocks + 1).hi
             /\ min_processing_value' = Data(blocks + 1).lo
             /\ blocks' = blocks + 1
    <3>1. blocks' \in Nat \ {0} /\ (blocks' \in DOMAIN input => Data(blocks') = input[blocks'])
      BY <1>1, <2>1, DataFacts
    <3>. QED  BY <1>1, <2>1, <3>1 DEF BlockInv
  <2>. QED  BY <1>2, <1>3, <2>1, TakeBlockFacts
<1>. QED
  BY <1>2, <1>3
  DEF Next, vars, Duplicate, Delay, Merge, Map, Fetch, Drain, Finished, readVars

LEMMA NextBound ==
  /\ InputInv /\ CountInv /\ LineInv /\ RegisterInv /\ BlockInv /\ BoundInv
  /\ [Next]_vars
  => BoundInv'
<1>. SUFFICES ASSUME InputInv, CountInv, LineInv, RegisterInv, BlockInv, BoundInv,
                     [Next]_vars
              PROVE  BoundInv'
  OBVIOUS
<1>1. /\ UNCHANGED input /\ blocks \in Nat /\ Len(input) \in Nat
      /\ DOMAIN input = 1 .. Len(input)
  BY InputNext, InputFacts DEF CountInv
<1>2. CASE UNCHANGED <<min_processing_value, blocks, vertexPropCache>>
  BY <1>1, <1>2 DEF BoundInv, CacheBelow
<1>3. CASE Iterate
  <2>. SUFFICES ASSUME blocks' <= Len(input)
                PROVE  CacheBelow(min_processing_value + CacheSize - Margin)'
    BY <1>1 DEF BoundInv
  <2>. DEFINE m == min_processing_value + CacheSize - Margin
              n == min_processing_value' + CacheSize - Margin
  <2>1. CacheSize \in Nat /\ Margin \in Nat
    BY Sizes
  <2>2. min_processing_value \in Nat /\ m \in Int
    BY <2>1 DEF RegisterInv
  <2>3. /\ blocks <= Len(input)
        /\ min_processing_value' \in Nat
        /\ min_processing_value <= min_processing_value'
    <3>1. CASE UNCHANGED <<min_processing_value, blocks>>
      BY <2>2, <3>1
    <3>2. CASE /\ min_processing_value' = Data(blocks + 1).lo
               /\ blocks' = blocks + 1
      <4>1. /\ blocks + 1 \in DOMAIN input /\ blocks + 1 \in Nat \ {0}
            /\ blocks <= Len(input)
        BY <1>1, <3>2
      <4>2. Data(blocks + 1) = input[blocks + 1] /\ IsBlock(input[blocks + 1])
        BY <4>1, DataFacts
      <4>3. min_processing_value' \in Nat
        BY <3>2, <4>2 DEF IsBlock
      <4>4. CASE blocks = 0
        BY <4>1, <4>3, <4>4 DEF BlockInv
      <4>5. CASE blocks # 0
        <5>1. blocks \in DOMAIN input /\ blocks < blocks + 1
          BY <1>1, <4>1, <4>5
        <5>2. /\ min_processing_value = input[blocks].lo
              /\ input[blocks].hi <= input[blocks + 1].lo
          BY <4>1, <5>1, InputFacts DEF BlockInv
        <5>3. /\ input[blocks].lo \in Nat /\ input[blocks].hi \in Nat
              /\ input[blocks].lo <= input[blocks].hi
          BY <5>1, InputFacts DEF IsBlock
        <5>. QED  BY <3>2, <4>1, <4>2, <4>3, <5>2, <5>3
      <4>. QED  BY <4>4, <4>5
    <3>3. \/ UNCHANGED <<min_processing_value, blocks>>
          \/ /\ min_processing_value' = Data(blocks + 1).lo
             /\ blocks' = blocks + 1
      BY <1>3, TakeBlockFacts
    <3>. QED  BY <3>1, <3>2, <3>3, Zenon
  <2>4. m <= n /\ n \in Int
    <3>1. ASSUME NEW i \in Int, NEW j \in Int, i <= j
          PROVE  i + CacheSize - Margin <= j + CacheSize - Margin
                 /\ j + CacheSize - Margin \in Int
      BY <2>1, <3>1
    <3>. QED  BY <2>2, <2>3, <3>1
  <2>5. CacheBelow(m)
    BY <2>3 DEF BoundInv
  <2>. HIDE DEF n
  <2>6. \A s \in CacheSlots : vertexPropCache'[s] < m
    <3>1. TakeLine
      BY <1>3, TakeBlockFacts
    <3>. QED  BY <2>2, <2>5, <3>1, TakeLineBound
  <2>. HIDE DEF m
  <2>7. ASSUME NEW s \in CacheSlots
        PROVE  vertexPropCache'[s] < n
    <3>1. vertexPropCache'[s] \in Int
      <4>1. vertexPropCache' \in [CacheSlots -> RealLines \cup {NoLine}]
        BY <1>3, IterateLine DEF LineInv
      <4>. QED  BY <4>1 DEF RealLines, NoLine
    <3>. QED  BY <2>2, <2>4, <2>6, <3>1
  <2>. QED  BY <2>7 DEF CacheBelow, n
<1>. QED
  BY <1>2, <1>3
  DEF Next, vars, Duplicate, Delay, Merge, Map, Fetch, Drain, Finished, readVars

LEMMA InitBlockBound == Init => BlockInv /\ BoundInv
<1>. SUFFICES ASSUME Init  PROVE BlockInv /\ BoundInv
  OBVIOUS
<1>1. BlockInv
  <2>1. blocks = 0 /\ min_processing_value = 0 /\ InputInv
    BY DEF Init, InputInv
  <2>. QED  BY <2>1, InputFacts DEF BlockInv
<1>2. \A s \in CacheSlots : vertexPropCache[s] = -1
  BY DEF Init, CacheSlots, NoLine
<1>3. -1 < min_processing_value + CacheSize - Margin
  BY Sizes DEF Init
<1>. QED  BY <1>1, <1>2, <1>3 DEF BoundInv, CacheBelow
-----------------------------------------------------------------------------
(***************************************************************************)
(* Every line asked for is on its way, held, in the cache, or was in the   *)
(* cache and replaced by a later line of its slot.                         *)
(***************************************************************************)

Pending(l) ==
  \/ \E i \in DOMAIN cacheStream : cacheStream[i] = l
  \/ fetch.at <= l /\ l < fetch.stop
  \/ \E i \in DOMAIN Cmds : Start(Cmds[i]) <= l /\ l < Stop(Cmds[i])

Handled(l) ==
  /\ held # NoLine /\ l <= held
  /\ \/ l = held
     \/ vertexPropCache[Slot(l)] = l
     \/ vertexPropCache[Slot(l)] >= l + CacheSize

Covered(l) == Pending(l) \/ Handled(l)

Coverage ==
  Loaded /\ ~break_flag =>
    \A k \in DOMAIN input : \A v \in input[k].lo .. input[k].hi :
      Line(v) < Frontier => Covered(Line(v))

\* A line sent, or a command taken up, stays pending.
LEMMA FetchPending ==
  ASSUME CommandInv, FetchInv, LineInv, Fetch,
         NEW l \in Nat, l % LineSize = 0, Pending(l)
  PROVE  Pending(l)'
<1>0. UNCHANGED issuing /\ fetch.at \in Nat /\ fetch.stop \in Nat
  BY DEF Fetch, cmdVars, FetchInv
<1>1. CASE FetchCommand
  <2>1. /\ Cmds \in Seq(CommandType) /\ Cmds # <<>> /\ Cmds' = Tail(Cmds)
        /\ Head(cmdStream) = Cmds[1]
        /\ cacheStream' = cacheStream /\ fetch.at = fetch.stop
    BY <1>0, <1>1, CmdsFetch, CmdsType DEF FetchCommand
  <2>2. \A k \in DOMAIN Cmds : k = 1 \/ (k - 1 \in DOMAIN Cmds' /\ Cmds'[k - 1] = Cmds[k])
    BY <2>1, TailEntries
  <2>3. fetch'.at = Start(Cmds[1]) /\ fetch'.stop = Stop(Cmds[1])
    BY <1>1, <2>1 DEF FetchCommand, Start, Stop
  <2>4. CASE \E i \in DOMAIN cacheStream : cacheStream[i] = l
    BY <2>1, <2>4 DEF Pending
  <2>5. CASE fetch.at <= l /\ l < fetch.stop
    BY <1>0, <2>1, <2>5
  <2>6. ASSUME NEW i \in DOMAIN Cmds, Start(Cmds[i]) <= l, l < Stop(Cmds[i])
        PROVE  Pending(l)'
    <3>1. CASE i = 1
      BY <2>3, <2>6, <3>1 DEF Pending
    <3>2. CASE i - 1 \in DOMAIN Cmds' /\ Cmds'[i - 1] = Cmds[i]
      BY <2>6, <3>2 DEF Pending
    <3>. QED  BY <2>2, <3>1, <3>2
  <2>. QED  BY <2>4, <2>5, <2>6 DEF Pending
<1>2. CASE SendLine \/ SendEndLine
  <2>1. Cmds' = Cmds
    BY <1>0, <1>2 DEF SendLine, SendEndLine, Cmds
  <2>2. PICK e \in {fetch.at, EndLine} :
          /\ cacheStream' = Append(cacheStream, e)
          /\ SendLine => e = fetch.at
    BY <1>2 DEF SendLine, SendEndLine
  <2>3. /\ \A k \in DOMAIN cacheStream :
             k \in DOMAIN cacheStream' /\ cacheStream'[k] = cacheStream[k]
        /\ Len(cacheStream) + 1 \in DOMAIN cacheStream'
        /\ cacheStream'[Len(cacheStream) + 1] = e
    <3>1. cacheStream \in Seq(Nat) /\ e \in Nat
      <4>1. RealLines \cup {EndLine} \subseteq Nat
        BY EndLineFacts DEF RealLines
      <4>. QED  BY <1>0, <2>2, <4>1, EndLineFacts DEF LineInv
    <3>. QED  BY <2>2, <3>1, AppendEntries
  <2>4. CASE \E i \in DOMAIN cacheStream : cacheStream[i] = l
    BY <2>3, <2>4 DEF Pending
  <2>5. CASE fetch.at <= l /\ l < fetch.stop
    <3>1. SendLine /\ fetch.at < fetch.stop
      BY <1>0, <1>2, <2>5 DEF SendEndLine
    <3>2. fetch.at % LineSize = 0 /\ LineSize \in Nat \ {0}
      BY <1>0, <3>1, Sizes DEF FetchInv, EndSent
    <3>3. fetch'.at = fetch.at + LineSize /\ fetch'.stop = fetch.stop
      BY <3>1 DEF SendLine, FetchInv
    <3>4. CASE l = fetch.at
      BY <2>2, <2>3, <3>1, <3>4 DEF Pending
    <3>5. CASE l # fetch.at
      <4>1. fetch.at < l
        BY <1>0, <2>5, <3>5
      <4>2. fetch.at + LineSize <= l
        BY <1>0, <3>2, <4>1, MultipleStep
      <4>. QED  BY <2>5, <3>3, <4>2 DEF Pending
    <3>. QED  BY <3>4, <3>5
  <2>6. CASE \E i \in DOMAIN Cmds : Start(Cmds[i]) <= l /\ l < Stop(Cmds[i])
    BY <2>1, <2>6 DEF Pending
  <2>. QED  BY <2>4, <2>5, <2>6 DEF Pending
<1>. QED  BY <1>1, <1>2 DEF Fetch

\* A line taken is held; a line held before goes in the cache, and replaces
\* only a line a whole cache before it.
LEMMA TakeCovered ==
  ASSUME LineInv, LineOrder, Iterate, NEW l \in Nat, l % LineSize = 0, Covered(l)
  PROVE  Covered(l)'
<1>1. /\ fetch' = fetch /\ Cmds' = Cmds /\ TakeLine
  BY TakeBlockFacts DEF Cmds
<1>2. CASE UNCHANGED <<caching_value, held, cacheStream, vertexPropCache>>
  BY <1>1, <1>2 DEF Covered, Pending, Handled
<1>3. CASE /\ cacheStream # <<>> /\ cacheStream' = Tail(cacheStream)
           /\ held' = cacheStream[1] /\ 1 \in DOMAIN cacheStream
           /\ held \in RealLines \cup {NoLine}
           /\ held # NoLine =>
                vertexPropCache' = [vertexPropCache EXCEPT ![Slot(held)] = held]
  <2>1. /\ held' \in Nat /\ held' # NoLine /\ held < held'
    <3>1. cacheStream[1] \in Nat /\ held < cacheStream[1]
      BY <1>3, LineNumbers DEF LineOrder
    <3>. QED  BY <1>3, <3>1 DEF NoLine
  <2>2. CASE Pending(l)
    <3>1. ASSUME NEW i \in DOMAIN cacheStream, cacheStream[i] = l
          PROVE  Covered(l)'
      <4>1. CASE i = 1
        BY <1>3, <2>1, <3>1, <4>1 DEF Covered, Handled
      <4>2. CASE i - 1 \in DOMAIN cacheStream' /\ cacheStream'[i - 1] = cacheStream[i]
        BY <3>1, <4>2 DEF Covered, Pending
      <4>3. cacheStream \in Seq(RealLines \cup {EndLine})
        BY DEF LineInv
      <4>. QED  BY <1>3, <4>1, <4>2, <4>3, TailEntries
    <3>2. CASE \/ fetch.at <= l /\ l < fetch.stop
               \/ \E i \in DOMAIN Cmds : Start(Cmds[i]) <= l /\ l < Stop(Cmds[i])
      BY <1>1, <3>2 DEF Covered, Pending
    <3>. QED  BY <2>2, <3>1, <3>2 DEF Pending
  <2>3. CASE Handled(l)
    <3>1. /\ held # NoLine /\ held \in Nat /\ held % LineSize = 0 /\ l <= held
      BY <1>3, <2>3, EndLineFacts DEF Handled, RealLines
    <3>2. l <= held'
      BY <2>1, <3>1
    <3>3. /\ Slot(l) \in CacheSlots
          /\ vertexPropCache \in [CacheSlots -> RealLines \cup {NoLine}]
      BY SlotOfLine DEF LineInv, CacheSlots
    <3>4. vertexPropCache' = [vertexPropCache EXCEPT ![Slot(held)] = held]
      BY <1>3, <3>1
    <3>5. \/ vertexPropCache'[Slot(l)] = l
          \/ vertexPropCache'[Slot(l)] >= l + CacheSize
      <4>1. CASE Slot(l) = Slot(held)
        <5>1. vertexPropCache'[Slot(l)] = held
          BY <3>3, <3>4, <4>1
        <5>2. CASE l = held
          BY <5>1, <5>2
        <5>3. CASE l # held
          <6>1. l < held
            BY <3>1, <5>3
          <6>2. l + CacheSize <= held
            BY <3>1, <4>1, <6>1, SlotClash
          <6>. QED  BY <5>1, <6>2
        <5>. QED  BY <5>2, <5>3
      <4>2. CASE Slot(l) # Slot(held)
        <5>1. vertexPropCache'[Slot(l)] = vertexPropCache[Slot(l)] /\ l # held
          BY <3>3, <3>4, <4>2
        <5>. QED  BY <2>3, <5>1 DEF Handled
      <4>. QED  BY <4>1, <4>2
    <3>. QED  BY <2>1, <3>2, <3>5 DEF Covered, Handled
  <2>. QED  BY <2>2, <2>3 DEF Covered
<1>. QED  BY <1>1, <1>2, <1>3, TakeLineFacts, Zenon

\* Every source of a block read lies before the last burst asked for.
LEMMA AskedBelow ==
  ASSUME InputInv, CommandInv, Asked, NEW k \in DOMAIN input, k <= mapped,
         NEW v \in input[k].lo .. input[k].hi
  PROVE  v < Frontier
<1>1. /\ v \in Nat /\ input[k].hi \in Nat /\ v <= input[k].hi
  BY InputFacts DEF IsBlock
<1>2. input[k].hi + Margin \in Nat /\ v <= input[k].hi + Margin
  BY <1>1, Sizes
<1>3. /\ Index(v) \in Nat /\ Index(input[k].hi + Margin) \in Nat
      /\ Index(v) <= Index(input[k].hi + Margin)
      /\ v < (Index(v) + 1) * Burst
  BY <1>1, <1>2, IndexFacts, IndexMono
<1>4. Index(v) <= last_index
  BY <1>3, FrontierFacts DEF Asked
<1>5. last_index \in Int /\ Burst \in Nat
  BY FrontierFacts, Sizes
<1>6. (Index(v) + 1) * Burst <= (last_index + 1) * Burst
      /\ (Index(v) + 1) * Burst \in Int /\ (last_index + 1) * Burst \in Int
  <2>1. Index(v) + 1 <= last_index + 1 /\ Index(v) + 1 \in Int /\ last_index + 1 \in Int
    BY <1>3, <1>4, <1>5
  <2>. QED  BY <1>5, <2>1, MulMono
<1>. QED  BY <1>1, <1>3, <1>6 DEF Frontier

\* A burst asked for by a block covers the lines between the old frontier and
\* the new one, for no block before it needs them and no block after it begins
\* before its own first line.
LEMMA MapCovered ==
  ASSUME InputInv, CountInv, CommandInv, ChainInv, Loaded, Map,
         NEW k \in DOMAIN input, NEW v \in input[k].lo .. input[k].hi,
         Line(v) < Frontier', Line(v) < Frontier => Covered(Line(v))
  PROVE  Covered(Line(v))'
<1>. DEFINE l == Line(v)
            b == Data(mapped + 1)
            c == Command(FirstNew(b), LastNew(b))
<1>1. /\ UNCHANGED <<fetch, cacheStream, held, vertexPropCache>> /\ Asked
      /\ IsBlock(input[k])
  BY InputFacts DEF Map, readVars, ChainInv
<1>2. /\ v \in Nat /\ input[k].lo <= v /\ v <= input[k].hi
      /\ input[k].hi \in Nat /\ input[k].lo \in Nat
  BY <1>1 DEF IsBlock
<1>3. l \in Nat /\ l <= v /\ v < l + LineSize /\ l % LineSize = 0
  BY <1>2, LineFacts
<1>4. Frontier \in Nat /\ last_index \in Int /\ last_index >= -1
  BY FrontierFacts
<1>. HIDE DEF l
<1>5. CASE MapWrite
  <2>1. Cmds' = Cmds /\ Frontier' = Frontier
    BY <1>5, CmdsWrite DEF MapWrite, Frontier
  <2>2. Covered(l)
    BY <2>1 DEF l
  <2>3. Covered(l)'
    BY <1>1, <2>1, <2>2 DEF Covered, Pending, Handled
  <2>. QED  BY <2>3 DEF l
<1>6. CASE MapRead
  <2>1. mapped \in Nat /\ mapped + 1 \in Nat \ {0}
    BY DEF CountInv
  <2>2. IsBlock(b)
    BY <2>1, DataFacts
  <2>3. /\ b.lo \in Nat /\ Index(b.lo) \in Nat
        /\ LastNew(b) > last_index =>
             /\ c \in CommandType /\ ~c.flag /\ c.idx = FirstNew(b)
             /\ c.idx + c.size = LastNew(b) + 2
    BY <2>2, NeededFacts DEF CommandInv, IsBlock
  <2>4. \/ Cmds' = Cmds /\ last_index' = last_index
        \/ /\ mapped + 1 # EndToken /\ LastNew(b) > last_index
           /\ Cmds' = Append(Cmds, c) /\ last_index' = LastNew(b) + 1
        \/ /\ last_index' = last_index
           /\ \E e \in CommandType : Cmds' = Append(Cmds, e)
    BY <1>6, CmdsRead
  <2>5. \A e \in CommandType : Cmds' = Append(Cmds, e) =>
          /\ \A i \in DOMAIN Cmds : i \in DOMAIN Cmds' /\ Cmds'[i] = Cmds[i]
          /\ Len(Cmds) + 1 \in DOMAIN Cmds' /\ Cmds'[Len(Cmds) + 1] = e
    BY CmdsType, AppendEntries
  <2>. HIDE DEF b, c
  <2>6. \A i \in DOMAIN Cmds : i \in DOMAIN Cmds' /\ Cmds'[i] = Cmds[i]
    BY <2>3, <2>4, <2>5
  <2>7. ASSUME Covered(l)
        PROVE  Covered(l)'
    BY <1>1, <2>6, <2>7 DEF Covered, Pending, Handled
  <2>8. CASE l < Frontier
    BY <2>7, <2>8 DEF l
  <2>9. CASE ~(l < Frontier)
    <3>1. /\ mapped + 1 # EndToken /\ LastNew(b) > last_index
          /\ Cmds' = Append(Cmds, c) /\ last_index' = LastNew(b) + 1
      <4>1. ~(last_index' = last_index)
        BY <2>9 DEF Frontier, l
      <4>. QED  BY <2>4, <4>1
    <3>2. /\ c \in CommandType /\ c.idx = FirstNew(b)
          /\ c.idx + c.size = LastNew(b) + 2
          /\ Len(Cmds) + 1 \in DOMAIN Cmds' /\ Cmds'[Len(Cmds) + 1] = c
      BY <2>3, <2>5, <3>1
    <3>3. Stop(c) = Frontier'
      <4>1. LastNew(b) \in Nat
        BY <2>2, NeededFacts DEF CommandInv
      <4>2. LastNew(b) + 2 = last_index' + 1
        BY <3>1, <4>1
      <4>. QED  BY <3>2, <4>2 DEF Stop, Frontier
    <3>4. l < Stop(c)
      BY <3>3 DEF l
    <3>5. CASE Start(c) <= l
      <4>1. Pending(l)'
        BY <3>2, <3>4, <3>5 DEF Pending
      <4>. QED  BY <4>1 DEF Covered, l
    <3>6. CASE ~(Start(c) <= l)
      \* the block begins beyond the line, so the line is of a block before it
      <4>1. Start(c) \in Nat /\ Start(c) % LineSize = 0 /\ l < Start(c)
        BY <1>3, <3>2, <3>6, CommandLines
      <4>2. FirstNew(b) = Index(b.lo)
        <5>1. CASE FirstNew(b) = last_index + 1
          BY <1>3, <1>4, <2>9, <3>2, <4>1, <5>1 DEF Start, Frontier
        <5>. QED  BY <5>1 DEF FirstNew
      <4>3. Start(c) <= b.lo
        <5>1. Index(b.lo) * Burst <= Line(b.lo) /\ Line(b.lo) <= b.lo
              /\ Line(b.lo) \in Nat
          BY <2>3, IndexFacts, LineFacts
        <5>2. Start(c) = Index(b.lo) * Burst
          BY <3>2, <4>2 DEF Start
        <5>. QED  BY <2>3, <4>1, <5>1, <5>2
      <4>4. v < b.lo
        <5>1. l + LineSize <= Start(c) /\ LineSize \in Nat
          BY <1>3, <4>1, MultipleStep, Sizes
        <5>. QED  BY <1>2, <1>3, <2>3, <4>1, <4>3, <5>1
      <4>5. k <= mapped
        <5>1. DOMAIN input = 1 .. Len(input) /\ k \in Nat
          BY InputFacts
        <5>2. CASE k = mapped + 1
          BY <1>2, <2>1, <2>3, <4>4, <5>2, DataFacts DEF b
        <5>3. CASE mapped + 1 < k
          <6>1. mapped + 1 \in DOMAIN input
            BY <2>1, <5>1, <5>3, InputFacts
          <6>2. b = input[mapped + 1]
            BY <2>1, <6>1, DataFacts DEF b
          <6>3. b.hi <= input[k].lo /\ b.lo <= b.hi /\ b.hi \in Nat
            BY <2>2, <5>3, <6>1, <6>2, InputFacts DEF IsBlock
          <6>. QED  BY <1>2, <2>3, <4>4, <6>3
        <5>. QED  BY <2>1, <5>1, <5>2, <5>3
      <4>6. v < Frontier
        BY <1>1, <4>5, AskedBelow
      <4>. QED  BY <1>2, <1>3, <1>4, <2>9, <4>6
    <3>. QED  BY <3>5, <3>6
  <2>. QED  BY <2>8, <2>9
<1>. QED  BY <1>5, <1>6 DEF Map

LEMMA NextCoverage ==
  /\ TypeInv /\ ChainInv /\ OrderInv /\ Coverage /\ [Next]_vars
  => Coverage'
<1>. SUFFICES ASSUME TypeInv, ChainInv, OrderInv, Coverage, [Next]_vars,
                     Loaded', ~break_flag',
                     NEW k \in DOMAIN input', NEW v \in input'[k].lo .. input'[k].hi,
                     Line(v) < Frontier'
              PROVE  Covered(Line(v))'
  BY DEF Coverage
<1>1. /\ UNCHANGED input /\ k \in DOMAIN input /\ v \in input[k].lo .. input[k].hi
      /\ Loaded /\ LineOrder
  BY InputNext DEF Loaded, OrderInv
<1>2. ~break_flag /\ ~Drain
  <2>1. CASE Iterate
    BY <2>1 DEF Iterate, Drain
  <2>2. CASE ~Iterate
    <3>1. break_flag' = break_flag
      BY <2>2
      DEF Next, vars, Duplicate, Delay, Merge, Map, Fetch, Drain, Finished, readVars
    <3>. QED  BY <3>1 DEF Drain
  <2>. QED  BY <2>1, <2>2
<1>3. Line(v) < Frontier => Covered(Line(v))
  BY <1>1, <1>2 DEF Coverage
<1>4. Line(v) \in Nat /\ Line(v) % LineSize = 0
  <2>1. v \in Nat
    BY <1>1, InputFacts DEF TypeInv, IsBlock
  <2>. QED  BY <2>1, LineFacts
<1>5. CASE Map
  BY <1>1, <1>3, <1>5, MapCovered DEF TypeInv
<1>6. CASE ~Map
  <2>1. Frontier' = Frontier
    BY <1>6
    DEF Next, vars, Duplicate, Delay, Merge, Fetch, Iterate, Drain, Finished,
        cmdVars, Frontier
  <2>2. Covered(Line(v))
    BY <1>3, <2>1
  <2>3. CASE Fetch
    <3>1. UNCHANGED <<held, vertexPropCache>>
      BY <2>3 DEF Fetch, readVars
    <3>2. Pending(Line(v)) => Pending(Line(v))'
      BY <1>4, <2>3, FetchPending DEF TypeInv
    <3>. QED  BY <2>2, <3>1, <3>2 DEF Covered, Handled
  <2>4. CASE Iterate
    BY <1>1, <1>4, <2>2, <2>4, TakeCovered DEF TypeInv
  <2>5. CASE Duplicate \/ Delay \/ Merge \/ Finished \/ UNCHANGED vars
    <3>1. UNCHANGED <<cacheStream, fetch, cmdStream, issuing, held, vertexPropCache>>
      BY <2>5 DEF Duplicate, Delay, Merge, Finished, vars, cmdVars, readVars
    <3>2. Cmds' = Cmds
      BY <3>1 DEF Cmds
    <3>. QED  BY <2>2, <3>1, <3>2 DEF Covered, Pending, Handled
  <2>. QED  BY <1>2, <1>6, <2>3, <2>4, <2>5 DEF Next
<1>. QED  BY <1>5, <1>6

LEMMA InitCoverage == Init => Coverage
<1>. SUFFICES ASSUME Init, NEW k \in DOMAIN input, NEW v \in input[k].lo .. input[k].hi
              PROVE  ~(Line(v) < Frontier)
  BY DEF Coverage
<1>1. Frontier = 0
  <2>1. last_index + 1 = 0
    BY DEF Init, NoIndex
  <2>. QED  BY <2>1, Sizes DEF Frontier
<1>2. v \in Nat
  <2>1. InputInv
    BY DEF Init, InputInv
  <2>. QED  BY <2>1, InputFacts DEF IsBlock
<1>. QED  BY <1>1, <1>2, LineFacts
-----------------------------------------------------------------------------
(***************************************************************************)
(* Every look-up is fresh.                                                 *)
(***************************************************************************)

FreshInv == /\ TypeInv /\ ChainInv /\ OrderInv
            /\ BlockInv /\ BoundInv /\ Coverage

LEMMA InitFreshInv == Init => FreshInv
  BY InitTypeInv, InitChain, InitOrder, InitBlockBound, InitCoverage DEF FreshInv

LEMMA NextFreshInv == FreshInv /\ [Next]_vars => FreshInv'
<1>. SUFFICES ASSUME FreshInv, [Next]_vars  PROVE FreshInv'
  OBVIOUS
<1>1. /\ TypeInv /\ ChainInv /\ OrderInv /\ BlockInv /\ BoundInv /\ Coverage
      /\ InputInv /\ CountInv /\ CommandInv /\ FetchInv /\ LineInv /\ RegisterInv
  BY DEF FreshInv, TypeInv
<1>. QED
  BY <1>1, NextTypeInv, NextChain, NextOrder, NextBlock, NextBound, NextCoverage
  DEF FreshInv

LEMMA FreshInvariant == Spec => []FreshInv
  BY InitFreshInv, NextFreshInv, PTL DEF Spec

\* No line below the one held is pending.
LEMMA NonePending ==
  ASSUME CommandInv, FetchInv, LineInv, ChainInv, LineOrder, Loaded,
         NEW l \in Nat, l < held
  PROVE  ~Pending(l)
<1>0. /\ CmdRange /\ FetchRange /\ held \in Int
      /\ fetch.at \in Nat /\ fetch.stop \in Nat
  BY LineNumbers DEF ChainInv, FetchInv
<1>1. ASSUME NEW i \in DOMAIN cacheStream
      PROVE  cacheStream[i] # l
  BY <1>0, LineNumbers DEF LineOrder
<1>2. ~(fetch.at <= l /\ l < fetch.stop)
  <2>1. CASE fetch.end
    BY <1>0, <2>1 DEF FetchRange
  <2>2. CASE ~fetch.end
    BY <1>0, <2>2 DEF LineOrder
  <2>. QED  BY <2>1, <2>2
<1>3. ASSUME NEW i \in DOMAIN Cmds, Start(Cmds[i]) <= l, l < Stop(Cmds[i])
      PROVE  FALSE
  <2>1. Cmds[i] \in CommandType
    BY CmdsType
  <2>2. ~fetch.end
    BY <1>0 DEF FetchRange
  <2>3. CASE Cmds[i].flag
    <3>1. Stop(Cmds[i]) = 0
      BY <1>0, <2>3, Sizes DEF CmdRange, Stop
    <3>. QED  BY <1>3, <3>1
  <2>4. CASE ~Cmds[i].flag
    <3>1. fetch.stop <= Start(Cmds[i]) /\ Start(Cmds[i]) \in Nat
      BY <1>0, <2>1, <2>4, CommandLines DEF CmdRange
    <3>2. held < fetch.at /\ fetch.at <= fetch.stop
      BY <1>0, <2>2 DEF LineOrder, FetchRange
    <3>. QED  BY <1>0, <1>3, <3>1, <3>2
  <2>. QED  BY <2>3, <2>4
<1>. QED  BY <1>1, <1>2, <1>3 DEF Pending

\* A line held lies before the last burst asked for, until all is asked for.
LEMMA HeldBelow ==
  ASSUME CommandInv, FetchInv, LineInv, ChainInv, LineOrder, Loaded,
         mapped # EndToken
  PROVE  held < Frontier
<1>1. FetchRange /\ held \in Int /\ fetch.at \in Nat /\ fetch.stop \in Nat
      /\ Frontier \in Nat
  BY LineNumbers, FrontierFacts DEF ChainInv, FetchInv
<1>2. held < fetch.at /\ fetch.at <= fetch.stop /\ fetch.stop <= Frontier
  BY <1>1 DEF FetchRange, LineOrder
<1>. QED  BY <1>1, <1>2

\* What these facts say of the line held.
HeldFacts ==
  TypeInv /\ ChainInv /\ OrderInv /\ Loaded =>
    /\ held \in Int /\ (held # NoLine => held \in Nat) /\ Frontier \in Nat
    /\ mapped # EndToken => held < Frontier
    /\ mapped = EndToken =>
         \A k \in DOMAIN input : \A v \in input[k].lo .. input[k].hi : v < Frontier
    /\ \A l \in Nat : l < held => ~Pending(l)

LEMMA HeldFactsHold == HeldFacts
<1>. SUFFICES ASSUME TypeInv, ChainInv, OrderInv, Loaded
              PROVE  /\ held \in Int /\ (held # NoLine => held \in Nat) /\ Frontier \in Nat
                     /\ mapped # EndToken => held < Frontier
                     /\ mapped = EndToken =>
                          \A k \in DOMAIN input :
                            \A v \in input[k].lo .. input[k].hi : v < Frontier
                     /\ \A l \in Nat : l < held => ~Pending(l)
  BY DEF HeldFacts
<1>1. InputInv /\ CommandInv /\ FetchInv /\ LineInv /\ LineOrder /\ Asked
  BY DEF TypeInv, OrderInv, ChainInv
<1>2. held \in Int /\ (held # NoLine => held \in Nat) /\ Frontier \in Nat
  BY <1>1, LineNumbers, FrontierFacts
<1>3. ASSUME mapped = EndToken, NEW k \in DOMAIN input,
             NEW v \in input[k].lo .. input[k].hi
      PROVE  v < Frontier
  <2>1. k <= mapped
    BY <1>1, <1>3, InputFacts
  <2>. QED  BY <1>1, <2>1, AskedBelow
<1>. QED  BY <1>1, <1>2, <1>3, HeldBelow, NonePending

LEMMA HeldFactsNext == HeldFacts'
  BY HeldFactsHold, PTL

LEMMA LookupFresh ==
  ASSUME FreshInv, FreshInv', [Next]_vars, Lookup,
         NEW v \in input[blocks].lo .. input[blocks].hi
  PROVE  vertexPropCache'[Slot(v)] = Line(v)
<1>. DEFINE l == Line(v)
            b == input[blocks]
<1>1. /\ InputInv /\ CountInv /\ LineInv /\ BlockInv /\ BoundInv /\ RegisterInv
      /\ TypeInv' /\ LineInv' /\ ChainInv' /\ OrderInv'
      /\ Coverage'
  BY DEF FreshInv, TypeInv
<1>2. /\ blocks \in Nat /\ blocks \in DOMAIN input /\ blocks <= Len(input)
      /\ blocks # EndToken /\ blocks' = blocks + 1 /\ UNCHANGED input
      /\ Loaded'
  <2>1. /\ Len(input) \in Nat /\ DOMAIN input = 1 .. Len(input)
        /\ EndToken = Len(input) + 1
    BY <1>1, InputFacts
  <2>2. blocks \in 1 .. Len(input) /\ blocks' = blocks + 1
    BY DEF Lookup
  <2>3. input # <<>>
    BY <2>1, <2>2
  <2>. QED  BY <2>1, <2>2, <2>3, InputNext DEF Loaded
<1>3. IsBlock(b)
  BY <1>1, <1>2, InputFacts
<1>4. /\ v \in Nat /\ b.lo \in Nat /\ b.hi \in Nat /\ b.lo <= v /\ v <= b.hi
      /\ b.hi < ENDFLAG
  <2>1. b.lo \in Nat /\ b.hi \in Nat /\ b.hi + Margin + 3 * Burst <= ENDFLAG
    BY <1>3 DEF IsBlock
  <2>. QED  BY <2>1, Sizes
<1>5. l \in Nat /\ l <= v /\ v < l + LineSize /\ l % LineSize = 0
  BY <1>4, LineFacts
<1>6. /\ processing_value = b.hi /\ min_processing_value = b.lo
  BY <1>1, <1>2 DEF BlockInv
<1>7. Iterate
  <2>1. blocks' # blocks
    BY <1>2
  <2>. QED
    BY <2>1
    DEF Next, vars, Duplicate, Delay, Merge, Map, Fetch, Drain, Finished, readVars
<1>8. /\ TakeLine /\ b.hi < caching_value' /\ ~break_flag'
  <2>1. /\ TakeLine /\ Passed(caching_value')
        /\ break_flag' = (blocks = EndToken)
    <3>1. blocks' # blocks
      BY <1>2
    <3>. QED  BY <1>7, <3>1, TakeBlockFacts
  <2>2. b.hi # ENDFLAG
    BY <1>4, Sizes
  <2>3. b.hi < caching_value'
    BY <1>6, <2>1, <2>2 DEF Passed
  <2>4. ~break_flag'
    BY <1>2, <2>1, Zenon
  <2>. QED  BY <2>1, <2>3, <2>4
<1>. HIDE DEF b, l
<1>9. /\ held' \in Int /\ (held' # NoLine => held' \in Nat) /\ Frontier' \in Nat
      /\ mapped' # EndToken' => held' < Frontier'
      /\ mapped' = EndToken' =>
           \A k \in DOMAIN input : \A u \in input[k].lo .. input[k].hi : u < Frontier'
      /\ \A m \in Nat : m < held' => ~Pending(m)'
  BY <1>1, <1>2, HeldFactsNext DEF HeldFacts
<1>10. held' # NoLine /\ l < held' /\ l # held'
  <2>1. caching_value' = IF held' = NoLine THEN 0 ELSE held'
    BY <1>1 DEF LineInv
  <2>2. held' # NoLine /\ caching_value' = held'
    BY <1>4, <1>8, <2>1
  <2>. QED  BY <1>4, <1>5, <1>8, <1>9, <2>2
<1>11. l < Frontier'
  <2>1. CASE mapped' = EndToken'
    <3>1. v < Frontier'
      BY <1>2, <1>9, <2>1 DEF b
    <3>. QED  BY <1>4, <1>5, <1>9, <3>1
  <2>2. CASE mapped' # EndToken'
    BY <1>5, <1>9, <1>10, <2>2
  <2>. QED  BY <2>1, <2>2
<1>12. Covered(l)'
  <2>1. blocks \in DOMAIN input' /\ v \in input'[blocks].lo .. input'[blocks].hi
    BY <1>2
  <2>. QED  BY <1>1, <1>2, <1>8, <1>11, <2>1 DEF Coverage, l
<1>13. ~Pending(l)'
  BY <1>5, <1>9, <1>10
<1>14. Slot(l) \in CacheSlots /\ Slot(l) = Slot(v)
  BY <1>4, SlotOfLine DEF l, CacheSlots
<1>15. vertexPropCache'[Slot(l)] < b.lo + CacheSize - Margin
  <2>. DEFINE m == min_processing_value + CacheSize - Margin
  <2>1. m \in Int /\ m = b.lo + CacheSize - Margin
    BY <1>4, <1>6, Sizes
  <2>2. CacheBelow(m)
    BY <1>1, <1>2 DEF BoundInv
  <2>3. \A s \in CacheSlots : vertexPropCache'[s] < m
    BY <1>1, <1>8, <2>1, <2>2, TakeLineBound
  <2>. HIDE DEF m
  <2>. QED  BY <1>14, <2>1, <2>3
<1>16. ~(vertexPropCache'[Slot(l)] >= l + CacheSize)
  <2>1. vertexPropCache'[Slot(l)] \in Int
    <3>1. vertexPropCache' \in [CacheSlots -> RealLines \cup {NoLine}]
      BY <1>1 DEF LineInv
    <3>. QED  BY <1>14, <3>1 DEF RealLines, NoLine
  <2>. QED  BY <1>4, <1>5, <1>15, <2>1, Sizes
<1>17. vertexPropCache'[Slot(l)] = l
  BY <1>10, <1>12, <1>13, <1>16 DEF Covered, Handled
<1>. QED  BY <1>14, <1>17 DEF l

\* A look-up of readEdgesStage finds the property of the very vertex asked
\* for: the line was requested before the block was let through, has arrived,
\* and no later line has taken its slot (fpga_cache.h readEdgesStage against
\* updateVertexCache and stream2Command).
THEOREM LookupsFresh == Spec => FreshRead
<1>1. FreshInv /\ FreshInv' /\ [Next]_vars =>
        [Lookup => \A v \in input[blocks].lo .. input[blocks].hi :
                     vertexPropCache'[Slot(v)] = Line(v)]_vars
  BY LookupFresh
<1>. QED  BY <1>1, FreshInvariant, PTL DEF Spec, FreshRead
=============================================================================
