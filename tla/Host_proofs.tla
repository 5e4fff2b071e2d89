----------------------------- MODULE Host_proofs -----------------------------
(***************************************************************************)
(* What the host prepares before the first kernel is started: the registry *)
(* of memories, for any number of partitions and units, and the loading    *)
(* and cutting of a graph into lists of edges with the arrangements of the *)
(* scheduler, for every graph file, number of units, partition size,       *)
(* alignment and estimator.                                                *)
(***************************************************************************)
EXTENDS Memory, Partition, WellFoundedInduction, FiniteSetTheorems, TLAPS

-----------------------------------------------------------------------------
(* The registry finds what it was asked for: no two memories have one id,  *)
(* so the first entry with an id is the memory itself.                     *)

PartitionTables == {"edgeTail", "edgeHead", "edgeProp", "tmpProp"}
GsTables == {"propPing", "cuTmpProp", "propPong"}

(* The place of a table in the ids of a sub-partition or unit              *)
Place(n) == CASE n \in {"edgeTail", "propPing"}  -> 0
              [] n \in {"edgeHead", "cuTmpProp"} -> 1
              [] n \in {"edgeProp", "propPong"}  -> 2
              [] n = "tmpProp"                   -> 3

LEMMA PartitionId ==
    ASSUME NEW n \in PartitionTables, NEW i \in Nat
    PROVE  MemId(<<n, i>>) = PartitionBase + i * Offset + Place(n) /\ Place(n) \in 0 .. 3
BY DEF MemId, Place, PartitionTables, PartitionBase, Offset

LEMMA GsId ==
    ASSUME NEW n \in GsTables, NEW i \in Nat
    PROVE  MemId(<<n, i>>) = GsBase + i * Offset + Place(n) /\ Place(n) \in 0 .. 2
BY DEF MemId, Place, GsTables, GsBase, Offset

LEMMA BaseId ==
    ASSUME NEW i \in BaseIds
    PROVE  MemId(<<"base", i>>) = i /\ i \in 1 .. 26
BY DEF MemId, BaseIds

LEMMA DescriptorKinds ==
    ASSUME NEW d \in Descriptors
    PROVE  \/ \E i \in BaseIds : d = <<"base", i>>
           \/ \E n \in PartitionTables, i \in Nat : d = <<n, i>>
           \/ \E n \in GsTables, i \in Nat : d = <<n, i>>
<1>1. \A cu \in Units : cu \in Nat
  BY DEF Units
<1> QED
  BY <1>1 DEF Descriptors, Base, PartitionTables, GsTables

(* Ids with equal places are 128 apart, ids with different places never    *)
(* meet: the remainders modulo 128 are 100 to 103 and 0 to 2.              *)
LEMMA WithinPartitions ==
    ASSUME NEW i \in Nat, NEW j \in Nat, NEW a \in 0 .. 3, NEW b \in 0 .. 3,
           PartitionBase + i * Offset + a = PartitionBase + j * Offset + b
    PROVE  i = j /\ a = b
BY SMT DEF PartitionBase, Offset

LEMMA WithinGs ==
    ASSUME NEW i \in Nat, NEW j \in Nat, NEW a \in 0 .. 3, NEW b \in 0 .. 3,
           GsBase + i * Offset + a = GsBase + j * Offset + b
    PROVE  i = j /\ a = b
BY SMT DEF GsBase, Offset

LEMMA Apart ==
    ASSUME NEW i \in Nat, NEW j \in Nat, NEW a \in 0 .. 3, NEW b \in 0 .. 3
    PROVE  PartitionBase + i * Offset + a # GsBase + j * Offset + b
BY SMT DEF PartitionBase, GsBase, Offset

LEMMA BaseApart ==
    ASSUME NEW x \in 1 .. 26, NEW i \in Nat, NEW a \in 0 .. 3
    PROVE  x # PartitionBase + i * Offset + a /\ x # GsBase + i * Offset + a
BY SMT DEF PartitionBase, GsBase, Offset

(* One place of a table names the table.                                   *)
LEMMA PlaceNames ==
    /\ \A n, k \in PartitionTables : Place(n) = Place(k) => n = k
    /\ \A n, k \in GsTables : Place(n) = Place(k) => n = k
BY DEF Place, PartitionTables, GsTables

(* No two memories of the program have the same id, however many           *)
(* partitions and units there are: he_mem.cpp never checks it (:112).      *)
THEOREM NoIdTwice == IdsDistinct
<1> SUFFICES ASSUME NEW d \in Descriptors, NEW e \in Descriptors,
                    MemId(d) = MemId(e)
             PROVE  d = e
  BY DEF IdsDistinct
<1>1. CASE \E i \in BaseIds : d = <<"base", i>>
  <2>1. PICK i \in BaseIds : d = <<"base", i>>
    BY <1>1
  <2>2. MemId(d) = i /\ i \in 1 .. 26
    BY <2>1, BaseId
  <2>3. CASE \E j \in BaseIds : e = <<"base", j>>
    BY <2>1, <2>2, <2>3, BaseId
  <2>4. CASE \E n \in PartitionTables, j \in Nat : e = <<n, j>>
    <3>1. PICK n \in PartitionTables, j \in Nat : e = <<n, j>>
      BY <2>4
    <3>2. MemId(e) = PartitionBase + j * Offset + Place(n) /\ Place(n) \in 0 .. 3
      BY <3>1, PartitionId
    <3> QED
      BY <2>2, <3>2, BaseApart, Zenon
  <2>5. CASE \E n \in GsTables, j \in Nat : e = <<n, j>>
    <3>1. PICK n \in GsTables, j \in Nat : e = <<n, j>>
      BY <2>5
    <3>2. MemId(e) = GsBase + j * Offset + Place(n) /\ Place(n) \in 0 .. 3
      BY <3>1, GsId
    <3> QED
      BY <2>2, <3>2, BaseApart, Zenon
  <2> QED
    BY <2>3, <2>4, <2>5, DescriptorKinds
<1>2. CASE \E n \in PartitionTables, i \in Nat : d = <<n, i>>
  <2>1. PICK n \in PartitionTables, i \in Nat : d = <<n, i>>
    BY <1>2
  <2>2. MemId(d) = PartitionBase + i * Offset + Place(n) /\ Place(n) \in 0 .. 3
    BY <2>1, PartitionId
  <2>3. CASE \E j \in BaseIds : e = <<"base", j>>
    <3>1. PICK j \in BaseIds : e = <<"base", j>>
      BY <2>3
    <3>2. MemId(e) = j /\ j \in 1 .. 26
      BY <3>1, BaseId
    <3> QED
      BY <2>2, <3>2, BaseApart, Zenon
  <2>4. CASE \E k \in PartitionTables, j \in Nat : e = <<k, j>>
    <3>1. PICK k \in PartitionTables, j \in Nat : e = <<k, j>>
      BY <2>4
    <3>2. MemId(e) = PartitionBase + j * Offset + Place(k) /\ Place(k) \in 0 .. 3
      BY <3>1, PartitionId
    <3>3. i = j /\ Place(n) = Place(k)
      <4>1. PartitionBase + i * Offset + Place(n)
              = PartitionBase + j * Offset + Place(k)
        BY <2>2, <3>2, Zenon
      <4>2. PICK a \in 0 .. 3, b \in 0 .. 3 : a = Place(n) /\ b = Place(k)
        BY <2>2, <3>2
      <4>3. PartitionBase + i * Offset + a = PartitionBase + j * Offset + b
        BY <4>1, <4>2, Zenon
      <4>4. i = j /\ a = b
        BY <4>3, WithinPartitions
      <4> QED
        BY <4>2, <4>4
    <3> QED
      BY <2>1, <3>1, <3>3, PlaceNames
  <2>5. CASE \E k \in GsTables, j \in Nat : e = <<k, j>>
    <3>1. PICK k \in GsTables, j \in Nat : e = <<k, j>>
      BY <2>5
    <3>2. MemId(e) = GsBase + j * Offset + Place(k) /\ Place(k) \in 0 .. 3
      BY <3>1, GsId
    <3> QED
      BY <2>2, <3>2, Apart, Zenon
  <2> QED
    BY <2>3, <2>4, <2>5, DescriptorKinds
<1>3. CASE \E n \in GsTables, i \in Nat : d = <<n, i>>
  <2>1. PICK n \in GsTables, i \in Nat : d = <<n, i>>
    BY <1>3
  <2>2. MemId(d) = GsBase + i * Offset + Place(n) /\ Place(n) \in 0 .. 3
    BY <2>1, GsId
  <2>3. CASE \E j \in BaseIds : e = <<"base", j>>
    <3>1. PICK j \in BaseIds : e = <<"base", j>>
      BY <2>3
    <3>2. MemId(e) = j /\ j \in 1 .. 26
      BY <3>1, BaseId
    <3> QED
      BY <2>2, <3>2, BaseApart, Zenon
  <2>4. CASE \E k \in PartitionTables, j \in Nat : e = <<k, j>>
    <3>1. PICK k \in PartitionTables, j \in Nat : e = <<k, j>>
      BY <2>4
    <3>2. MemId(e) = PartitionBase + j * Offset + Place(k) /\ Place(k) \in 0 .. 3
      BY <3>1, PartitionId
    <3> QED
      BY <2>2, <3>2, Apart, Zenon
  <2>5. CASE \E k \in GsTables, j \in Nat : e = <<k, j>>
    <3>1. PICK k \in GsTables, j \in Nat : e = <<k, j>>
      BY <2>5
    <3>2. MemId(e) = GsBase + j * Offset + Place(k) /\ Place(k) \in 0 .. 3
      BY <3>1, GsId
    <3>3. i = j /\ Place(n) = Place(k)
      <4>1. GsBase + i * Offset + Place(n) = GsBase + j * Offset + Place(k)
        BY <2>2, <3>2, Zenon
      <4>2. PICK a \in 0 .. 3, b \in 0 .. 3 : a = Place(n) /\ b = Place(k)
        BY <2>2, <3>2
      <4>3. GsBase + i * Offset + a = GsBase + j * Offset + b
        BY <4>1, <4>2, Zenon
      <4>4. i = j /\ a = b
        BY <4>3, WithinGs
      <4> QED
        BY <4>2, <4>4
    <3> QED
      BY <2>1, <3>1, <3>3, PlaceNames
  <2> QED
    BY <2>3, <2>4, <2>5, DescriptorKinds
<1> QED
  BY <1>1, <1>2, <1>3, DescriptorKinds

(* get_he_mem answers with the memory asked for if it is registered, and   *)
(* with NULL if it is not, whatever else is on the list and however often: *)
(* no kernel is given, and no transfer moves, another memory.              *)
THEOREM LookupFinds ==
    ASSUME NEW m, m.list \in Seq(Descriptors), NEW d \in Descriptors
    PROVE  GetHeMem(m, d) =
             IF \E i \in DOMAIN m.list : m.list[i] = d THEN d ELSE None
<1> DEFINE found == {i \in DOMAIN m.list : MemId(m.list[i]) = MemId(d)}
<1>1. \A i \in DOMAIN m.list : m.list[i] \in Descriptors
  OBVIOUS
<1>2. \A i \in DOMAIN m.list : MemId(m.list[i]) = MemId(d) <=> m.list[i] = d
  BY <1>1, NoIdTwice DEF IdsDistinct
<1>3. found \subseteq Nat
  OBVIOUS
<1>4. CASE found = {}
  BY <1>2, <1>4 DEF GetHeMem
<1>5. CASE found # {}
  <2>1. \E i \in found : \A j \in found : i <= j
    <3>1. PICK i \in found : \A j \in found : <<j, i>> \notin OpToRel(<, Nat)
      BY <1>3, <1>5, NatLessThanWellFounded, WFMin
    <3>2. \A j \in found : ~ (j < i)
      BY <1>3, <3>1 DEF OpToRel
    <3> QED
      BY <1>3, <3>2
  <2>2. (CHOOSE i \in found : \A j \in found : i <= j) \in found
    BY <2>1
  <2>3. GetHeMem(m, d) = m.list[CHOOSE i \in found : \A j \in found : i <= j]
    BY <1>5 DEF GetHeMem
  <2> QED
    BY <1>2, <1>5, <2>2, <2>3
<1> QED
  BY <1>4, <1>5

-----------------------------------------------------------------------------
(* How the padded edges of a partition are cut into parts: for every       *)
(* number of units and every alignment the parts tile the edges.           *)

(* Integer division, the form in which it is used below.                   *)
LEMMA Division ==
    ASSUME NEW a \in Nat, NEW b \in Nat \ {0}
    PROVE  /\ a \div b \in Nat
           /\ b * (a \div b) <= a
           /\ a < b * (a \div b) + b
  OBVIOUS

(* A larger factor gives a product larger by at least one summand.         *)
LEMMA Steps ==
    ASSUME NEW m \in Nat, NEW i \in Nat, NEW j \in Nat, i < j
    PROVE  m * i + m <= m * j
<1>1. j = i + 1 + (j - i - 1) /\ j - i - 1 \in Nat
  OBVIOUS
<1>2. m * j = m * i + m + m * (j - i - 1)
  BY <1>1
<1>3. \A x \in Nat : m * x \in Nat
  OBVIOUS
<1> QED
  BY <1>1, <1>2, <1>3

(* The parts fit in the partition.                                         *)
LEMMA PartsFit ==
    ASSUME NEW total \in Nat
    PROVE  /\ SubPartitionSize(total) \in Nat
           /\ SubPartitionSize(total) * SUB_PARTITION_NUM <= total
           /\ total < SubPartitionSize(total) * SUB_PARTITION_NUM
                        + SUB_PARTITION_NUM * ALIGN_SIZE
<1> DEFINE q == total \div SUB_PARTITION_NUM
           blocks == q \div ALIGN_SIZE
           size == SubPartitionSize(total)
<1>1. SUB_PARTITION_NUM \in Nat \ {0} /\ ALIGN_SIZE \in Nat \ {0}
  BY PartitionAssumption
<1>2. /\ q \in Nat
      /\ SUB_PARTITION_NUM * q <= total
      /\ total < SUB_PARTITION_NUM * q + SUB_PARTITION_NUM
  BY <1>1, Division
<1>3. /\ blocks \in Nat
      /\ ALIGN_SIZE * blocks <= q
      /\ q < ALIGN_SIZE * blocks + ALIGN_SIZE
  BY <1>1, <1>2, Division
<1>4. size = ALIGN_SIZE * blocks
  BY <1>1, <1>3 DEF SubPartitionSize
<1> HIDE DEF q, blocks, size
<1>5. size \in Nat
  BY <1>1, <1>3, <1>4
<1>6. \A x, y \in Nat : x <= y => SUB_PARTITION_NUM * x <= SUB_PARTITION_NUM * y
  BY <1>1
<1>7. SUB_PARTITION_NUM * size <= SUB_PARTITION_NUM * q
  BY <1>2, <1>3, <1>4, <1>5, <1>6
<1>8. q + 1 <= size + ALIGN_SIZE
  BY <1>1, <1>2, <1>3, <1>4, <1>5
<1>9. SUB_PARTITION_NUM * (q + 1) <= SUB_PARTITION_NUM * (size + ALIGN_SIZE)
  <2>1. q + 1 \in Nat /\ size + ALIGN_SIZE \in Nat
    BY <1>1, <1>2, <1>5
  <2> QED
    BY <2>1, <1>6, <1>8
<1>10. /\ SUB_PARTITION_NUM * (q + 1) = SUB_PARTITION_NUM * q + SUB_PARTITION_NUM
       /\ SUB_PARTITION_NUM * (size + ALIGN_SIZE)
            = size * SUB_PARTITION_NUM + SUB_PARTITION_NUM * ALIGN_SIZE
       /\ SUB_PARTITION_NUM * size = size * SUB_PARTITION_NUM
  BY <1>1, <1>2, <1>5
<1>11. /\ SUB_PARTITION_NUM * q \in Int
       /\ size * SUB_PARTITION_NUM \in Int
       /\ SUB_PARTITION_NUM * ALIGN_SIZE \in Int
  BY <1>1, <1>2, <1>5
<1>12. /\ size * SUB_PARTITION_NUM <= total
       /\ total < size * SUB_PARTITION_NUM + SUB_PARTITION_NUM * ALIGN_SIZE
  BY <1>1, <1>2, <1>7, <1>9, <1>10, <1>11
<1> QED
  BY <1>5, <1>12 DEF size

(* The last part gets what is left, every other part the common size.      *)
LEMMA PartEnds ==
    ASSUME NEW total \in Nat, NEW r \in Cus
    PROVE  ListEnd(total, r) = IF r = SUB_PARTITION_NUM - 1
                               THEN total - SubPartitionSize(total) * r
                               ELSE SubPartitionSize(total)
<1>1. CASE r = SUB_PARTITION_NUM - 1
  <2>1. SubPartitionSize(total) * (r + 1) + SUB_PARTITION_NUM * ALIGN_SIZE > total
    <3>1. r + 1 = SUB_PARTITION_NUM
      BY <1>1, PartitionAssumption
    <3> QED
      BY <3>1, PartsFit
  <2> QED
    BY <2>1, <1>1 DEF ListEnd
<1>2. CASE r # SUB_PARTITION_NUM - 1
  BY <1>2 DEF ListEnd
<1> QED
  BY <1>1, <1>2

(* Part r of a partition with total edges has the edge at index k.         *)
Has(total, r, k) ==
    /\ SubPartitionSize(total) * r <= k
    /\ k < SubPartitionSize(total) * r + ListEnd(total, r)

(* Every edge of a partition, padding included, is in exactly one part     *)
(* (host_graph_partition.cpp:254-276).                                     *)
THEOREM PartsTile ==
    ASSUME NEW total \in Nat, NEW k \in 0..total - 1
    PROVE  \E r \in Cus : /\ Has(total, r, k)
                          /\ \A s \in Cus : Has(total, s, k) => s = r
<1> DEFINE size == SubPartitionSize(total)
           last == SUB_PARTITION_NUM - 1
<1>1. /\ size \in Nat
      /\ SUB_PARTITION_NUM \in Nat \ {0}
      /\ last \in Cus /\ last \in Nat
      /\ \A r \in Cus : r \in Nat /\ r <= last
  BY PartsFit, PartitionAssumption DEF Cus
<1>2. \A r \in Cus : Has(total, r, k) <=>
         /\ size * r <= k
         /\ r = last \/ k < size * r + size
  <2> SUFFICES ASSUME NEW r \in Cus
               PROVE  Has(total, r, k) <=>
                         /\ size * r <= k
                         /\ r = last \/ k < size * r + size
    OBVIOUS
  <2>1. size * r \in Int
    BY <1>1
  <2>2. CASE r = last
    BY <2>1, <2>2, PartEnds DEF Has
  <2>3. CASE r # last
    BY <2>1, <2>3, PartEnds DEF Has
  <2> QED
    BY <2>2, <2>3
<1> HIDE DEF size, last
<1>3. \A r, s \in Cus : Has(total, r, k) /\ Has(total, s, k) => ~(r < s)
  <2> SUFFICES ASSUME NEW r \in Cus, NEW s \in Cus, r < s,
                      Has(total, r, k), Has(total, s, k)
               PROVE  FALSE
    OBVIOUS
  <2>1. r # last
    BY <1>1
  <2>2. k < size * r + size /\ size * s <= k
    BY <1>2, <2>1
  <2>3. size * r + size <= size * s
    BY <1>1, Steps
  <2>4. size * r \in Int /\ size * s \in Int
    BY <1>1
  <2> QED
    BY <1>1, <2>2, <2>3, <2>4
<1>4. \E r \in Cus : Has(total, r, k)
  <2>1. CASE size * last <= k
    BY <1>1, <1>2, <2>1
  <2>2. CASE ~(size * last <= k)
    <3>1. size \in Nat \ {0}
      BY <1>1, <2>2
    <3>2. /\ k \div size \in Nat
          /\ size * (k \div size) <= k
          /\ k < size * (k \div size) + size
      BY <3>1, Division
    <3>3. k \div size < last
      <4> SUFFICES ASSUME last <= k \div size
                   PROVE  FALSE
        BY <1>1, <3>2
      <4>1. size * last <= size * (k \div size)
        <5>1. CASE last = k \div size
          BY <5>1, <1>1, <3>2
        <5>2. CASE last < k \div size
          <6>1. size * last + size <= size * (k \div size)
            BY <5>2, <1>1, <3>2, Steps
          <6>2. size * last \in Int /\ size * (k \div size) \in Int
            BY <1>1, <3>2
          <6> QED
            BY <6>1, <6>2, <1>1
        <5> QED
          BY <5>1, <5>2, <1>1, <3>2
      <4>2. size * last \in Int /\ size * (k \div size) \in Int
        BY <1>1, <3>2
      <4> QED
        BY <4>1, <4>2, <3>2, <2>2
    <3>4. k \div size \in Cus
      BY <3>2, <3>3, <1>1 DEF Cus, last
    <3> QED
      BY <1>2, <3>2, <3>4
  <2> QED
    BY <2>1, <2>2
<1>5. PICK r \in Cus : Has(total, r, k)
  BY <1>4
<1>6. \A s \in Cus : Has(total, s, k) => s = r
  BY <1>1, <1>3, <1>5
<1> QED
  BY <1>5, <1>6

-----------------------------------------------------------------------------
(* Counting.  What the loops over the vertices and the edges leave behind  *)
(* is said with ranks: the number of elements below one.                   *)

(* A set of natural numbers has a least element; induction over a set.     *)
LEMMA LeastNat ==
    ASSUME NEW T, T \subseteq Nat, T # {}
    PROVE  \E m \in T : \A j \in T : m <= j
<1> DEFINE less == OpToRel(<, Nat)
<1>1. IsWellFoundedOn(less, Nat)
  BY NatLessThanWellFounded DEF OpToRel
<1>2. PICK m \in T : \A j \in T : ~ (<<j, m>> \in less)
  <2> HIDE DEF less
  <2> QED
    BY <1>1, WFMin
<1>3. \A j \in T : ~ (j < m)
  BY <1>2 DEF OpToRel
<1> QED
  BY <1>3

LEMMA SetInduction ==
    ASSUME NEW P, 0 \in P, \A n \in Nat : n \in P => n + 1 \in P
    PROVE  \A n \in Nat : n \in P
<1> DEFINE bad == Nat \ P
<1> SUFFICES ASSUME bad # {} PROVE FALSE
  OBVIOUS
<1>1. bad \subseteq Nat
  OBVIOUS
<1>2. PICK m \in bad : \A j \in bad : m <= j
  BY <1>1, LeastNat
<1>3. m \in Nat /\ m \notin P
  OBVIOUS
<1>4. m # 0
  BY <1>3
<1>5. m - 1 \in Nat /\ (m - 1) + 1 = m /\ ~ (m <= m - 1)
  BY <1>3, <1>4
<1>6. m - 1 \notin P
  BY <1>3, <1>5
<1>7. m - 1 \in bad
  BY <1>5, <1>6
<1> QED
  BY <1>2, <1>5, <1>7

RankIn(W, R, x) == Cardinality({y \in W : <<y, x>> \in R})

(* In a finite set with a total order, ranks follow the order, and every   *)
(* number below the size of the set is the rank of one element.            *)
LEMMA Ranks ==
    ASSUME NEW W, IsFiniteSet(W), NEW R,
           \A x \in W : <<x, x>> \notin R,
           \A x, y, z \in W : <<x, y>> \in R /\ <<y, z>> \in R => <<x, z>> \in R,
           \A x, y \in W : x # y => <<x, y>> \in R \/ <<y, x>> \in R
    PROVE  /\ \A x \in W : RankIn(W, R, x) \in 0..Cardinality(W) - 1
           /\ \A x, y \in W : <<x, y>> \in R => RankIn(W, R, x) < RankIn(W, R, y)
           /\ \A k \in 0..Cardinality(W) - 1 : \E x \in W : RankIn(W, R, x) = k
<1> DEFINE B(x) == {y \in W : <<y, x>> \in R}
           n == Cardinality(W)
<1>1. n \in Nat
  BY FS_CardinalityType
<1>2. ASSUME NEW x \in W
      PROVE  IsFiniteSet(B(x)) /\ RankIn(W, R, x) \in Nat /\ RankIn(W, R, x) < n
  <2>1. IsFiniteSet(B(x)) /\ Cardinality(B(x)) <= n /\ (n = Cardinality(B(x)) => W = B(x))
    BY FS_Subset
  <2>2. Cardinality(B(x)) \in Nat
    BY <2>1, FS_CardinalityType
  <2>3. x \notin B(x)
    OBVIOUS
  <2>4. Cardinality(B(x)) # n
    BY <2>1, <2>3
  <2> QED
    BY <1>1, <2>1, <2>2, <2>4 DEF RankIn
<1>3. ASSUME NEW x \in W, NEW y \in W, <<x, y>> \in R
      PROVE  RankIn(W, R, x) < RankIn(W, R, y)
  <2>1. B(x) \in SUBSET B(y) /\ x \in B(y) /\ x \notin B(x)
    BY <1>3
  <2>2. Cardinality(B(x)) <= Cardinality(B(y))
    BY <1>2, <2>1, FS_Subset
  <2>3. Cardinality(B(x)) # Cardinality(B(y))
    BY <1>2, <2>1, FS_Subset
  <2>4. Cardinality(B(x)) = RankIn(W, R, x) /\ Cardinality(B(y)) = RankIn(W, R, y)
    BY DEF RankIn
  <2> HIDE DEF B
  <2> QED
    BY <1>2, <2>2, <2>3, <2>4
<1>4. \A x \in W : RankIn(W, R, x) \in 0..n - 1
  <2> SUFFICES ASSUME NEW x \in W PROVE RankIn(W, R, x) \in 0..n - 1
    OBVIOUS
  <2>1. RankIn(W, R, x) \in Nat /\ RankIn(W, R, x) < n
    BY <1>2
  <2> HIDE DEF n
  <2> QED
    BY <1>1, <2>1
<1>5. \A k \in 0..n - 1 : \E x \in W : RankIn(W, R, x) = k
  <2> DEFINE f == [x \in W |-> RankIn(W, R, x)]
             T == 0..n - 1
  <2>1. \A x \in W : RankIn(W, R, x) \in T
    BY <1>4
  <2>2. \A x, y \in W : f[x] = f[y] => x = y
    <3> SUFFICES ASSUME NEW x \in W, NEW y \in W, f[x] = f[y], x # y PROVE FALSE
      OBVIOUS
    <3>1. RankIn(W, R, x) = RankIn(W, R, y) /\ RankIn(W, R, x) \in Nat
      BY <1>2
    <3>2. CASE <<x, y>> \in R
      BY <1>3, <3>1, <3>2
    <3>3. CASE <<y, x>> \in R
      BY <1>3, <3>1, <3>3
    <3> QED
      BY <3>2, <3>3
  <2>3. f \in Injection(W, T)
    <3>1. f \in [W -> T]
      BY <2>1
    <3> QED
      BY <2>2, <3>1 DEF Injection, IsInjective
  <2>4. IsFiniteSet(T) /\ Cardinality(T) = n
    <3>1. 0 \in Int /\ n - 1 \in Int /\ (IF 0 > n - 1 THEN 0 ELSE n - 1 - 0 + 1) = n
      BY <1>1
    <3> HIDE DEF n
    <3> QED
      BY <3>1, FS_Interval
  <2>5. f \in Surjection(W, T)
    <3> HIDE DEF f, T
    <3>1. Cardinality(W) = Cardinality(T)
      BY <2>4
    <3> QED
      BY <2>3, <2>4, <3>1, FS_Injection
  <2>6. \A k \in T : \E x \in W : f[x] = k
    BY <2>5 DEF Surjection
  <2> QED
    BY <2>6
<1>6. \A x, y \in W : <<x, y>> \in R => RankIn(W, R, x) < RankIn(W, R, y)
  BY <1>3
<1> QED
  BY <1>4, <1>5, <1>6

(* The same of numbers.                                                    *)
LEMMA Counts ==
    ASSUME NEW W \in SUBSET Int, IsFiniteSet(W)
    PROVE  /\ Cardinality(W) \in Nat
           /\ \A x \in Int : Below(W, x) \in Nat /\ Below(W, x) <= Cardinality(W)
           /\ \A x \in W : Below(W, x) \in 0..Cardinality(W) - 1
           /\ \A x, y \in W : x < y <=> Below(W, x) < Below(W, y)
           /\ \A k \in 0..Cardinality(W) - 1 : \E x \in W : Below(W, x) = k
<1> DEFINE R == {d \in Int \X Int : d[1] < d[2]}
           n == Cardinality(W)
<1>1. n \in Nat
  BY FS_CardinalityType
<1>2. \A x, y \in Int : <<x, y>> \in R <=> x < y
  OBVIOUS
<1>3. \A x \in W : RankIn(W, R, x) = Below(W, x)
  <2> SUFFICES ASSUME NEW x \in W PROVE RankIn(W, R, x) = Below(W, x)
    OBVIOUS
  <2>1. {y \in W : <<y, x>> \in R} = {y \in W : y < x}
    BY <1>2
  <2> QED
    BY <2>1 DEF RankIn, Below
<1>4. /\ \A x \in W : RankIn(W, R, x) \in 0..n - 1
      /\ \A x, y \in W : <<x, y>> \in R => RankIn(W, R, x) < RankIn(W, R, y)
      /\ \A k \in 0..n - 1 : \E x \in W : RankIn(W, R, x) = k
  <2>1. \A x \in W : x \in Int
    OBVIOUS
  <2>2. \A x \in W : <<x, x>> \notin R
    BY <1>2, <2>1
  <2>3. \A x, y, z \in W : <<x, y>> \in R /\ <<y, z>> \in R => <<x, z>> \in R
    BY <1>2, <2>1
  <2>4. \A x, y \in W : x # y => <<x, y>> \in R \/ <<y, x>> \in R
    BY <1>2, <2>1
  <2> HIDE DEF R, n
  <2> QED
    BY <2>2, <2>3, <2>4, Ranks DEF n
<1>5. \A x \in Int : Below(W, x) \in Nat /\ Below(W, x) <= n
  <2> SUFFICES ASSUME NEW x \in Int PROVE Below(W, x) \in Nat /\ Below(W, x) <= n
    OBVIOUS
  <2> DEFINE T == {y \in W : y < x}
  <2>1. T \in SUBSET W
    OBVIOUS
  <2> HIDE DEF T
  <2>2. IsFiniteSet(T) /\ Cardinality(T) <= n /\ Cardinality(T) \in Nat
    BY <2>1, FS_Subset, FS_CardinalityType
  <2> QED
    BY <2>2 DEF Below, T
<1>6. \A x, y \in W : x < y <=> Below(W, x) < Below(W, y)
  <2> SUFFICES ASSUME NEW x \in W, NEW y \in W PROVE x < y <=> Below(W, x) < Below(W, y)
    OBVIOUS
  <2>1. x \in Int /\ y \in Int
    OBVIOUS
  <2>2. x < y => Below(W, x) < Below(W, y)
    <3> HAVE x < y
    <3>1. <<x, y>> \in R
      BY <1>2, <2>1
    <3> QED
      BY <1>3, <1>4, <3>1
  <2>4. y < x => Below(W, y) < Below(W, x)
    <3> HAVE y < x
    <3>1. <<y, x>> \in R
      BY <1>2, <2>1
    <3> QED
      BY <1>3, <1>4, <3>1
  <2>3. Below(W, x) \in Nat /\ Below(W, y) \in Nat
    BY <1>5, <2>1
  <2> HIDE DEF R
  <2> QED
    BY <2>1, <2>2, <2>3, <2>4
<1>7. \A x \in W : Below(W, x) \in 0..n - 1
  BY <1>3, <1>4
<1>8. \A k \in 0..n - 1 : \E x \in W : Below(W, x) = k
  BY <1>3, <1>4
<1> QED
  BY <1>1, <1>5, <1>6, <1>7, <1>8

(* A finite set of numbers has a least and a greatest element.             *)
LEMMA Extremes ==
    ASSUME NEW W \in SUBSET Int, IsFiniteSet(W), W # {}
    PROVE  /\ LeastOf(W) \in W /\ \A y \in W : LeastOf(W) <= y
           /\ GreatestOf(W) \in W /\ \A y \in W : GreatestOf(W) >= y
<1> DEFINE n == Cardinality(W)
<1>1. n \in Nat /\ n # 0
  BY FS_CardinalityType, FS_EmptySet
<1>2. 0 \in 0..n - 1 /\ n - 1 \in 0..n - 1
  BY <1>1
<1>3. /\ \A x \in W : Below(W, x) \in 0..n - 1
      /\ \A x, y \in W : x < y <=> Below(W, x) < Below(W, y)
      /\ \A k \in 0..n - 1 : \E x \in W : Below(W, x) = k
  BY Counts
<1> HIDE DEF n
<1>4. \E x \in W : \A y \in W : x <= y
  <2>1. PICK x \in W : Below(W, x) = 0
    BY <1>2, <1>3
  <2>2. \A y \in W : ~(y < x)
    BY <1>1, <1>3, <2>1
  <2> QED
    BY <2>2
<1>5. \E x \in W : \A y \in W : x >= y
  <2>1. PICK x \in W : Below(W, x) = n - 1
    BY <1>2, <1>3
  <2>2. \A y \in W : ~(x < y)
    BY <1>1, <1>3, <2>1
  <2> QED
    BY <2>2
<1> QED
  BY <1>4, <1>5 DEF LeastOf, GreatestOf

-----------------------------------------------------------------------------
(* Graph and CSR: positions are ranks of arcs, numbers of vertices are     *)
(* ranks of sources.                                                       *)

FileOK == lines \in SUBSET Lines /\ lines # {} /\ ungraph \in Modes

LEMMA FileFacts ==
    ASSUME FileOK
    PROVE  /\ IsFiniteSet(lines)
           /\ Cardinality(lines) \in Nat \ {0}
           /\ Cardinality(lines) <= Cardinality(Lines)
           /\ Cardinality(Lines) \in Nat
           /\ vertexNum \in Nat \ {0}
           /\ vertexNum <= MaxRange + 1
           /\ \A l \in lines : /\ l = <<l[1], l[2]>>
                               /\ l[1] \in Vertices /\ l[2] \in Vertices
           /\ ungraph \in BOOLEAN
<1> DEFINE N == {l[1] : l \in lines} \union {l[2] : l \in lines}
<1>1. /\ IsFiniteSet(Lines) /\ MaxRange \in Nat
      /\ Lines \subseteq (0..MaxRange) \X (0..MaxRange) /\ Modes \subseteq BOOLEAN
  BY PartitionAssumption
<1>2. IsFiniteSet(lines) /\ Cardinality(lines) <= Cardinality(Lines)
  BY <1>1, FS_Subset DEF FileOK
<1>3. Cardinality(lines) \in Nat /\ Cardinality(Lines) \in Nat
  BY <1>1, <1>2, FS_CardinalityType
<1>4. Cardinality(lines) # 0
  BY <1>2, FS_EmptySet DEF FileOK
<1>5. \A l \in lines : l = <<l[1], l[2]>> /\ l[1] \in 0..MaxRange /\ l[2] \in 0..MaxRange
  BY <1>1 DEF FileOK
<1>6. N \subseteq 0..MaxRange /\ N # {}
  BY <1>5 DEF FileOK
<1>7. IsFiniteSet(N)
  <2>1. IsFiniteSet(0..MaxRange)
    BY <1>1, FS_Interval
  <2> HIDE DEF N
  <2> QED
    BY <1>6, <2>1, FS_Subset
<1>8. GreatestOf(N) \in N /\ \A x \in N : GreatestOf(N) >= x
  <2> HIDE DEF N
  <2>1. N \in SUBSET Int
    BY <1>1, <1>6
  <2> QED
    BY <1>6, <1>7, <2>1, Extremes
<1>9. vertexNum = GreatestOf(N) + 1
  BY DEF vertexNum
<1>10. \A l \in lines : l[1] \in N /\ l[2] \in N
  OBVIOUS
<1>11. GreatestOf(N) \in 0..MaxRange
  BY <1>6, <1>8
<1> HIDE DEF N
<1>12. vertexNum \in Nat \ {0} /\ vertexNum <= MaxRange + 1
  BY <1>1, <1>9, <1>11
<1>13. \A x \in N : x \in Vertices
  <2> SUFFICES ASSUME NEW x \in N PROVE x \in Vertices
    OBVIOUS
  <2>1. x \in 0..MaxRange /\ x <= GreatestOf(N)
    BY <1>6, <1>8, <1>11
  <2> QED
    BY <1>1, <1>9, <1>11, <2>1 DEF Vertices
<1>14. ungraph \in BOOLEAN
  BY <1>1 DEF FileOK
<1> QED
  BY <1>2, <1>3, <1>4, <1>5, <1>10, <1>12, <1>13, <1>14

(* An arc per line, and another one per line of an undirected file.        *)
LEMMA ArcFacts ==
    ASSUME FileOK
    PROVE  /\ IsFiniteSet(Arcs) /\ Cardinality(Arcs) \in Nat
           /\ Cardinality(Arcs) <= 2 * Cardinality(Lines)
           /\ Arcs # {}
           /\ ~ungraph => Cardinality(Arcs) = edgeNum
           /\ \A a \in Arcs : /\ a = <<a[1], a[2], a[3]>>
                              /\ a[1] \in Vertices /\ a[2] \in Vertices
                              /\ a[3] \in Nat
<1> DEFINE first == {<<l[1], l[2], 0>> : l \in lines}
           backs == {k \in lines : ungraph /\ k[1] # k[2]}
           second == {<<l[2], l[1], 1>> : l \in backs}
           there == [l \in lines |-> <<l[1], l[2], 0>>]
           back == [l \in backs |-> <<l[2], l[1], 1>>]
<1>1. Arcs = first \union second
  BY DEF Arcs
<1>2. IsFiniteSet(lines) /\ IsFiniteSet(backs) /\ Cardinality(backs) <= Cardinality(lines)
  <2>1. backs \in SUBSET lines
    OBVIOUS
  <2> HIDE DEF backs
  <2> QED
    BY <2>1, FileFacts, FS_Subset
<1>3. there \in Surjection(lines, first) /\ back \in Surjection(backs, second)
  <2>1. there \in [lines -> first] /\ \A a \in first : \E l \in lines : there[l] = a
    OBVIOUS
  <2>2. back \in [backs -> second] /\ \A a \in second : \E l \in backs : back[l] = a
    OBVIOUS
  <2> HIDE DEF there, back, first, second, backs
  <2> QED
    BY <2>1, <2>2 DEF Surjection
<1>4. there \in Injection(lines, first)
  <2>1. there \in [lines -> first]
    OBVIOUS
  <2>2. \A k, l \in lines : there[k] = there[l] => k = l
    <3> SUFFICES ASSUME NEW k \in lines, NEW l \in lines, there[k] = there[l]
                 PROVE  k = l
      OBVIOUS
    <3>1. <<k[1], k[2], 0>> = <<l[1], l[2], 0>>
      OBVIOUS
    <3>2. k[1] = l[1] /\ k[2] = l[2]
      BY <3>1
    <3>3. k = <<k[1], k[2]>> /\ l = <<l[1], l[2]>>
      BY FileFacts
    <3> QED
      BY <3>2, <3>3
  <2> HIDE DEF there, first
  <2> QED
    BY <2>1, <2>2 DEF Injection, IsInjective
<1>5. /\ IsFiniteSet(first) /\ Cardinality(first) = Cardinality(lines)
      /\ IsFiniteSet(second) /\ Cardinality(second) <= Cardinality(backs)
  <2> HIDE DEF there, back, first, second, backs
  <2> QED
    BY <1>2, <1>3, <1>4, FS_Surjection
<1>6. /\ Cardinality(first) \in Nat /\ Cardinality(second) \in Nat
      /\ Cardinality(backs) \in Nat /\ Cardinality(first \cap second) \in Nat
      /\ IsFiniteSet(Arcs)
      /\ Cardinality(Arcs) = Cardinality(first) + Cardinality(second)
                               - Cardinality(first \cap second)
      /\ Cardinality(Arcs) \in Nat
  <2>1. first \cap second \in SUBSET first
    OBVIOUS
  <2> HIDE DEF first, second, backs
  <2>2. IsFiniteSet(first \cap second)
    BY <1>5, <2>1, FS_Subset
  <2>3. /\ IsFiniteSet(Arcs)
        /\ Cardinality(Arcs) = Cardinality(first) + Cardinality(second)
                               - Cardinality(first \cap second)
    BY <1>1, <1>5, FS_Union
  <2> QED
    BY <1>2, <1>5, <2>2, <2>3, FS_CardinalityType
<1>7. ~ungraph => Arcs = first
  BY <1>1
<1>8. \A a \in Arcs : /\ a = <<a[1], a[2], a[3]>>
                      /\ a[1] \in Vertices /\ a[2] \in Vertices
                      /\ a[3] \in Nat
  <2> SUFFICES ASSUME NEW a \in Arcs
               PROVE  /\ a = <<a[1], a[2], a[3]>>
                      /\ a[1] \in Vertices /\ a[2] \in Vertices
                      /\ a[3] \in Nat
    OBVIOUS
  <2>1. CASE a \in first
    <3>1. PICK l \in lines : a = <<l[1], l[2], 0>>
      BY <2>1
    <3> QED
      BY <3>1, FileFacts
  <2>2. CASE a \in second
    <3>1. PICK l \in lines : a = <<l[2], l[1], 1>>
      BY <2>2
    <3> QED
      BY <3>1, FileFacts
  <2> QED
    BY <1>1, <2>1, <2>2
<1>9. Arcs # {}
  BY <1>1 DEF FileOK
<1> HIDE DEF first, second, backs
<1>10. Cardinality(Arcs) <= 2 * Cardinality(Lines)
  BY <1>2, <1>5, <1>6, FileFacts
<1> QED
  BY <1>5, <1>6, <1>7, <1>8, <1>9, <1>10 DEF edgeNum

(* Positions number the arcs.                                              *)
LEMMA PositionFacts ==
    ASSUME FileOK
    PROVE  /\ \A a \in Arcs : Position(a) \in 0..Cardinality(Arcs) - 1
           /\ \A a, b \in Arcs : Before(a, b) <=> Position(a) < Position(b)
           /\ \A a, b \in Arcs : Position(a) = Position(b) => a = b
           /\ \A p \in 0..Cardinality(Arcs) - 1 : \E a \in Arcs : Position(a) = p
<1> DEFINE R == {d \in Arcs \X Arcs : Before(d[1], d[2])}
           A == Arcs
<1>1. \A a, b \in A : <<a, b>> \in R <=> Before(a, b)
  OBVIOUS
<1>2. \A a \in A : /\ a = <<a[1], a[2], a[3]>>
                   /\ a[1] \in Nat /\ a[2] \in Nat /\ a[3] \in Nat
  BY ArcFacts, FileFacts DEF Vertices
<1>3. IsFiniteSet(A)
  BY ArcFacts
<1>4. \A a \in A : Position(a) = RankIn(A, R, a)
  <2> SUFFICES ASSUME NEW a \in A PROVE Position(a) = RankIn(A, R, a)
    OBVIOUS
  <2>1. {b \in A : Before(b, a)} = {b \in A : <<b, a>> \in R}
    BY <1>1
  <2> QED
    BY <2>1 DEF Position, RankIn
<1> HIDE DEF R, A
<1>5. \A a \in A : ~Before(a, a)
  BY <1>2 DEF Before
<1>6. \A a, b, c \in A : Before(a, b) /\ Before(b, c) => Before(a, c)
  <2> SUFFICES ASSUME NEW a \in A, NEW b \in A, NEW c \in A,
                      Before(a, b), Before(b, c)
               PROVE  Before(a, c)
    OBVIOUS
  <2> QED
    BY <1>2 DEF Before
<1>7. \A a, b \in A : a # b => Before(a, b) \/ Before(b, a)
  <2> SUFFICES ASSUME NEW a \in A, NEW b \in A, ~Before(a, b), ~Before(b, a)
               PROVE  a = b
    OBVIOUS
  <2>1. a[1] = b[1] /\ a[2] = b[2] /\ a[3] = b[3]
    BY <1>2 DEF Before
  <2> QED
    BY <1>2, <2>1
<1>8. /\ \A x \in A : <<x, x>> \notin R
      /\ \A x, y, z \in A : <<x, y>> \in R /\ <<y, z>> \in R => <<x, z>> \in R
      /\ \A x, y \in A : x # y => <<x, y>> \in R \/ <<y, x>> \in R
  BY <1>1, <1>5, <1>6, <1>7
<1>9. /\ \A a \in A : RankIn(A, R, a) \in 0..Cardinality(A) - 1
      /\ \A a, b \in A : <<a, b>> \in R => RankIn(A, R, a) < RankIn(A, R, b)
      /\ \A k \in 0..Cardinality(A) - 1 : \E a \in A : RankIn(A, R, a) = k
  BY <1>3, <1>8, Ranks
<1>10. \A a \in A : Position(a) \in 0..Cardinality(A) - 1 /\ Position(a) \in Nat
  BY <1>4, <1>9
<1>11. \A a, b \in A : Before(a, b) => Position(a) < Position(b)
  BY <1>1, <1>4, <1>9
<1>12. \A a, b \in A : Position(a) < Position(b) => Before(a, b)
  <2> SUFFICES ASSUME NEW a \in A, NEW b \in A, Position(a) < Position(b)
               PROVE  Before(a, b)
    OBVIOUS
  <2>1. a # b
    BY <1>10
  <2>2. ~Before(b, a)
    BY <1>10, <1>11
  <2> QED
    BY <1>7, <2>1, <2>2
<1>13. \A a, b \in A : Position(a) = Position(b) => a = b
  <2> SUFFICES ASSUME NEW a \in A, NEW b \in A, Position(a) = Position(b), a # b
               PROVE  FALSE
    OBVIOUS
  <2>1. CASE Before(a, b)
    BY <1>10, <1>11, <2>1
  <2>2. CASE Before(b, a)
    BY <1>10, <1>11, <2>2
  <2> QED
    BY <1>7, <2>1, <2>2
<1>14. \A p \in 0..Cardinality(A) - 1 : \E a \in A : Position(a) = p
  BY <1>4, <1>9
<1> QED
  BY <1>10, <1>11, <1>12, <1>13, <1>14 DEF A

LEMMA DestinationAt ==
    ASSUME FileOK, NEW a \in Arcs
    PROVE  ciao[Position(a)] = a[2]
<1>1. Position(a) \in 0..Cardinality(Arcs) - 1
  BY PositionFacts
<1>2. (CHOOSE b \in Arcs : Position(b) = Position(a)) = a
  BY PositionFacts
<1> QED
  BY <1>1, <1>2 DEF ciao

(* rpao: the positions of the arcs of u are those from rpao[u] on.         *)
LEMMA RpaoFacts ==
    ASSUME FileOK
    PROVE  /\ rpao = [u \in 0..vertexNum |-> rpao[u]]
           /\ \A u \in 0..vertexNum : rpao[u] \in Nat
           /\ \A u, w \in 0..vertexNum : u <= w => rpao[u] <= rpao[w]
           /\ rpao[vertexNum] = Cardinality(Arcs)
           /\ \A a \in Arcs : rpao[a[1]] <= Position(a) /\ Position(a) < rpao[a[1] + 1]
<1> DEFINE upto(u) == {a \in Arcs : a[1] < u}
<1>1. /\ vertexNum \in Nat
      /\ \A a \in Arcs : a[1] \in Nat /\ a[1] \in 0..vertexNum /\ a[1] + 1 \in 0..vertexNum
                         /\ a[1] < vertexNum
  BY FileFacts, ArcFacts DEF Vertices
<1>2. ASSUME NEW u \in 0..vertexNum
      PROVE  rpao[u] = Cardinality(upto(u))
  BY DEF rpao
<1>3. IsFiniteSet(Arcs) /\ Cardinality(Arcs) \in Nat
  BY ArcFacts
<1>4. ASSUME NEW u \in 0..vertexNum
      PROVE  IsFiniteSet(upto(u)) /\ rpao[u] \in Nat
  <2>1. upto(u) \in SUBSET Arcs
    OBVIOUS
  <2>2. IsFiniteSet(upto(u))
    BY <1>3, <2>1, FS_Subset
  <2> HIDE DEF upto
  <2> QED
    BY <1>2, <2>2, FS_CardinalityType
<1>5. ASSUME NEW u \in 0..vertexNum, NEW w \in 0..vertexNum, u <= w
      PROVE  rpao[u] <= rpao[w]
  <2>1. \A a \in upto(u) : a \in upto(w)
    BY <1>1, <1>5
  <2>2. upto(u) \in SUBSET upto(w)
    BY <2>1
  <2> HIDE DEF upto
  <2> QED
    BY <1>2, <1>4, <2>2, FS_Subset
<1>6. rpao[vertexNum] = Cardinality(Arcs)
  <2>1. upto(vertexNum) = Arcs
    BY <1>1
  <2> HIDE DEF upto
  <2> QED
    BY <1>1, <1>2, <2>1
<1>7. ASSUME NEW a \in Arcs
      PROVE  rpao[a[1]] <= Position(a) /\ Position(a) < rpao[a[1] + 1]
  <2> DEFINE before == {b \in Arcs : Before(b, a)}
             u == a[1]
  <2>1. Position(a) = Cardinality(before)
    BY DEF Position
  <2>2. u \in 0..vertexNum /\ u + 1 \in 0..vertexNum /\ u \in Nat
    BY <1>1
  <2>3. IsFiniteSet(before)
    BY <1>3, FS_Subset
  <2>4. upto(u) \in SUBSET before
    BY DEF Before
  <2>5. before \in SUBSET upto(u + 1)
    <3> SUFFICES ASSUME NEW b \in before PROVE b[1] < u + 1
      OBVIOUS
    <3>1. b[1] \in Nat
      BY <1>1
    <3>2. b[1] < a[1] \/ b[1] = a[1]
      BY DEF Before
    <3> QED
      BY <2>2, <3>1, <3>2
  <2>6. a \in upto(u + 1)
    BY <2>2
  <2>7. a \notin before
    <3>1. ~Before(a, a)
      BY PositionFacts, ArcFacts
    <3> QED
      BY <3>1
  <2>8. rpao[u] = Cardinality(upto(u)) /\ rpao[u + 1] = Cardinality(upto(u + 1))
    BY <1>2, <2>2
  <2>9. IsFiniteSet(upto(u)) /\ IsFiniteSet(upto(u + 1))
    BY <1>4, <2>2
  <2>10. /\ Cardinality(upto(u)) \in Nat /\ Cardinality(before) \in Nat
         /\ Cardinality(upto(u + 1)) \in Nat
    BY <2>3, <2>9, FS_CardinalityType
  <2>11. before # upto(u + 1)
    BY <2>6, <2>7
  <2> HIDE DEF before, upto, u
  <2>12. /\ Cardinality(upto(u)) <= Cardinality(before)
         /\ Cardinality(before) <= Cardinality(upto(u + 1))
         /\ Cardinality(before) # Cardinality(upto(u + 1))
    BY <2>3, <2>4, <2>5, <2>9, <2>11, FS_Subset
  <2>13. rpao[u] <= Position(a) /\ Position(a) < rpao[u + 1]
    BY <2>1, <2>8, <2>10, <2>12
  <2> QED
    BY <2>13 DEF u
<1>8. rpao = [u \in 0..vertexNum |-> rpao[u]]
  BY DEF rpao
<1> QED
  BY <1>4, <1>5, <1>6, <1>7, <1>8

Sources == {u \in Vertices : \E a \in Arcs : a[1] = u}
Degree == [u \in Vertices |-> rpao[u + 1] - rpao[u]]

(* What Load leaves behind.                                                *)
CsrOK ==
    /\ FileOK
    /\ rpa = rpao
    /\ cia = [p \in DOMAIN ciao |-> IF p < edgeNum THEN ciao[p] ELSE 0]
    /\ vertexMap = Mapped(Degree)
    /\ vertexRemap = Remapped(Degree)

LEMMA CiaFacts ==
    ASSUME CsrOK
    PROVE  /\ Positions = 0..Cardinality(Arcs) - 1
           /\ DOMAIN cia = Positions
           /\ \A p \in Positions : cia[p] \in Vertices
           /\ ~ungraph => \A a \in Arcs : cia[Position(a)] = a[2]
<1>1. FileOK /\ rpa = rpao
  BY DEF CsrOK
<1>2. Positions = 0..Cardinality(Arcs) - 1
  BY <1>1, RpaoFacts DEF Positions
<1>3. DOMAIN ciao = Positions
  BY <1>2 DEF ciao
<1>4. cia = [p \in Positions |-> IF p < edgeNum THEN ciao[p] ELSE 0]
  BY <1>3 DEF CsrOK
<1>5. \A a \in Arcs : ciao[Position(a)] = a[2]
  BY <1>1, DestinationAt
<1>6. 0 \in Vertices
  BY <1>1, FileFacts DEF Vertices
<1>7. ASSUME NEW p \in Positions
      PROVE  cia[p] \in Vertices
  <2>1. PICK a \in Arcs : Position(a) = p
    BY <1>1, <1>2, PositionFacts
  <2>2. ciao[p] = a[2] /\ a[2] \in Vertices
    BY <1>1, <1>5, <2>1, ArcFacts
  <2> QED
    BY <1>4, <1>6, <2>2
<1>8. ASSUME ~ungraph, NEW a \in Arcs
      PROVE  cia[Position(a)] = a[2]
  <2>1. edgeNum = Cardinality(Arcs) /\ Cardinality(Arcs) \in Nat
    BY <1>1, <1>8, ArcFacts
  <2>2. Position(a) \in Positions
    BY <1>1, <1>2, PositionFacts
  <2>3. Position(a) < edgeNum
    BY <1>2, <2>1, <2>2
  <2> QED
    BY <1>4, <1>5, <2>2, <2>3
<1> QED
  BY <1>2, <1>4, <1>7, <1>8

(* The loop that looks for the source of a position finds it, and the      *)
(* sources of ascending positions ascend.                                  *)
LEMMA SourceFacts ==
    ASSUME CsrOK
    PROVE  /\ \A a \in Arcs : Source(Position(a)) = a[1]
           /\ \A p \in Positions : Source(p) \in Sources
           /\ \A p, q \in Positions : p <= q => Source(p) <= Source(q)
<1>1. FileOK /\ rpa = rpao
  BY DEF CsrOK
<1>2. /\ \A u \in 0..vertexNum : rpao[u] \in Nat
      /\ \A u, w \in 0..vertexNum : u <= w => rpao[u] <= rpao[w]
      /\ \A a \in Arcs : rpao[a[1]] <= Position(a) /\ Position(a) < rpao[a[1] + 1]
  BY <1>1, RpaoFacts
<1>3. /\ vertexNum \in Nat
      /\ \A u \in Vertices : /\ u \in Nat /\ u \in 0..vertexNum
                             /\ u + 1 \in 0..vertexNum
  BY <1>1, FileFacts DEF Vertices
<1>4. /\ \A a \in Arcs : a[1] \in Vertices /\ Position(a) \in Positions
      /\ \A p \in Positions : \E a \in Arcs : Position(a) = p
      /\ \A p \in Positions : p \in Nat
  BY <1>1, ArcFacts, PositionFacts, CiaFacts
<1>5. ASSUME NEW a \in Arcs
      PROVE  Source(Position(a)) = a[1]
  <2> DEFINE p == Position(a)
  <2>1. p \in Nat /\ a[1] \in Vertices /\ rpa[a[1]] <= p /\ p < rpa[a[1] + 1]
    BY <1>1, <1>2, <1>4
  <2>2. ASSUME NEW u \in Vertices, rpa[u] <= p, p < rpa[u + 1]
        PROVE  u = a[1]
    <3> DEFINE w == a[1]
    <3>1. /\ u \in Nat /\ w \in Nat /\ u \in 0..vertexNum /\ w \in 0..vertexNum
          /\ u + 1 \in 0..vertexNum /\ w + 1 \in 0..vertexNum
      BY <1>3, <2>1
    <3>2. /\ rpao[u] \in Nat /\ rpao[u + 1] \in Nat
          /\ rpao[w] \in Nat /\ rpao[w + 1] \in Nat
      BY <1>2, <3>1
    <3>3. u + 1 <= w => rpao[u + 1] <= rpao[w]
      BY <1>2, <3>1
    <3>4. w + 1 <= u => rpao[w + 1] <= rpao[u]
      BY <1>2, <3>1
    <3>5. rpao[u] <= p /\ p < rpao[u + 1] /\ rpao[w] <= p /\ p < rpao[w + 1]
      BY <1>1, <2>1, <2>2
    <3> HIDE DEF p, w
    <3>6. ~(u + 1 <= w) /\ ~(w + 1 <= u)
      BY <2>1, <3>2, <3>3, <3>4, <3>5
    <3>7. u = w
      BY <3>1, <3>6
    <3> QED
      BY <3>7 DEF w
  <2> HIDE DEF p
  <2>3. Source(p) = a[1]
    BY <2>1, <2>2 DEF Source
  <2> QED
    BY <2>3 DEF p
<1>6. ASSUME NEW p \in Positions
      PROVE  Source(p) \in Sources
  <2>1. PICK a \in Arcs : Position(a) = p
    BY <1>4
  <2> QED
    BY <1>4, <1>5, <2>1 DEF Sources
<1>7. ASSUME NEW p \in Positions, NEW q \in Positions, p <= q
      PROVE  Source(p) <= Source(q)
  <2>1. PICK a \in Arcs : Position(a) = p
    BY <1>4
  <2>2. PICK b \in Arcs : Position(b) = q
    BY <1>4
  <2>3. Source(p) = a[1] /\ Source(q) = b[1] /\ a[1] \in Nat /\ b[1] \in Nat
    BY <1>3, <1>4, <1>5, <2>1, <2>2
  <2>4. p \in Nat /\ q \in Nat
    BY <1>4
  <2>5. ~Before(b, a)
    <3>1. Before(b, a) => Position(b) < Position(a)
      BY <1>1, PositionFacts
    <3> QED
      BY <1>7, <2>1, <2>2, <2>4, <3>1
  <2>6. ~(b[1] < a[1])
    BY <2>5 DEF Before
  <2> QED
    BY <2>3, <2>6
<1> QED
  BY <1>5, <1>6, <1>7

(* vertexMap numbers the vertices with out-edges in their order, the       *)
(* others get the number of the next one; vertexRemap is the way back.     *)
LEMMA MapFacts ==
    ASSUME CsrOK
    PROVE  /\ compressedVertexNum \in Nat \ {0}
           /\ compressedVertexNum <= MaxRange + 1
           /\ \A u \in Vertices : vertexMap[u] \in 0..compressedVertexNum
           /\ \A u \in Sources : vertexMap[u] \in 0..compressedVertexNum - 1
           /\ \A u, w \in Sources : u <= w => vertexMap[u] <= vertexMap[w]
           /\ DOMAIN vertexRemap = 0..compressedVertexNum - 1
           /\ \A s \in DOMAIN vertexRemap : vertexRemap[s] \in Sources
           /\ \A u \in Sources : vertexRemap[vertexMap[u]] = u
<1>1. FileOK
  BY DEF CsrOK
<1>2. /\ vertexNum \in Nat \ {0} /\ vertexNum <= MaxRange + 1 /\ MaxRange \in Nat
      /\ Vertices \subseteq Nat
      /\ \A u \in Vertices : u \in 0..vertexNum /\ u + 1 \in 0..vertexNum
  BY <1>1, FileFacts, PartitionAssumption DEF Vertices
<1>3. IsFiniteSet(Vertices) /\ Cardinality(Vertices) = vertexNum
  <2>1. 0 \in Int /\ vertexNum - 1 \in Int
        /\ (IF 0 > vertexNum - 1 THEN 0 ELSE vertexNum - 1 - 0 + 1) = vertexNum
    BY <1>2
  <2> QED
    BY <2>1, FS_Interval DEF Vertices
<1>4. /\ Sources \in SUBSET Vertices /\ IsFiniteSet(Sources)
      /\ Cardinality(Sources) \in Nat /\ Cardinality(Sources) <= vertexNum
  <2>1. Sources \in SUBSET Vertices
    BY DEF Sources
  <2> QED
    BY <1>3, <2>1, FS_Subset, FS_CardinalityType
<1>5. Sources # {}
  BY <1>1, ArcFacts DEF Sources
<1>6. Cardinality(Sources) # 0
  BY <1>4, <1>5, FS_EmptySet
<1>7. \A u \in Vertices : Degree[u] # 0 <=> u \in Sources
  <2> SUFFICES ASSUME NEW u \in Vertices PROVE Degree[u] # 0 <=> u \in Sources
    OBVIOUS
  <2>1. Degree[u] = rpao[u + 1] - rpao[u] /\ rpao[u + 1] \in Nat /\ rpao[u] \in Nat
    BY <1>1, <1>2, RpaoFacts DEF Degree
  <2>2. CASE u \in Sources
    <3>1. PICK a \in Arcs : a[1] = u
      BY <2>2 DEF Sources
    <3>2. rpao[u] <= Position(a) /\ Position(a) < rpao[u + 1] /\ Position(a) \in Nat
      BY <1>1, <3>1, RpaoFacts, PositionFacts
    <3> QED
      BY <2>1, <2>2, <3>2
  <2>3. CASE u \notin Sources
    <3>1. \A a \in Arcs : a[1] # u /\ a[1] \in Nat /\ u \in Nat
      BY <1>1, <1>2, <2>3, ArcFacts DEF Sources
    <3>2. {a \in Arcs : a[1] < u + 1} = {a \in Arcs : a[1] < u}
      BY <3>1
    <3>3. rpao[u + 1] = rpao[u]
      BY <1>2, <3>2 DEF rpao
    <3> QED
      BY <2>1, <2>3, <3>3
  <2> QED
    BY <2>2, <2>3
<1>8. DOMAIN Degree = Vertices
  BY DEF Degree
<1>9. \A u \in Vertices : vertexMap[u] = Below(Sources, u)
  <2> SUFFICES ASSUME NEW u \in Vertices PROVE vertexMap[u] = Below(Sources, u)
    OBVIOUS
  <2>1. {w \in Vertices : w < u /\ Degree[w] # 0} = {w \in Sources : w < u}
    BY <1>4, <1>7
  <2>2. vertexMap[u] = Cardinality({w \in Vertices : w < u /\ Degree[w] # 0})
    BY <1>8 DEF CsrOK, Mapped
  <2> QED
    BY <2>1, <2>2 DEF Below
<1>10. {u \in Vertices : Degree[u] # 0} = Sources
  BY <1>4, <1>7
<1>11. vertexRemap = [s \in 0..Cardinality(Sources) - 1 |->
                        CHOOSE u \in Sources : Below(Sources, u) = s]
  <2> DEFINE sources == {u \in DOMAIN Degree : Degree[u] # 0}
  <2>1. sources = Sources
    BY <1>8, <1>10
  <2>2. vertexRemap = [s \in 0..Cardinality(sources) - 1 |->
                         CHOOSE u \in sources : Below(sources, u) = s]
    BY DEF CsrOK, Remapped
  <2> HIDE DEF sources
  <2> QED
    BY <2>1, <2>2
<1>12. Sources \in SUBSET Int
  BY <1>2, <1>4
<1>13. /\ \A x \in Int : Below(Sources, x) \in Nat /\ Below(Sources, x) <= Cardinality(Sources)
       /\ \A x \in Sources : Below(Sources, x) \in 0..Cardinality(Sources) - 1
       /\ \A x, y \in Sources : x < y <=> Below(Sources, x) < Below(Sources, y)
       /\ \A k \in 0..Cardinality(Sources) - 1 : \E x \in Sources : Below(Sources, x) = k
  BY <1>4, <1>12, Counts
<1>14. DOMAIN vertexRemap = 0..Cardinality(Sources) - 1
  BY <1>11
<1>15. compressedVertexNum = Cardinality(Sources)
  <2> DEFINE n == Cardinality(Sources)
  <2>1. 0 \in Int /\ n - 1 \in Int /\ (IF 0 > n - 1 THEN 0 ELSE n - 1 - 0 + 1) = n
    BY <1>4
  <2> HIDE DEF n
  <2>2. Cardinality(0..n - 1) = n
    BY <2>1, FS_Interval
  <2> QED
    BY <1>14, <2>2 DEF compressedVertexNum, n
<1>16. \A x, y \in Sources : Below(Sources, x) = Below(Sources, y) => x = y
  <2> SUFFICES ASSUME NEW x \in Sources, NEW y \in Sources,
                      Below(Sources, x) = Below(Sources, y)
               PROVE  x = y
    OBVIOUS
  <2>1. x \in Int /\ y \in Int /\ Below(Sources, x) \in Nat
    BY <1>12, <1>13
  <2>2. ~(x < y) /\ ~(y < x)
    BY <1>13, <2>1
  <2> QED
    BY <2>1, <2>2
<1>17. \A u \in Sources : vertexRemap[Below(Sources, u)] = u
  <2> SUFFICES ASSUME NEW u \in Sources PROVE vertexRemap[Below(Sources, u)] = u
    OBVIOUS
  <2>1. vertexRemap[Below(Sources, u)] =
          CHOOSE w \in Sources : Below(Sources, w) = Below(Sources, u)
    BY <1>11, <1>13
  <2> QED
    BY <1>16, <2>1
<1>18. \A s \in DOMAIN vertexRemap : vertexRemap[s] \in Sources
  BY <1>11, <1>13, <1>14
<1>19. \A u \in Vertices : vertexMap[u] \in 0..compressedVertexNum
  BY <1>2, <1>4, <1>9, <1>13, <1>15
<1>20. \A u \in Sources : vertexMap[u] \in 0..compressedVertexNum - 1
  BY <1>4, <1>9, <1>13, <1>15
<1>21. ASSUME NEW u \in Sources, NEW w \in Sources, u <= w
       PROVE  vertexMap[u] <= vertexMap[w]
  <2>1. u \in Int /\ w \in Int /\ Below(Sources, u) \in Nat /\ Below(Sources, w) \in Nat
    BY <1>12, <1>13
  <2>2. vertexMap[u] = Below(Sources, u) /\ vertexMap[w] = Below(Sources, w)
    BY <1>4, <1>9
  <2>3. CASE u = w
    BY <2>1, <2>2, <2>3
  <2>4. CASE u < w
    <3>1. Below(Sources, u) < Below(Sources, w)
      BY <1>13, <2>4
    <3> QED
      BY <2>1, <2>2, <3>1
  <2> QED
    BY <1>21, <2>1, <2>3, <2>4
<1>22. \A u \in Sources : vertexRemap[vertexMap[u]] = u
  BY <1>4, <1>9, <1>17
<1>23. compressedVertexNum \in Nat \ {0} /\ compressedVertexNum <= MaxRange + 1
  BY <1>2, <1>4, <1>6, <1>15
<1>24. DOMAIN vertexRemap = 0..compressedVertexNum - 1
  BY <1>14, <1>15
<1> QED
  BY <1>18, <1>19, <1>20, <1>21, <1>22, <1>23, <1>24

-----------------------------------------------------------------------------
(* One partition.                                                          *)

LEMMA Remainder ==
    ASSUME NEW a \in Nat, NEW b \in Nat \ {0}
    PROVE  /\ a = b * (a \div b) + (a % b)
           /\ a % b \in Nat /\ a % b < b
  OBVIOUS

LEMMA MultipleRemainder ==
    ASSUME NEW m \in Nat, NEW b \in Nat \ {0}
    PROVE  (b * m) % b = 0
<1>1. b * m \in Nat /\ (b * m) \div b \in Nat /\ (b * m) % b \in Nat
  BY Division, Remainder
<1>2. b * m = b * ((b * m) \div b) + ((b * m) % b) /\ (b * m) % b < b
  BY <1>1, Remainder
<1> DEFINE q == (b * m) \div b
           r == (b * m) % b
<1> HIDE DEF q, r
<1>3. q \in Nat /\ r \in Nat /\ b * m = b * q + r /\ r < b
  BY <1>1, <1>2 DEF q, r
<1>4. b * m \in Nat /\ b * q \in Nat
  BY <1>3
<1>5. ~(q < m)
  <2>1. q < m => b * q + b <= b * m
    BY <1>3, Steps
  <2> QED
    BY <1>3, <1>4, <2>1
<1>6. ~(m < q)
  <2>1. m < q => b * m + b <= b * q
    BY <1>3, Steps
  <2> QED
    BY <1>3, <1>4, <2>1
<1>7. q = m
  BY <1>3, <1>5, <1>6
<1>8. r = 0
  BY <1>3, <1>4, <1>7
<1> QED
  BY <1>8 DEF r

LEMMA Padded ==
    ASSUME NEW n \in Nat
    PROVE  /\ PaddedSize(n) \in Nat /\ n < PaddedSize(n)
           /\ PaddedSize(n) <= n + ALIGN_SIZE
           /\ \E m \in Nat : PaddedSize(n) = ALIGN_SIZE * m
<1>1. ALIGN_SIZE \in Nat \ {0}
  BY PartitionAssumption
<1> DEFINE q == n \div ALIGN_SIZE
           r == n % ALIGN_SIZE
<1>2. n = ALIGN_SIZE * q + r /\ r \in Nat /\ r < ALIGN_SIZE /\ q \in Nat
  BY <1>1, Remainder, Division
<1>3. PaddedSize(n) = n + (ALIGN_SIZE - r)
  BY DEF PaddedSize
<1> HIDE DEF q, r
<1>4. ALIGN_SIZE * (q + 1) = ALIGN_SIZE * q + ALIGN_SIZE /\ ALIGN_SIZE * q \in Nat
  BY <1>1, <1>2
<1>5. PaddedSize(n) = ALIGN_SIZE * (q + 1) /\ q + 1 \in Nat
  BY <1>1, <1>2, <1>3, <1>4
<1>6. PaddedSize(n) \in Nat /\ n < PaddedSize(n) /\ PaddedSize(n) <= n + ALIGN_SIZE
  BY <1>1, <1>2, <1>3
<1>7. \E m \in Nat : PaddedSize(n) = ALIGN_SIZE * m
  BY <1>5
<1> QED
  BY <1>6, <1>7

(* What is at index k of the arrays of a partition.                        *)
Nth(W, k) == CHOOSE p \in W : Below(W, p) = k

LEMMA NthFacts ==
    ASSUME NEW W \in SUBSET Int, IsFiniteSet(W)
    PROVE  /\ \A k \in 0..Cardinality(W) - 1 : Nth(W, k) \in W /\ Below(W, Nth(W, k)) = k
           /\ \A p \in W : Below(W, p) \in 0..Cardinality(W) - 1 /\ Nth(W, Below(W, p)) = p
           /\ \A j, k \in 0..Cardinality(W) - 1 : j <= k => Nth(W, j) <= Nth(W, k)
<1> DEFINE n == Cardinality(W)
<1>1. /\ n \in Nat
      /\ \A x \in W : Below(W, x) \in 0..n - 1 /\ Below(W, x) \in Nat
      /\ \A x, y \in W : x < y <=> Below(W, x) < Below(W, y)
      /\ \A k \in 0..n - 1 : \E x \in W : Below(W, x) = k
  BY Counts
<1> HIDE DEF n
<1>2. \A k \in 0..n - 1 : Nth(W, k) \in W /\ Below(W, Nth(W, k)) = k
  BY <1>1 DEF Nth
<1>3. \A x, y \in W : Below(W, x) <= Below(W, y) => x <= y
  <2> SUFFICES ASSUME NEW x \in W, NEW y \in W, Below(W, x) <= Below(W, y)
               PROVE  x <= y
    OBVIOUS
  <2>1. ~(Below(W, y) < Below(W, x))
    BY <1>1
  <2>2. ~(y < x)
    BY <1>1, <2>1
  <2> QED
    BY <2>2
<1>4. ASSUME NEW p \in W
      PROVE  Nth(W, Below(W, p)) = p
  <2>1. Below(W, p) \in 0..n - 1 /\ Below(W, p) \in Nat
    BY <1>1
  <2>2. Nth(W, Below(W, p)) \in W /\ Below(W, Nth(W, Below(W, p))) = Below(W, p)
    BY <1>2, <2>1
  <2> DEFINE x == Nth(W, Below(W, p))
  <2> HIDE DEF x
  <2>3. x <= p /\ p <= x
    <3>1. x \in W /\ Below(W, x) <= Below(W, p) /\ Below(W, p) <= Below(W, x)
      BY <2>1, <2>2 DEF x
    <3> QED
      BY <1>3, <3>1
  <2>4. p \in Int /\ x \in Int
    BY <2>2 DEF x
  <2>5. x = p
    BY <2>3, <2>4
  <2> QED
    BY <2>5 DEF x
<1>5. ASSUME NEW j \in 0..n - 1, NEW k \in 0..n - 1, j <= k
      PROVE  Nth(W, j) <= Nth(W, k)
  BY <1>2, <1>3, <1>5
<1> QED
  BY <1>1, <1>2, <1>4, <1>5 DEF n

LEMMA TupleFacts ==
    ASSUME CsrOK, NEW p \in Positions
    PROVE  /\ Tuple(p) = [tail |-> vertexMap[cia[p]], head |-> vertexMap[Source(p)],
                          prop |-> p]
           /\ vertexMap[cia[p]] \in 0..compressedVertexNum
           /\ vertexMap[Source(p)] \in 0..compressedVertexNum - 1
           /\ p \in Nat
<1>1. cia[p] \in Vertices /\ p \in Nat
  BY CiaFacts
<1>2. Source(p) \in Sources
  BY SourceFacts
<1> QED
  BY <1>1, <1>2, MapFacts DEF Tuple

LEMMA SelectedFacts ==
    ASSUME CsrOK, NEW i \in Nat
    PROVE  /\ Selected(i) \in SUBSET Int /\ Selected(i) \subseteq Positions
           /\ IsFiniteSet(Selected(i))
           /\ Cardinality(Selected(i)) \in Nat
           /\ Cardinality(Selected(i)) <= 2 * Cardinality(Lines)
           /\ \A p \in Positions :
                 p \in Selected(i) <=>
                   vertexMap[cia[p]] \div MAX_VERTICES_IN_ONE_PARTITION = i
<1>1. /\ MAX_VERTICES_IN_ONE_PARTITION \in Nat \ {0}
      /\ IsFiniteSet(Lines) /\ FileOK
  BY PartitionAssumption DEF CsrOK
<1>2. /\ Positions = 0..Cardinality(Arcs) - 1 /\ Cardinality(Arcs) \in Nat
      /\ Cardinality(Arcs) <= 2 * Cardinality(Lines) /\ Cardinality(Lines) \in Nat
  BY <1>1, CiaFacts, ArcFacts, FileFacts
<1>3. IsFiniteSet(Positions) /\ Cardinality(Positions) = Cardinality(Arcs)
  <2> DEFINE n == Cardinality(Arcs)
  <2>1. 0 \in Int /\ n - 1 \in Int /\ (IF 0 > n - 1 THEN 0 ELSE n - 1 - 0 + 1) = n
    BY <1>2
  <2>2. Positions = 0..n - 1
    BY <1>2
  <2> HIDE DEF n
  <2>3. IsFiniteSet(0..n - 1) /\ Cardinality(0..n - 1) = n
    BY <2>1, FS_Interval
  <2> QED
    BY <2>2, <2>3 DEF n
<1>4. Selected(i) \in SUBSET Positions
  BY DEF Selected
<1>5. /\ IsFiniteSet(Selected(i)) /\ Cardinality(Selected(i)) \in Nat
      /\ Cardinality(Selected(i)) <= Cardinality(Arcs)
  BY <1>3, <1>4, FS_Subset, FS_CardinalityType
<1>6. ASSUME NEW p \in Positions
      PROVE  p \in Selected(i) <=>
               vertexMap[cia[p]] \div MAX_VERTICES_IN_ONE_PARTITION = i
  <2> DEFINE v == vertexMap[cia[p]]
             M == MAX_VERTICES_IN_ONE_PARTITION
             q == v \div M
  <2>1. v \in Nat
    BY TupleFacts, MapFacts
  <2>2. q \in Nat /\ M * q <= v /\ v < M * q + M
    BY <1>1, <2>1, Division
  <2>3. p \in Selected(i) <=> v >= i * M /\ v < (i + 1) * M
    BY DEF Selected
  <2> HIDE DEF v, q, M
  <2>4. M \in Nat \ {0}
    BY <1>1 DEF M
  <2>5. i * M = M * i /\ (i + 1) * M = M * i + M /\ M * i \in Nat /\ M * q \in Nat
    BY <2>2, <2>4
  <2>6. q < i => M * q + M <= M * i
    BY <2>2, <2>4, Steps
  <2>7. i < q => M * i + M <= M * q
    BY <2>2, <2>4, Steps
  <2>8. (v >= M * i /\ v < M * i + M) <=> q = i
    <3>1. CASE q = i
      BY <2>1, <2>2, <3>1
    <3>2. CASE q < i
      BY <2>1, <2>2, <2>4, <2>5, <2>6, <3>2
    <3>3. CASE i < q
      BY <2>1, <2>2, <2>4, <2>5, <2>7, <3>3
    <3> QED
      BY <2>2, <3>1, <3>2, <3>3
  <2>9. p \in Selected(i) <=> q = i
    BY <2>3, <2>5, <2>8
  <2> QED
    BY <2>9 DEF q, v, M
<1>7. Selected(i) \in SUBSET Int
  BY <1>2, <1>4
<1>8. Cardinality(Selected(i)) <= 2 * Cardinality(Lines)
  BY <1>2, <1>5
<1> QED
  BY <1>4, <1>5, <1>6, <1>7, <1>8

EdgeSet == [tail : Int, head : Int, prop : Int]

LEMMA EdgesFacts ==
    ASSUME CsrOK, NEW i \in Nat, NEW stray \in Int,
           NEW chosen, chosen = Selected(i),
           NEW n, n = Cardinality(chosen),
           NEW E, E = Edges(i, stray)
    PROVE  /\ E \in [0..PaddedSize(n) - 1 -> EdgeSet]
           /\ \A k \in 0..n - 1 : E[k] = Tuple(Nth(chosen, k))
           /\ \A k \in n..PaddedSize(n) - 1 : E[k].tail = Padding
           /\ \A j, k \in 0..PaddedSize(n) - 1 : j <= k => E[j].head <= E[k].head
           /\ n > 0 => \A k \in 0..PaddedSize(n) - 1 : E[k].head \in 0..MaxRange
           /\ n = 0 => \A k \in 0..PaddedSize(n) - 1 : E[k].head = stray
<1> DEFINE total == PaddedSize(n)
           last == IF n = 0 THEN stray ELSE vertexMap[Source(Nth(chosen, n - 1))]
<1>1. n \in Nat /\ total \in Nat /\ n < total
  BY SelectedFacts, Padded
<1>2. E = [k \in 0..total - 1 |->
             IF k < n THEN Tuple(Nth(chosen, k))
             ELSE [tail |-> Padding, head |-> last, prop |-> 0]]
  BY DEF Edges, Nth
<1> HIDE DEF total, last
<1>3. /\ \A k \in 0..n - 1 : Nth(chosen, k) \in Positions
      /\ \A j, k \in 0..n - 1 : j <= k => Nth(chosen, j) <= Nth(chosen, k)
  <2>1. chosen \in SUBSET Int /\ chosen \subseteq Positions /\ IsFiniteSet(chosen)
    BY SelectedFacts
  <2> QED
    BY <2>1, NthFacts
<1>4. MaxRange \in Nat /\ compressedVertexNum \in Nat /\ compressedVertexNum <= MaxRange + 1
  BY PartitionAssumption, MapFacts
<1>5. \A p \in Positions : /\ Tuple(p) \in EdgeSet
                           /\ Tuple(p).head = vertexMap[Source(p)]
                           /\ vertexMap[Source(p)] \in 0..MaxRange
  <2> SUFFICES ASSUME NEW p \in Positions
               PROVE  /\ Tuple(p) \in EdgeSet
                      /\ Tuple(p).head = vertexMap[Source(p)]
                      /\ vertexMap[Source(p)] \in 0..MaxRange
    OBVIOUS
  <2>1. /\ Tuple(p) = [tail |-> vertexMap[cia[p]], head |-> vertexMap[Source(p)],
                       prop |-> p]
        /\ vertexMap[cia[p]] \in 0..compressedVertexNum
        /\ vertexMap[Source(p)] \in 0..compressedVertexNum - 1
        /\ p \in Nat
    BY TupleFacts
  <2>2. vertexMap[cia[p]] \in Int /\ vertexMap[Source(p)] \in 0..MaxRange
    BY <1>4, <2>1
  <2> QED
    BY <2>1, <2>2 DEF EdgeSet
<1>6. /\ n = 0 => last = stray
      /\ n > 0 => last = vertexMap[Source(Nth(chosen, n - 1))] /\ last \in 0..MaxRange
  <2>1. CASE n = 0
    BY <2>1 DEF last
  <2>2. CASE n > 0
    <3>1. n - 1 \in 0..n - 1 /\ n # 0
      BY <1>1, <2>2
    <3>2. last = vertexMap[Source(Nth(chosen, n - 1))]
      BY <3>1 DEF last
    <3> QED
      BY <1>3, <1>5, <3>1, <3>2
  <2> QED
    BY <1>1, <2>1, <2>2
<1>7. last \in Int
  BY <1>1, <1>4, <1>6
<1>8. \A k \in 0..n - 1 : k \in 0..total - 1 /\ E[k] = Tuple(Nth(chosen, k))
                          /\ E[k].head = vertexMap[Source(Nth(chosen, k))]
                          /\ E[k].head \in 0..MaxRange
  <2> SUFFICES ASSUME NEW k \in 0..n - 1
               PROVE  /\ k \in 0..total - 1 /\ E[k] = Tuple(Nth(chosen, k))
                      /\ E[k].head = vertexMap[Source(Nth(chosen, k))]
                      /\ E[k].head \in 0..MaxRange
    OBVIOUS
  <2>1. k \in 0..total - 1 /\ k < n
    BY <1>1
  <2>2. E[k] = Tuple(Nth(chosen, k))
    BY <1>2, <2>1
  <2> QED
    BY <1>3, <1>5, <2>1, <2>2
<1>9. \A k \in n..total - 1 : k \in 0..total - 1 /\ ~(k < n)
                              /\ E[k] = [tail |-> Padding, head |-> last, prop |-> 0]
  <2> SUFFICES ASSUME NEW k \in n..total - 1
               PROVE  k \in 0..total - 1 /\ ~(k < n)
                      /\ E[k] = [tail |-> Padding, head |-> last, prop |-> 0]
    OBVIOUS
  <2>1. k \in 0..total - 1 /\ ~(k < n)
    BY <1>1
  <2> QED
    BY <1>2, <2>1
<1>10. \A k \in 0..total - 1 : k \in 0..n - 1 \/ k \in n..total - 1
  BY <1>1
<1>11. \A k \in 0..total - 1 : E[k] \in EdgeSet
  <2> SUFFICES ASSUME NEW k \in 0..total - 1 PROVE E[k] \in EdgeSet
    OBVIOUS
  <2>1. CASE k \in 0..n - 1
    BY <1>3, <1>5, <1>8, <2>1
  <2>2. CASE k \in n..total - 1
    BY <1>7, <1>9, <2>2 DEF EdgeSet, Padding
  <2> QED
    BY <1>10, <2>1, <2>2
<1>12. E \in [0..total - 1 -> EdgeSet]
  BY <1>2, <1>11
<1>13. \A k \in n..total - 1 : E[k].tail = Padding /\ E[k].head = last
  BY <1>9
<1>14. ASSUME NEW j \in 0..total - 1, NEW k \in 0..total - 1, j <= k
       PROVE  E[j].head <= E[k].head
  <2>1. CASE k \in 0..n - 1
    <3>1. j \in 0..n - 1
      BY <1>1, <1>14, <2>1
    <3>2. Source(Nth(chosen, j)) <= Source(Nth(chosen, k))
      BY <1>3, <1>14, <2>1, <3>1, SourceFacts
    <3>3. vertexMap[Source(Nth(chosen, j))] <= vertexMap[Source(Nth(chosen, k))]
      BY <1>3, <2>1, <3>1, <3>2, SourceFacts, MapFacts
    <3> QED
      BY <1>8, <2>1, <3>1, <3>3
  <2>2. CASE k \in n..total - 1 /\ j \in n..total - 1
    BY <1>7, <1>13, <2>2
  <2>3. CASE k \in n..total - 1 /\ j \in 0..n - 1
    <3>1. n > 0 /\ n - 1 \in 0..n - 1 /\ j <= n - 1
      BY <1>1, <2>3
    <3>2. Source(Nth(chosen, j)) <= Source(Nth(chosen, n - 1))
      BY <1>3, <2>3, <3>1, SourceFacts
    <3>3. vertexMap[Source(Nth(chosen, j))] <= vertexMap[Source(Nth(chosen, n - 1))]
      BY <1>3, <2>3, <3>1, <3>2, SourceFacts, MapFacts
    <3>4. E[j].head = vertexMap[Source(Nth(chosen, j))]
      BY <1>8, <2>3
    <3>5. E[k].head = vertexMap[Source(Nth(chosen, n - 1))]
      BY <1>6, <1>13, <2>3, <3>1
    <3> QED
      BY <3>3, <3>4, <3>5
  <2> QED
    BY <1>10, <2>1, <2>2, <2>3
<1>15. n > 0 => \A k \in 0..total - 1 : E[k].head \in 0..MaxRange
  BY <1>6, <1>8, <1>10, <1>13
<1>16. n = 0 => \A k \in 0..total - 1 : E[k].head = stray
  <2> HAVE n = 0
  <2>1. \A k \in 0..total - 1 : k \in n..total - 1
    BY <1>1
  <2> QED
    BY <1>6, <1>13, <2>1
<1> QED
  BY <1>8, <1>12, <1>13, <1>14, <1>15, <1>16 DEF total

(* A part is within the partition, and a whole number of blocks if the     *)
(* partition is.                                                           *)
LEMMA PartBounds ==
    ASSUME NEW total \in Nat, NEW r \in Cus
    PROVE  /\ SubPartitionSize(total) * r \in Nat
           /\ ListEnd(total, r) \in Nat
           /\ SubPartitionSize(total) * r + ListEnd(total, r) <= total
           /\ \A m \in Nat : total = ALIGN_SIZE * m =>
                 \E j \in Nat : ListEnd(total, r) = ALIGN_SIZE * j
<1> DEFINE size == SubPartitionSize(total)
           blocks == (total \div SUB_PARTITION_NUM) \div ALIGN_SIZE
           last == SUB_PARTITION_NUM - 1
<1>1. /\ SUB_PARTITION_NUM \in Nat \ {0} /\ ALIGN_SIZE \in Nat \ {0}
      /\ size \in Nat /\ size * SUB_PARTITION_NUM <= total
      /\ r \in Nat /\ r <= last /\ last \in Nat
  BY PartsFit, PartitionAssumption DEF Cus
<1>2. blocks \in Nat
  BY <1>1, Division
<1>3. size = ALIGN_SIZE * blocks
  BY <1>1, <1>2 DEF SubPartitionSize
<1>4. ListEnd(total, r) = IF r = last THEN total - size * r ELSE size
  BY PartEnds
<1>5. size * r \in Nat
  BY <1>1
<1>6. size * r + size <= total
  <2>1. r + 1 <= SUB_PARTITION_NUM
    BY <1>1
  <2>2. size * r + size <= size * SUB_PARTITION_NUM
    BY <1>1, <2>1, Steps
  <2>3. size * SUB_PARTITION_NUM \in Nat
    BY <1>1
  <2> HIDE DEF size
  <2> QED
    BY <1>1, <1>5, <2>2, <2>3
<1>7. ASSUME NEW m \in Nat, total = ALIGN_SIZE * m
      PROVE  \E j \in Nat : ListEnd(total, r) = ALIGN_SIZE * j
  <2>1. CASE r # last
    BY <1>2, <1>3, <1>4, <2>1
  <2>2. CASE r = last
    <3> DEFINE g == blocks * r
    <3>1. g \in Nat
      BY <1>1, <1>2
    <3>2. size * r = ALIGN_SIZE * g
      BY <1>1, <1>2, <1>3
    <3>3. ListEnd(total, r) = ALIGN_SIZE * m - ALIGN_SIZE * g
      BY <1>4, <1>7, <2>2, <3>2
    <3>4. ALIGN_SIZE * g <= ALIGN_SIZE * m
      <4> HIDE DEF size, g
      <4> QED
        BY <1>1, <1>5, <1>6, <1>7, <3>2
    <3> HIDE DEF g
    <3>5. g <= m
      <4>1. m < g => ALIGN_SIZE * m + ALIGN_SIZE <= ALIGN_SIZE * g
        BY <1>1, <3>1, Steps
      <4>2. ALIGN_SIZE * m \in Nat /\ ALIGN_SIZE * g \in Nat
        BY <1>1, <3>1
      <4> QED
        BY <1>1, <3>1, <3>4, <4>1, <4>2
    <3>6. m - g \in Nat /\ ALIGN_SIZE * (m - g) = ALIGN_SIZE * m - ALIGN_SIZE * g
      BY <1>1, <3>1, <3>5
    <3> QED
      BY <3>3, <3>6
  <2> QED
    BY <2>1, <2>2
<1> HIDE DEF size, last, blocks
<1>8. ListEnd(total, r) \in Nat /\ size * r + ListEnd(total, r) <= total
  <2> DEFINE g == size * r
  <2>1. g \in Nat /\ g + size <= total
    BY <1>5, <1>6
  <2> HIDE DEF g
  <2>2. ListEnd(total, r) = IF r = last THEN total - g ELSE size
    BY <1>4 DEF g
  <2>3. ListEnd(total, r) \in Nat /\ g + ListEnd(total, r) <= total
    BY <1>1, <2>1, <2>2
  <2> QED
    BY <2>3 DEF g
<1> QED
  BY <1>5, <1>7, <1>8 DEF size

Permutes(order) ==
    /\ order \in [Cus -> Cus]
    /\ \A c, e \in Cus : order[c] = order[e] => c = e
    /\ \A r \in Cus : \E c \in Cus : order[c] = r

Listed(d, E) ==
    /\ Permutes(d.finalOrder)
    /\ d.totalEdge = Cardinality(DOMAIN E)
    /\ d.sub = [c \in Cus |->
                  [k \in 0..ListEnd(d.totalEdge, d.finalOrder[c]) - 1 |->
                     E[SubPartitionSize(d.totalEdge) * d.finalOrder[c] + k]]]

(* A descriptor as partitionFunction fills it.                             *)
MadeOf(d, i) ==
    \E stray \in Stray : /\ Listed(d, Edges(i, stray))
                         /\ d.est = Estimated(Edges(i, stray), stray)

(* The lists of the units, taken together, are the array: unit c has the   *)
(* entries from at[c] on.                                                  *)
Laid(d, E, at, total) ==
    /\ \A c \in Cus : \E j \in Nat :
          DOMAIN d.sub[c] = 0..ALIGN_SIZE * j - 1
    /\ \A c \in Cus : \A k \in DOMAIN d.sub[c] :
          /\ k \in Nat
          /\ at[c] \in Nat /\ at[c] + k \in 0..total - 1
          /\ d.sub[c][k] = E[at[c] + k]
          /\ k > 0 => k - 1 \in DOMAIN d.sub[c]
    /\ \A x \in 0..total - 1 : \E c \in Cus : \E k \in DOMAIN d.sub[c] :
          at[c] + k = x
    /\ \A c, e \in Cus : \A k \in DOMAIN d.sub[c], l \in DOMAIN d.sub[e] :
          at[c] + k = at[e] + l => c = e /\ k = l

LEMMA ListedFacts ==
    ASSUME NEW total \in Nat, NEW m \in Nat, total = ALIGN_SIZE * m,
           NEW E \in [0..total - 1 -> EdgeSet],
           NEW d, Listed(d, E),
           NEW at, at = [c \in Cus |-> SubPartitionSize(total) * d.finalOrder[c]]
    PROVE  d.totalEdge = total /\ Laid(d, E, at, total)
<1> DEFINE size == SubPartitionSize(total)
           o == d.finalOrder
<1>1. d.totalEdge = total
  <2>1. DOMAIN E = 0..total - 1
    OBVIOUS
  <2>2. 0 \in Int /\ total - 1 \in Int /\ (IF 0 > total - 1 THEN 0 ELSE total - 1 - 0 + 1) = total
    OBVIOUS
  <2>3. Cardinality(0..total - 1) = total
    BY <2>2, FS_Interval
  <2> QED
    BY <2>1, <2>3 DEF Listed
<1>2. Permutes(o)
  BY DEF Listed
<1>3. \A c \in Cus : o[c] \in Cus
  BY <1>2 DEF Permutes
<1>4. \A c \in Cus : d.sub[c] = [k \in 0..ListEnd(total, o[c]) - 1 |-> E[size * o[c] + k]]
  BY <1>1 DEF Listed
<1>5. \A c \in Cus : at[c] = size * o[c]
  OBVIOUS
<1> HIDE DEF size, o
<1>6. \A c \in Cus : /\ at[c] \in Nat /\ ListEnd(total, o[c]) \in Nat
                     /\ at[c] + ListEnd(total, o[c]) <= total
                     /\ \E j \in Nat : ListEnd(total, o[c]) = ALIGN_SIZE * j
  BY <1>3, <1>5, PartBounds DEF size
<1>7. \A c \in Cus : DOMAIN d.sub[c] = 0..ListEnd(total, o[c]) - 1
  BY <1>4
<1>8. ASSUME NEW c \in Cus
      PROVE  \E j \in Nat : DOMAIN d.sub[c] = 0..ALIGN_SIZE * j - 1
  BY <1>6, <1>7
<1>9. ASSUME NEW c \in Cus, NEW k \in DOMAIN d.sub[c]
      PROVE  /\ k \in Nat
             /\ at[c] \in Nat /\ at[c] + k \in 0..total - 1
             /\ d.sub[c][k] = E[at[c] + k]
             /\ k > 0 => k - 1 \in DOMAIN d.sub[c]
             /\ Has(total, o[c], at[c] + k)
  <2> DEFINE e == ListEnd(total, o[c])
             b == at[c]
  <2>1. k \in 0..e - 1 /\ b \in Nat /\ e \in Nat /\ b + e <= total
    BY <1>6, <1>7
  <2>2. d.sub[c][k] = E[b + k]
    <3>1. d.sub[c][k] = E[size * o[c] + k]
      <4>1. d.sub[c] = [j \in 0..e - 1 |-> E[size * o[c] + j]]
        BY <1>4
      <4> HIDE DEF e, b
      <4> QED
        BY <2>1, <4>1
    <3>2. size * o[c] = b
      BY <1>5
    <3> QED
      BY <3>1, <3>2
  <2>3. SubPartitionSize(total) * o[c] = b
    BY <1>5 DEF size
  <2>4. DOMAIN d.sub[c] = 0..e - 1
    BY <1>7
  <2> HIDE DEF e, b
  <2>5. /\ k \in Nat /\ b + k \in 0..total - 1 /\ k < e
        /\ b <= b + k /\ b + k < b + e
        /\ k > 0 => k - 1 \in 0..e - 1
    BY <2>1
  <2>6. Has(total, o[c], b + k)
    BY <2>3, <2>5 DEF Has, e
  <2> QED
    BY <2>1, <2>2, <2>4, <2>5, <2>6 DEF b
<1>10. ASSUME NEW x \in 0..total - 1
       PROVE  \E c \in Cus : \E k \in DOMAIN d.sub[c] : at[c] + k = x
  <2>1. PICK r \in Cus : Has(total, r, x)
    BY PartsTile
  <2>2. PICK c \in Cus : o[c] = r
    BY <1>2 DEF Permutes
  <2> DEFINE e == ListEnd(total, o[c])
             b == at[c]
  <2>3. b <= x /\ x < b + e
    BY <1>5, <2>1, <2>2 DEF Has, size
  <2>4. b \in Nat /\ e \in Nat /\ DOMAIN d.sub[c] = 0..e - 1
    BY <1>6, <1>7
  <2> HIDE DEF e, b
  <2>5. x - b \in 0..e - 1 /\ b + (x - b) = x
    BY <2>3, <2>4
  <2>6. x - b \in DOMAIN d.sub[c] /\ at[c] + (x - b) = x
    BY <2>4, <2>5 DEF b
  <2> QED
    BY <2>6
<1>11. ASSUME NEW c \in Cus, NEW e \in Cus,
              NEW k \in DOMAIN d.sub[c], NEW l \in DOMAIN d.sub[e],
              at[c] + k = at[e] + l
       PROVE  c = e /\ k = l
  <2>1. /\ at[c] + k \in 0..total - 1
        /\ Has(total, o[c], at[c] + k) /\ Has(total, o[e], at[c] + k)
        /\ at[c] \in Nat /\ at[e] \in Nat /\ k \in Nat /\ l \in Nat
    BY <1>9, <1>11
  <2>2. o[c] = o[e]
    BY <1>3, <2>1, PartsTile
  <2>3. c = e
    BY <1>2, <2>2 DEF Permutes
  <2>4. k = l
    <3> DEFINE b == at[c]
    <3>1. b + k = b + l /\ b \in Nat
      BY <1>11, <2>1, <2>3
    <3> HIDE DEF b
    <3> QED
      BY <2>1, <3>1
  <2> QED
    BY <2>3, <2>4
<1> QED
  BY <1>1, <1>8, <1>9, <1>10, <1>11 DEF Laid

(* The lists of one partition: what EdgesOnce, HeadsSorted and Aligned say *)
(* of it.                                                                  *)
LEMMA PartitionLists ==
    ASSUME CsrOK, NEW i \in Nat, NEW d, MadeOf(d, i)
    PROVE  /\ \A c \in Cus : \E j \in Nat :
                 DOMAIN d.sub[c] = 0..ALIGN_SIZE * j - 1
           /\ \A c \in Cus : \A k \in DOMAIN d.sub[c] :
                 d.sub[c][k].tail # Padding =>
                   \E p \in Selected(i) : d.sub[c][k] = Tuple(p)
           /\ \A p \in Selected(i) : \E c \in Cus : \E k \in DOMAIN d.sub[c] :
                 d.sub[c][k] = Tuple(p)
           /\ \A p \in Selected(i) : \A c, e \in Cus :
                 \A k \in DOMAIN d.sub[c], l \in DOMAIN d.sub[e] :
                    d.sub[c][k] = Tuple(p) /\ d.sub[e][l] = Tuple(p)
                      => c = e /\ k = l
           /\ \E c \in Cus : \E k \in DOMAIN d.sub[c] : d.sub[c][k].tail = Padding
           /\ \A c \in Cus : \A k \in DOMAIN d.sub[c] :
                 k > 0 => d.sub[c][k - 1].head <= d.sub[c][k].head
<1>1. PICK stray \in Stray : Listed(d, Edges(i, stray))
  BY DEF MadeOf
<1> DEFINE chosen == Selected(i)
           n == Cardinality(chosen)
           E == Edges(i, stray)
           total == PaddedSize(n)
           at == [c \in Cus |-> SubPartitionSize(total) * d.finalOrder[c]]
<1>2. stray \in Int
  BY PartitionAssumption
<1>3. /\ n \in Nat /\ chosen \in SUBSET Int /\ chosen \subseteq Positions
      /\ IsFiniteSet(chosen)
  BY SelectedFacts
<1>4. total \in Nat /\ n < total /\ \E m \in Nat : total = ALIGN_SIZE * m
  BY <1>3, Padded
<1>16. at = [c \in Cus |-> SubPartitionSize(total) * d.finalOrder[c]]
  OBVIOUS
<1> HIDE DEF n, chosen, E, total, at
<1>5. /\ E \in [0..total - 1 -> EdgeSet]
      /\ \A k \in 0..n - 1 : E[k] = Tuple(Nth(chosen, k))
      /\ \A k \in n..total - 1 : E[k].tail = Padding
      /\ \A j, k \in 0..total - 1 : j <= k => E[j].head <= E[k].head
  BY <1>2, EdgesFacts DEF n, chosen, E, total
<1>6. Listed(d, E)
  BY <1>1 DEF E
<1>7. /\ \A c \in Cus : \E j \in Nat : DOMAIN d.sub[c] = 0..ALIGN_SIZE * j - 1
      /\ \A c \in Cus : \A k \in DOMAIN d.sub[c] :
            /\ k \in Nat
            /\ at[c] \in Nat /\ at[c] + k \in 0..total - 1
            /\ d.sub[c][k] = E[at[c] + k]
            /\ k > 0 => k - 1 \in DOMAIN d.sub[c]
      /\ \A x \in 0..total - 1 : \E c \in Cus : \E k \in DOMAIN d.sub[c] : at[c] + k = x
      /\ \A c, e \in Cus : \A k \in DOMAIN d.sub[c], l \in DOMAIN d.sub[e] :
            at[c] + k = at[e] + l => c = e /\ k = l
  <2>1. PICK m \in Nat : total = ALIGN_SIZE * m
    BY <1>4
  <2>2. E \in [0..total - 1 -> EdgeSet]
    BY <1>5
  <2>3. Laid(d, E, at, total)
    BY <1>16, <1>4, <2>1, <2>2, <1>6, ListedFacts
  <2> QED
    BY <2>3 DEF Laid
<1>8. /\ \A k \in 0..n - 1 : Nth(chosen, k) \in chosen /\ Below(chosen, Nth(chosen, k)) = k
      /\ \A p \in chosen : Below(chosen, p) \in 0..n - 1 /\ Nth(chosen, Below(chosen, p)) = p
  BY <1>3, NthFacts DEF n
<1>9. \A x \in 0..total - 1 : x \in 0..n - 1 \/ x \in n..total - 1
  BY <1>3, <1>4
<1>10. \A p \in chosen : Tuple(p).prop = p /\ Tuple(p).tail # Padding
  <2> SUFFICES ASSUME NEW p \in chosen
               PROVE  Tuple(p).prop = p /\ Tuple(p).tail # Padding
    OBVIOUS
  <2>1. /\ Tuple(p) = [tail |-> vertexMap[cia[p]], head |-> vertexMap[Source(p)],
                       prop |-> p]
        /\ vertexMap[cia[p]] \in 0..compressedVertexNum
    BY <1>3, TupleFacts
  <2> QED
    BY <2>1, MapFacts DEF Padding
<1>11. \A c \in Cus : \A k \in DOMAIN d.sub[c] :
          d.sub[c][k].tail # Padding => \E p \in chosen : d.sub[c][k] = Tuple(p)
  <2> SUFFICES ASSUME NEW c \in Cus, NEW k \in DOMAIN d.sub[c],
                      d.sub[c][k].tail # Padding
               PROVE  \E p \in chosen : d.sub[c][k] = Tuple(p)
    OBVIOUS
  <2>1. at[c] + k \in 0..n - 1
    BY <1>5, <1>7, <1>9
  <2> QED
    BY <1>5, <1>7, <1>8, <2>1
<1>12. \A p \in chosen : \E c \in Cus : \E k \in DOMAIN d.sub[c] : d.sub[c][k] = Tuple(p)
  <2> SUFFICES ASSUME NEW p \in chosen
               PROVE  \E c \in Cus : \E k \in DOMAIN d.sub[c] : d.sub[c][k] = Tuple(p)
    OBVIOUS
  <2> DEFINE x == Below(chosen, p)
  <2>1. x \in 0..n - 1 /\ Nth(chosen, x) = p
    BY <1>8
  <2> HIDE DEF x
  <2>2. x \in 0..total - 1
    BY <1>3, <1>4, <2>1
  <2>3. PICK c \in Cus : \E k \in DOMAIN d.sub[c] : at[c] + k = x
    BY <1>7, <2>2
  <2>4. PICK k \in DOMAIN d.sub[c] : at[c] + k = x
    BY <2>3
  <2>5. d.sub[c][k] = Tuple(p)
    BY <1>5, <1>7, <2>1, <2>4
  <2> QED
    BY <2>5
<1>13. ASSUME NEW p \in chosen, NEW c \in Cus, NEW e \in Cus,
              NEW k \in DOMAIN d.sub[c], NEW l \in DOMAIN d.sub[e],
              d.sub[c][k] = Tuple(p), d.sub[e][l] = Tuple(p)
       PROVE  c = e /\ k = l
  <2> DEFINE x == at[c] + k
             y == at[e] + l
  <2>1. /\ x \in 0..total - 1 /\ E[x] = Tuple(p)
        /\ y \in 0..total - 1 /\ E[y] = Tuple(p)
    BY <1>7, <1>13
  <2> HIDE DEF x, y
  <2>2. x \in 0..n - 1 /\ y \in 0..n - 1
    BY <1>5, <1>9, <1>10, <2>1
  <2>3. Tuple(Nth(chosen, x)) = Tuple(p) /\ Tuple(Nth(chosen, y)) = Tuple(p)
    BY <1>5, <2>1, <2>2
  <2>4. Nth(chosen, x) = p /\ Nth(chosen, y) = p
    BY <1>8, <1>10, <2>2, <2>3
  <2>5. x = y
    BY <1>8, <2>2, <2>4
  <2> QED
    BY <1>7, <2>5 DEF x, y
<1>14. \E c \in Cus : \E k \in DOMAIN d.sub[c] : d.sub[c][k].tail = Padding
  <2>1. n \in 0..total - 1 /\ n \in n..total - 1
    BY <1>3, <1>4
  <2>2. PICK c \in Cus : \E k \in DOMAIN d.sub[c] : at[c] + k = n
    BY <1>7, <2>1
  <2>3. PICK k \in DOMAIN d.sub[c] : at[c] + k = n
    BY <2>2
  <2>4. d.sub[c][k].tail = Padding
    BY <1>5, <1>7, <2>1, <2>3
  <2> QED
    BY <2>4
<1>15. ASSUME NEW c \in Cus, NEW k \in DOMAIN d.sub[c], k > 0
       PROVE  d.sub[c][k - 1].head <= d.sub[c][k].head
  <2> DEFINE x == at[c] + k
             y == at[c] + (k - 1)
  <2>1. k \in Nat /\ at[c] \in Nat /\ k - 1 \in DOMAIN d.sub[c]
    BY <1>7, <1>15
  <2>2. x \in 0..total - 1 /\ y \in 0..total - 1 /\ y <= x
    BY <1>7, <2>1
  <2>3. d.sub[c][k] = E[x] /\ d.sub[c][k - 1] = E[y]
    BY <1>7, <2>1
  <2> HIDE DEF x, y
  <2> QED
    BY <1>5, <2>2, <2>3
<1> QED
  BY <1>7, <1>11, <1>12, <1>13, <1>14, <1>15 DEF chosen

-----------------------------------------------------------------------------
(* The two sorts.  A loop whose state is computed from the one before      *)
(* has a sequence of states.                                               *)

HasRun(size, V, first, step) ==
    \E f \in [0..size -> V] :
       /\ f[0] = first
       /\ \A k \in 1..size : f[k] = step[<<k, f[k - 1]>>]

LEMMA Iterates ==
    ASSUME NEW size \in Nat, NEW V, NEW first \in V,
           NEW step \in [(1..size) \X V -> V]
    PROVE  HasRun(size, V, first, step)
<1> DEFINE Runs(n, f) == /\ f[0] = first
                         /\ \A k \in 1..n : f[k] = step[<<k, f[k - 1]>>]
           P == {n \in Nat : n <= size => \E f \in [0..n -> V] : Runs(n, f)}
<1>1. 0 \in P
  <2> DEFINE f == [k \in 0..0 |-> first]
  <2>1. f \in [0..0 -> V] /\ Runs(0, f)
    OBVIOUS
  <2> QED
    BY <2>1
<1>2. ASSUME NEW n \in Nat, n \in P
      PROVE  n + 1 \in P
  <2> SUFFICES ASSUME n + 1 <= size
               PROVE  \E f \in [0..n + 1 -> V] : Runs(n + 1, f)
    OBVIOUS
  <2>1. n <= size
    OBVIOUS
  <2>2. PICK f \in [0..n -> V] : Runs(n, f)
    BY <1>2, <2>1
  <2> DEFINE x == step[<<n + 1, f[n]>>]
             g == [k \in 0..n + 1 |-> IF k = n + 1 THEN x ELSE f[k]]
  <2>3. x \in V
    <3>1. n + 1 \in 1..size /\ f[n] \in V
      OBVIOUS
    <3> QED
      BY <3>1
  <2>4. \A k \in 0..n + 1 : k = n + 1 \/ k \in 0..n
    OBVIOUS
  <2> HIDE DEF x
  <2>5. g \in [0..n + 1 -> V]
    BY <2>3, <2>4
  <2>6. /\ \A k \in 0..n : g[k] = f[k]
        /\ g[n + 1] = x
    OBVIOUS
  <2>7. g[0] = first
    BY <2>2, <2>6
  <2> HIDE DEF g
  <2>8. \A k \in 1..n + 1 : g[k] = step[<<k, g[k - 1]>>]
    <3> SUFFICES ASSUME NEW k \in 1..n + 1 PROVE g[k] = step[<<k, g[k - 1]>>]
      OBVIOUS
    <3>1. CASE k \in 1..n
      <4>1. k \in 0..n /\ k - 1 \in 0..n
        BY <3>1
      <4> QED
        BY <2>2, <2>6, <3>1, <4>1
    <3>2. CASE k = n + 1
      <4>1. k - 1 = n /\ n \in 0..n
        BY <3>2
      <4> QED
        BY <2>6, <3>2, <4>1 DEF x
    <3> QED
      BY <3>1, <3>2
  <2> QED
    BY <2>5, <2>7, <2>8
<1> HIDE DEF P
<1>3. size \in P
  BY <1>1, <1>2, SetInduction
<1> QED
  BY <1>3 DEF P, HasRun

Orders(size) ==
    {o \in [0..size - 1 -> 0..size - 1] :
        /\ \A i, j \in 0..size - 1 : o[i] = o[j] => i = j
        /\ \A c \in 0..size - 1 : \E i \in 0..size - 1 : o[i] = c}

(* From t on the order is final; equal keys are in the order of their      *)
(* indices.                                                                *)
Final(o, key, size, t) ==
    \A i \in 0..size - 1, l \in t..size - 1 : i < l => key[o[i]] >= key[o[l]]
Stable(o, key, size) ==
    \A i, l \in 0..size - 1 : i < l /\ key[o[i]] = key[o[l]] => o[i] < o[l]

Exchanged(o, s, j, size) ==
    /\ s[j] = o[j - 1] /\ s[j - 1] = o[j]
    /\ \A i \in 0..size - 1 : i # j /\ i # j - 1 => s[i] = o[i]

LEMMA Swaps ==
    ASSUME NEW size \in Nat, NEW o \in Orders(size),
           NEW j \in 1..size - 1, NEW s, s = Swapped(o, j - 1)
    PROVE  s \in Orders(size) /\ Exchanged(o, s, j, size)
<1> DEFINE D == 0..size - 1
<1>1. j \in D /\ j - 1 \in D /\ j - 1 + 1 = j /\ j # j - 1
  OBVIOUS
<1>2. s = [o EXCEPT ![j - 1] = o[j], ![j] = o[j - 1]]
  BY <1>1 DEF Swapped
<1> HIDE DEF D
<1>3. /\ o \in [D -> D]
      /\ \A i, k \in D : o[i] = o[k] => i = k
      /\ \A c \in D : \E i \in D : o[i] = c
  BY DEF Orders, D
<1>4. s \in [D -> D]
  BY <1>1, <1>2, <1>3
<1>5. s[j] = o[j - 1] /\ s[j - 1] = o[j]
  BY <1>1, <1>2, <1>3
<1>6. \A i \in D : i # j /\ i # j - 1 => s[i] = o[i]
  BY <1>1, <1>2, <1>3
<1>7. \A i, k \in D : s[i] = s[k] => i = k
  <2> SUFFICES ASSUME NEW i \in D, NEW k \in D, s[i] = s[k], i # k PROVE FALSE
    OBVIOUS
  <2> DEFINE b == j - 1
  <2>1. b \in D /\ b # j
    BY <1>1
  <2>2. s[j] = o[b] /\ s[b] = o[j] /\ \A m \in D : m # j /\ m # b => s[m] = o[m]
    BY <1>5, <1>6
  <2> HIDE DEF b
  <2> QED
    BY <1>1, <1>3, <2>1, <2>2
<1>8. \A c \in D : \E i \in D : s[i] = c
  <2> SUFFICES ASSUME NEW c \in D PROVE \E i \in D : s[i] = c
    OBVIOUS
  <2>1. PICK i \in D : o[i] = c
    BY <1>3
  <2> QED
    BY <1>1, <1>5, <1>6, <2>1
<1> QED
  BY <1>1, <1>4, <1>5, <1>6, <1>7, <1>8 DEF Orders, Exchanged, D

LEMMA ComparedOrder ==
    ASSUME NEW size \in Nat, NEW key, NEW o \in Orders(size), NEW j \in 1..size - 1
    PROVE  Compared(key, o, j) \in Orders(size)
  BY Swaps DEF Compared

(* The step of a pass at j takes the least key of those up to j to j, and  *)
(* disturbs nothing.                                                       *)
LEMMA ComparedFacts ==
    ASSUME NEW size \in Nat, NEW key \in [0..size - 1 -> Int],
           NEW n \in 0..size - 1, NEW j \in 1..n, NEW o \in Orders(size),
           Stable(o, key, size), Final(o, key, size, n + 1),
           \A i \in 0..j - 1 : key[o[i]] >= key[o[j - 1]],
           NEW s, s = Compared(key, o, j)
    PROVE  /\ Stable(s, key, size)
           /\ Final(s, key, size, n + 1)
           /\ \A i \in 0..j : key[s[i]] >= key[s[j]]
<1> DEFINE D == 0..size - 1
           b == j - 1
<1>1. /\ j \in 1..size - 1 /\ j \in D /\ b \in D /\ b = j - 1 /\ j <= n
      /\ n \in Nat /\ size \in Nat
      /\ \A i \in 0..j : i \in D /\ (i = j \/ i = b \/ (i \in 0..b /\ i < b))
      /\ b \in 0..b /\ j \in 0..j
  OBVIOUS
<1>2. \A i \in D : i \in Int
  OBVIOUS
<1>3. \A l \in n + 1..size - 1 : l \in D /\ l > n
  BY <1>1
<1>4. o \in [D -> D]
  BY DEF Orders
<1> HIDE DEF D
<1>5. \A i \in D : o[i] \in D /\ key[o[i]] \in Int
  BY <1>4 DEF D
<1>6. \A i, l \in D : i < l /\ key[o[i]] = key[o[l]] => o[i] < o[l]
  BY DEF Stable, D
<1>7. \A i \in D, l \in n + 1..size - 1 : i < l => key[o[i]] >= key[o[l]]
  BY DEF Final, D
<1>8. \A i \in 0..b : key[o[i]] >= key[o[b]]
  OBVIOUS
<1>9. CASE ~(key[o[b]] < key[o[j]])
  <2>1. s = o
    BY <1>9 DEF Compared
  <2>2. \A i \in 0..j : key[o[i]] >= key[o[j]]
    <3> HIDE DEF b
    <3> QED
      BY <1>1, <1>5, <1>8, <1>9
  <2> QED
    BY <2>1, <2>2
<1>10. CASE key[o[b]] < key[o[j]]
  <2>1. s = Swapped(o, j - 1)
    BY <1>10 DEF Compared
  <2>2. /\ s[j] = o[b] /\ s[b] = o[j]
        /\ \A i \in D : i # j /\ i # b => s[i] = o[i]
    <3> HIDE DEF b
    <3>1. s = Swapped(o, j - 1) /\ j \in 1..size - 1
      BY <1>1, <2>1
    <3>2. Exchanged(o, s, j, size)
      BY <3>1, Swaps
    <3>3. s[j] = o[j - 1] /\ s[j - 1] = o[j]
      BY <3>2 DEF Exchanged
    <3>4. \A i \in D : i # j /\ i # j - 1 => s[i] = o[i]
      BY <3>2 DEF Exchanged, D
    <3> QED
      BY <1>1, <3>3, <3>4
  <2> HIDE DEF b
  <2>3. \A i \in 0..j : key[s[i]] >= key[s[j]]
    <3> SUFFICES ASSUME NEW i \in 0..j PROVE key[s[i]] >= key[s[j]]
      OBVIOUS
    <3>1. CASE i = j
      BY <1>1, <1>5, <2>2, <3>1
    <3>2. CASE i = b
      BY <1>1, <1>5, <1>10, <2>2, <3>2
    <3>3. CASE i \in 0..b /\ i < b
      <4>1. i \in D /\ i # j /\ i # b
        BY <1>1, <3>3
      <4> QED
        BY <1>8, <2>2, <3>3, <4>1
    <3> QED
      BY <1>1, <3>1, <3>2, <3>3
  <2>4. ASSUME NEW i \in D, NEW l \in n + 1..size - 1, i < l
        PROVE  key[s[i]] >= key[s[l]]
    <3>1. l \in D /\ l > n /\ l # j /\ l # b /\ j < l /\ b < l
      BY <1>1, <1>2, <1>3
    <3>2. s[l] = o[l]
      BY <2>2, <3>1
    <3>3. CASE i = j
      BY <1>1, <1>7, <2>2, <3>1, <3>2, <3>3
    <3>4. CASE i = b
      BY <1>1, <1>7, <2>2, <3>1, <3>2, <3>4
    <3>5. CASE i # j /\ i # b
      BY <1>7, <2>2, <2>4, <3>2, <3>5
    <3> QED
      BY <3>3, <3>4, <3>5
  <2>5. ASSUME NEW i \in D, NEW l \in D, i < l, key[s[i]] = key[s[l]]
        PROVE  s[i] < s[l]
    <3>1. ~(i = b /\ l = j)
      <4> SUFFICES ASSUME i = b, l = j PROVE FALSE
        OBVIOUS
      <4>1. key[o[j]] = key[o[b]] /\ key[o[j]] \in Int
        BY <1>1, <1>5, <2>2, <2>5
      <4> QED
        BY <1>10, <4>1
    <3>2. b < j /\ b \in Int /\ j \in Int /\ i \in Int /\ l \in Int
          /\ ~(b < i /\ i < j) /\ ~(b < l /\ l < j)
      BY <1>1, <1>2
    <3>3. CASE i = b
      <4>1. l # j /\ l # b /\ j < l
        BY <2>5, <3>1, <3>2, <3>3
      <4>2. s[i] = o[j] /\ s[l] = o[l]
        BY <2>2, <3>3, <4>1
      <4> QED
        BY <1>1, <1>6, <2>5, <4>1, <4>2
    <3>4. CASE i = j
      <4>1. l # j /\ l # b /\ b < l
        BY <2>5, <3>2, <3>4
      <4>2. s[i] = o[b] /\ s[l] = o[l]
        BY <2>2, <3>4, <4>1
      <4> QED
        BY <1>1, <1>6, <2>5, <4>1, <4>2
    <3>5. CASE i # b /\ i # j /\ l = b
      <4>1. i < j
        BY <2>5, <3>2, <3>5
      <4>2. s[i] = o[i] /\ s[l] = o[j]
        BY <2>2, <3>5
      <4> QED
        BY <1>1, <1>6, <2>5, <4>1, <4>2
    <3>6. CASE i # b /\ i # j /\ l = j
      <4>1. i < b
        BY <2>5, <3>2, <3>6
      <4>2. s[i] = o[i] /\ s[l] = o[b]
        BY <2>2, <3>6
      <4> QED
        BY <1>1, <1>6, <2>5, <4>1, <4>2
    <3>7. CASE i # b /\ i # j /\ l # b /\ l # j
      BY <1>6, <2>2, <2>5, <3>7
    <3> QED
      BY <3>3, <3>4, <3>5, <3>6, <3>7
  <2>6. Final(s, key, size, n + 1)
    BY <2>4 DEF Final, D
  <2>7. Stable(s, key, size)
    BY <2>5 DEF Stable, D
  <2> QED
    BY <2>3, <2>6, <2>7
<1> QED
  BY <1>9, <1>10

PassHasRun(key, o, n, size) ==
    \E f \in [0..n -> Orders(size)] :
       /\ f[0] = o
       /\ \A j \in 1..n : f[j] = Compared(key, f[j - 1], j)
       /\ Pass(key, o, n) = f[n]

LEMMA PassRuns ==
    ASSUME NEW size \in Nat, NEW key, NEW n \in 0..size - 1, NEW o \in Orders(size)
    PROVE  PassHasRun(key, o, n, size)
<1> DEFINE V == Orders(size)
           Runs(f) == f = [j \in 0..n |->
                             IF j = 0 THEN o ELSE Compared(key, f[j - 1], j)]
           step == [x \in (1..n) \X V |-> Compared(key, x[2], x[1])]
           g == CHOOSE f : Runs(f)
<1>1. \A j \in 1..n : j \in 1..size - 1
  OBVIOUS
<1>2. \A j \in 1..n : \A x \in V : Compared(key, x, j) \in V
  BY <1>1, ComparedOrder
<1> HIDE DEF V
<1>3. step \in [(1..n) \X V -> V]
  BY <1>2
<1>4. \A j \in 1..n : \A x \in V : step[<<j, x>>] = Compared(key, x, j)
  OBVIOUS
<1>5. n \in Nat /\ o \in V
  BY DEF V
<1> HIDE DEF step
<1>6. PICK f \in [0..n -> V] : /\ f[0] = o
                               /\ \A j \in 1..n : f[j] = step[<<j, f[j - 1]>>]
  <2>1. HasRun(n, V, o, step)
    BY <1>3, <1>5, Iterates
  <2> QED
    BY <2>1 DEF HasRun
<1>7. \A j \in 1..n : j - 1 \in 0..n /\ f[j - 1] \in V
  BY <1>5
<1>8. \A j \in 1..n : f[j] = Compared(key, f[j - 1], j)
  BY <1>4, <1>6, <1>7
<1>9. \A j \in 0..n : f[j] = IF j = 0 THEN o ELSE Compared(key, f[j - 1], j)
  <2> SUFFICES ASSUME NEW j \in 0..n
               PROVE  f[j] = IF j = 0 THEN o ELSE Compared(key, f[j - 1], j)
    OBVIOUS
  <2>1. j = 0 \/ j \in 1..n
    OBVIOUS
  <2>2. ~(0 \in 1..n)
    OBVIOUS
  <2> QED
    BY <1>6, <1>8, <2>1, <2>2
<1>10. Runs(f)
  BY <1>6, <1>9
<1>11. Runs(g)
  <2> HIDE DEF Runs
  <2> QED
    BY <1>10
<1>12. Pass(key, o, n) = g[n]
  BY DEF Pass
<1> HIDE DEF g
<1>13. DOMAIN g = 0..n /\ \A j \in 0..n : g[j] = IF j = 0 THEN o ELSE Compared(key, g[j - 1], j)
  BY <1>11
<1>14. g[0] = o /\ \A j \in 1..n : g[j] = Compared(key, g[j - 1], j)
  BY <1>5, <1>13
<1> DEFINE P == {j \in Nat : j <= n => g[j] \in V}
<1>15. 0 \in P
  BY <1>5, <1>14
<1>16. ASSUME NEW j \in Nat, j \in P
       PROVE  j + 1 \in P
  <2> SUFFICES ASSUME j + 1 <= n PROVE g[j + 1] \in V
    OBVIOUS
  <2>1. j <= n /\ j + 1 \in 1..n /\ (j + 1) - 1 = j
    BY <1>5
  <2>2. g[j] \in V
    BY <1>16, <2>1
  <2>3. g[j + 1] = Compared(key, g[j], j + 1)
    BY <1>14, <2>1
  <2> QED
    BY <1>2, <2>1, <2>2, <2>3
<1> HIDE DEF P
<1>17. \A j \in Nat : j \in P
  BY <1>15, <1>16, SetInduction
<1>18. \A j \in 0..n : g[j] \in V
  BY <1>5, <1>17 DEF P
<1>19. g \in [0..n -> V]
  BY <1>11, <1>13, <1>18
<1> QED
  BY <1>12, <1>14, <1>19 DEF V, PassHasRun

(* A pass moves the least key of those up to n to n.                       *)
LEMMA PassFacts ==
    ASSUME NEW size \in Nat, NEW key \in [0..size - 1 -> Int],
           NEW n \in 0..size - 1, NEW o \in Orders(size),
           Stable(o, key, size), Final(o, key, size, n + 1)
    PROVE  /\ Stable(Pass(key, o, n), key, size)
           /\ Final(Pass(key, o, n), key, size, n)
<1>1. PICK f \in [0..n -> Orders(size)] :
         /\ f[0] = o
         /\ \A j \in 1..n : f[j] = Compared(key, f[j - 1], j)
         /\ Pass(key, o, n) = f[n]
  <2>1. PassHasRun(key, o, n, size)
    BY PassRuns
  <2> QED
    BY <2>1 DEF PassHasRun
<1> DEFINE Good(j) == /\ Stable(f[j], key, size)
                      /\ Final(f[j], key, size, n + 1)
                      /\ \A i \in 0..j : key[f[j][i]] >= key[f[j][j]]
           P == {j \in Nat : j <= n => Good(j)}
<1>2. n \in Nat /\ n < size
  OBVIOUS
<1>3. \A j \in 0..n : f[j] \in Orders(size)
  OBVIOUS
<1>4. \A x \in Orders(size) : \A i \in 0..size - 1 : key[x[i]] \in Int
  BY DEF Orders
<1>5. 0 \in P
  <2>1. 0 \in 0..size - 1 /\ o \in Orders(size)
    BY <1>2
  <2>2. key[o[0]] \in Int
    BY <1>4, <2>1
  <2>3. \A i \in 0..0 : key[o[i]] >= key[o[0]]
    <3>1. \A i \in 0..0 : i = 0
      OBVIOUS
    <3> QED
      BY <2>2, <3>1
  <2>4. Good(0)
    BY <1>1, <2>3
  <2> QED
    BY <2>4
<1>6. ASSUME NEW j \in Nat, j \in P
      PROVE  j + 1 \in P
  <2> SUFFICES ASSUME j + 1 <= n PROVE Good(j + 1)
    OBVIOUS
  <2> DEFINE k == j + 1
  <2>1. j <= n /\ k \in 1..n /\ k - 1 = j /\ j \in 0..n
    BY <1>2
  <2>2. Good(j)
    BY <1>6, <2>1
  <2>3. f[k] = Compared(key, f[j], k) /\ f[j] \in Orders(size)
    BY <1>1, <1>3, <2>1
  <2> HIDE DEF k
  <2>4. /\ Stable(f[j], key, size)
        /\ Final(f[j], key, size, n + 1)
        /\ \A i \in 0..k - 1 : key[f[j][i]] >= key[f[j][k - 1]]
    BY <2>1, <2>2
  <2> HIDE DEF Good, P
  <2>5. /\ Stable(f[k], key, size)
        /\ Final(f[k], key, size, n + 1)
        /\ \A i \in 0..k : key[f[k][i]] >= key[f[k][k]]
    BY <2>1, <2>3, <2>4, ComparedFacts
  <2>6. Good(k)
    BY <2>5 DEF Good
  <2> QED
    BY <2>6 DEF k
<1> HIDE DEF P
<1>7. n \in P
  BY <1>2, <1>5, <1>6, SetInduction
<1> DEFINE s == f[n]
<1>8. Good(n)
  BY <1>2, <1>7 DEF P
<1>9. /\ Stable(s, key, size) /\ Final(s, key, size, n + 1)
      /\ \A i \in 0..n : key[s[i]] >= key[s[n]]
  BY <1>8
<1> HIDE DEF Good, s
<1>10. Final(s, key, size, n)
  <2> SUFFICES ASSUME NEW i \in 0..size - 1, NEW l \in n..size - 1, i < l
               PROVE  key[s[i]] >= key[s[l]]
    BY DEF Final
  <2>1. CASE l = n
    <3>1. i \in 0..n
      BY <2>1
    <3> QED
      BY <1>9, <2>1, <3>1
  <2>2. CASE l # n
    <3>1. l \in n + 1..size - 1
      BY <1>2, <2>2
    <3> QED
      BY <1>9, <3>1 DEF Final
  <2> QED
    BY <2>1, <2>2
<1> QED
  BY <1>1, <1>9, <1>10 DEF s

LEMMA SortRuns ==
    ASSUME NEW size \in Nat, NEW key
    PROVE  \E f \in [0..size -> Orders(size)] :
              /\ f[0] = [j \in 0..size - 1 |-> j]
              /\ \A k \in 1..size : f[k] = Pass(key, f[k - 1], size - k)
              /\ BubbleSort(key, size) = f[size]
<1> DEFINE V == Orders(size)
           o == [j \in 0..size - 1 |-> j]
           Runs(f) == f = [k \in 0..size |->
                             IF k = 0 THEN o ELSE Pass(key, f[k - 1], size - k)]
           step == [x \in (1..size) \X V |-> Pass(key, x[2], size - x[1])]
           g == CHOOSE f : Runs(f)
<1>1. \A k \in 1..size : size - k \in 0..size - 1
  OBVIOUS
<1>2. ASSUME NEW k \in 1..size, NEW x \in V
      PROVE  Pass(key, x, size - k) \in V
  <2> DEFINE n == size - k
  <2>1. n \in 0..size - 1 /\ n \in 0..n
    BY <1>1
  <2> HIDE DEF n
  <2>2. PassHasRun(key, x, n, size)
    BY <2>1, PassRuns
  <2>3. PICK f \in [0..n -> Orders(size)] : Pass(key, x, n) = f[n]
    BY <2>2 DEF PassHasRun
  <2> QED
    BY <2>1, <2>3 DEF n
<1>3. o \in V
  BY DEF Orders
<1> HIDE DEF V, o
<1>4. step \in [(1..size) \X V -> V]
  BY <1>2
<1>5. \A k \in 1..size : \A x \in V : step[<<k, x>>] = Pass(key, x, size - k)
  OBVIOUS
<1> HIDE DEF step
<1>6. PICK f \in [0..size -> V] : /\ f[0] = o
                                  /\ \A k \in 1..size : f[k] = step[<<k, f[k - 1]>>]
  <2>1. HasRun(size, V, o, step)
    BY <1>3, <1>4, Iterates
  <2> QED
    BY <2>1 DEF HasRun
<1>7. \A k \in 1..size : k - 1 \in 0..size /\ f[k - 1] \in V
  OBVIOUS
<1>8. \A k \in 1..size : f[k] = Pass(key, f[k - 1], size - k)
  BY <1>5, <1>6, <1>7
<1>9. \A k \in 0..size : f[k] = IF k = 0 THEN o ELSE Pass(key, f[k - 1], size - k)
  <2> SUFFICES ASSUME NEW k \in 0..size
               PROVE  f[k] = IF k = 0 THEN o ELSE Pass(key, f[k - 1], size - k)
    OBVIOUS
  <2>1. k = 0 \/ k \in 1..size
    OBVIOUS
  <2>2. ~(0 \in 1..size)
    OBVIOUS
  <2> QED
    BY <1>6, <1>8, <2>1, <2>2
<1>10. Runs(f)
  BY <1>6, <1>9
<1>11. Runs(g)
  <2> HIDE DEF Runs
  <2> QED
    BY <1>10
<1>12. BubbleSort(key, size) = g[size]
  BY DEF BubbleSort, o
<1> HIDE DEF g
<1>13. DOMAIN g = 0..size
       /\ \A k \in 0..size : g[k] = IF k = 0 THEN o ELSE Pass(key, g[k - 1], size - k)
  BY <1>11
<1>14. g[0] = o /\ \A k \in 1..size : g[k] = Pass(key, g[k - 1], size - k)
  BY <1>13
<1> DEFINE P == {k \in Nat : k <= size => g[k] \in V}
<1>15. 0 \in P
  BY <1>3, <1>14
<1>16. ASSUME NEW k \in Nat, k \in P
       PROVE  k + 1 \in P
  <2> SUFFICES ASSUME k + 1 <= size PROVE g[k + 1] \in V
    OBVIOUS
  <2>1. k <= size /\ k + 1 \in 1..size /\ (k + 1) - 1 = k
    OBVIOUS
  <2>2. g[k] \in V
    BY <1>16, <2>1
  <2>3. g[k + 1] = Pass(key, g[k], size - (k + 1))
    BY <1>14, <2>1
  <2> QED
    BY <1>2, <2>1, <2>2, <2>3
<1> HIDE DEF P
<1>17. \A k \in Nat : k \in P
  BY <1>15, <1>16, SetInduction
<1>18. \A k \in 0..size : g[k] \in V
  BY <1>17 DEF P
<1>19. g \in [0..size -> V]
  BY <1>11, <1>13, <1>18
<1> QED
  BY <1>12, <1>14, <1>19 DEF V, o

(* Bubble sort lists the keys in descending order.                         *)
LEMMA BubbleSorts ==
    ASSUME NEW size \in Nat, NEW key \in [0..size - 1 -> Int]
    PROVE  S!IsDescending(BubbleSort(key, size), key)
<1>1. PICK f \in [0..size -> Orders(size)] :
         /\ f[0] = [j \in 0..size - 1 |-> j]
         /\ \A k \in 1..size : f[k] = Pass(key, f[k - 1], size - k)
         /\ BubbleSort(key, size) = f[size]
  BY SortRuns
<1> DEFINE Good(k) == Stable(f[k], key, size) /\ Final(f[k], key, size, size - k)
           P == {k \in Nat : k <= size => Good(k)}
<1>2. \A k \in 0..size : f[k] \in Orders(size)
  OBVIOUS
<1>3. 0 \in P
  <2>1. Stable(f[0], key, size)
    BY <1>1 DEF Stable
  <2>2. Final(f[0], key, size, size - 0)
    <3>1. \A l \in size - 0..size - 1 : FALSE
      OBVIOUS
    <3> QED
      BY <3>1 DEF Final
  <2> QED
    BY <2>1, <2>2
<1>4. ASSUME NEW k \in Nat, k \in P
      PROVE  k + 1 \in P
  <2> SUFFICES ASSUME k + 1 <= size PROVE Good(k + 1)
    OBVIOUS
  <2> DEFINE n == size - (k + 1)
  <2>1. /\ k <= size /\ k + 1 \in 1..size /\ (k + 1) - 1 = k /\ k \in 0..size
        /\ n \in 0..size - 1 /\ n + 1 = size - k
    OBVIOUS
  <2>2. Good(k)
    BY <1>4, <2>1
  <2>3. f[k + 1] = Pass(key, f[k], n) /\ f[k] \in Orders(size)
    BY <1>1, <1>2, <2>1
  <2>4. Stable(f[k], key, size) /\ Final(f[k], key, size, n + 1)
    BY <2>1, <2>2
  <2> HIDE DEF Good, P, n
  <2>5. Stable(f[k + 1], key, size) /\ Final(f[k + 1], key, size, n)
    BY <2>1, <2>3, <2>4, PassFacts
  <2> QED
    BY <2>5 DEF Good, n
<1> HIDE DEF P
<1>5. size \in P
  BY <1>3, <1>4, SetInduction
<1>6. Good(size)
  BY <1>5 DEF P
<1> DEFINE s == BubbleSort(key, size)
<1>7. s \in Orders(size) /\ Stable(s, key, size) /\ Final(s, key, size, 0)
  <2>1. size - size = 0 /\ size \in 0..size
    OBVIOUS
  <2> QED
    BY <1>1, <1>2, <1>6, <2>1
<1> HIDE DEF Good, s
<1>8. DOMAIN key = 0..size - 1
  OBVIOUS
<1>9. /\ s \in [0..size - 1 -> 0..size - 1]
      /\ \A c \in 0..size - 1 : \E i \in 0..size - 1 : s[i] = c
  BY <1>7 DEF Orders
<1>10. ASSUME NEW j \in 0..size - 1, NEW k \in 0..size - 1, j < k
       PROVE  \/ key[s[j]] > key[s[k]]
              \/ key[s[j]] = key[s[k]] /\ s[j] < s[k]
  <2>1. key[s[j]] \in Int /\ key[s[k]] \in Int
    BY <1>9
  <2>2. key[s[j]] >= key[s[k]]
    BY <1>7, <1>10 DEF Final
  <2>3. key[s[j]] = key[s[k]] => s[j] < s[k]
    BY <1>7, <1>10 DEF Stable
  <2> QED
    BY <2>1, <2>2, <2>3
<1>11. S!IsDescending(s, key)
  BY <1>8, <1>9, <1>10 DEF S!IsDescending
<1> QED
  BY <1>11 DEF s

(* The loop over maxIndex does the same for the units' totals.             *)
Leading(perf, taken) ==
    LET free == Cus \ taken
        best == {c \in free : \A d \in free : perf[c] >= perf[d]}
    IN LeastOf(best)

LEMMA UnitsFacts ==
    /\ SUB_PARTITION_NUM \in Nat \ {0}
    /\ Cus \subseteq Nat /\ IsFiniteSet(Cus) /\ Cardinality(Cus) = SUB_PARTITION_NUM
    /\ Cus = 0..Cardinality(Cus) - 1
<1> DEFINE n == SUB_PARTITION_NUM
<1>1. n \in Nat \ {0}
  BY PartitionAssumption
<1>2. Cus = 0..n - 1
  BY DEF Cus
<1>3. 0 \in Int /\ n - 1 \in Int /\ (IF 0 > n - 1 THEN 0 ELSE n - 1 - 0 + 1) = n
  BY <1>1
<1> HIDE DEF n
<1>4. IsFiniteSet(0..n - 1) /\ Cardinality(0..n - 1) = n
  BY <1>3, FS_Interval
<1>5. Cus \subseteq Nat
  BY <1>1, <1>2
<1> QED
  BY <1>1, <1>2, <1>4, <1>5 DEF n

LEMMA ByPerformanceSorts ==
    ASSUME NEW perf \in [Cus -> Int]
    PROVE  S!IsDescending(ByPerformance(perf), perf)
<1> DEFINE R == {x \in Cus \X Cus : \/ perf[x[1]] > perf[x[2]]
                                    \/ perf[x[1]] = perf[x[2]] /\ x[1] < x[2]}
           rank(c) == RankIn(Cus, R, c)
           Picks(g) == g = [k \in Cus |-> Leading(perf, {g[m] : m \in 0..k - 1})]
           f == [k \in Cus |-> CHOOSE c \in Cus : rank(c) = k]
           g == CHOOSE h : Picks(h)
<1>1. /\ \A c \in Cus : c \in Int /\ perf[c] \in Int
      /\ IsFiniteSet(Cus) /\ Cus = 0..Cardinality(Cus) - 1
  BY UnitsFacts
<1>2. \A c, d \in Cus : <<c, d>> \in R <=> \/ perf[c] > perf[d]
                                           \/ perf[c] = perf[d] /\ c < d
  OBVIOUS
<1> HIDE DEF R
<1>3. /\ \A x \in Cus : <<x, x>> \notin R
      /\ \A x, y, z \in Cus : <<x, y>> \in R /\ <<y, z>> \in R => <<x, z>> \in R
      /\ \A x, y \in Cus : x # y => <<x, y>> \in R \/ <<y, x>> \in R
  <2>1. \A x \in Cus : <<x, x>> \notin R
    BY <1>1, <1>2
  <2>2. \A x, y, z \in Cus : <<x, y>> \in R /\ <<y, z>> \in R => <<x, z>> \in R
    <3> SUFFICES ASSUME NEW x \in Cus, NEW y \in Cus, NEW z \in Cus,
                        <<x, y>> \in R, <<y, z>> \in R
                 PROVE  <<x, z>> \in R
      OBVIOUS
    <3> QED
      BY <1>1, <1>2
  <2>3. \A x, y \in Cus : x # y => <<x, y>> \in R \/ <<y, x>> \in R
    <3> SUFFICES ASSUME NEW x \in Cus, NEW y \in Cus, x # y
                 PROVE  <<x, y>> \in R \/ <<y, x>> \in R
      OBVIOUS
    <3> QED
      BY <1>1, <1>2
  <2> QED
    BY <2>1, <2>2, <2>3
<1>4. /\ \A x \in Cus : RankIn(Cus, R, x) \in Cus
      /\ \A x, y \in Cus : <<x, y>> \in R => RankIn(Cus, R, x) < RankIn(Cus, R, y)
      /\ \A k \in Cus : \E x \in Cus : RankIn(Cus, R, x) = k
  <2>1. /\ \A x \in Cus : RankIn(Cus, R, x) \in 0..Cardinality(Cus) - 1
        /\ \A x, y \in Cus : <<x, y>> \in R => RankIn(Cus, R, x) < RankIn(Cus, R, y)
        /\ \A k \in 0..Cardinality(Cus) - 1 : \E x \in Cus : RankIn(Cus, R, x) = k
    BY <1>1, <1>3, Ranks
  <2> QED
    BY <1>1, <2>1
<1>5. \A k \in Cus : f[k] \in Cus /\ rank(f[k]) = k
  BY <1>4
<1>6. \A x, y \in Cus : rank(x) < rank(y) => <<x, y>> \in R
  <2> SUFFICES ASSUME NEW x \in Cus, NEW y \in Cus, rank(x) < rank(y)
               PROVE  <<x, y>> \in R
    OBVIOUS
  <2>1. x # y /\ rank(x) \in Int /\ rank(y) \in Int
    BY <1>1, <1>4
  <2>2. ~(<<y, x>> \in R)
    <3>1. <<y, x>> \in R => rank(y) < rank(x)
      BY <1>4
    <3> HIDE DEF rank
    <3> QED
      BY <2>1, <3>1
  <2> QED
    BY <1>3, <2>1, <2>2
<1>7. f = [k \in Cus |-> f[k]]
  OBVIOUS
<1>8. \A x \in Cus : rank(x) \in Cus /\ f[rank(x)] = x
  <2> SUFFICES ASSUME NEW x \in Cus PROVE rank(x) \in Cus /\ f[rank(x)] = x
    OBVIOUS
  <2>1. rank(x) \in Cus
    BY <1>4
  <2> DEFINE y == f[rank(x)]
  <2>2. y \in Cus /\ rank(y) = rank(x)
    BY <1>5, <2>1
  <2> HIDE DEF y, f
  <2>3. ~(<<x, y>> \in R) /\ ~(<<y, x>> \in R)
    <3>1. rank(x) \in Int /\ rank(y) \in Int
      BY <1>1, <2>1, <2>2
    <3> QED
      BY <1>4, <2>2, <3>1
  <2>4. x = y
    BY <1>3, <2>2, <2>3
  <2> QED
    BY <2>1, <2>4 DEF y
<1> HIDE DEF f
<1>9. ASSUME NEW k \in Cus
      PROVE  Leading(perf, {f[m] : m \in 0..k - 1}) = f[k]
  <2> DEFINE taken == {f[m] : m \in 0..k - 1}
             free == Cus \ taken
             best == {c \in free : \A d \in free : perf[c] >= perf[d]}
  <2>1. \A m \in 0..k - 1 : m \in Cus /\ m < k
    BY <1>1, UnitsFacts DEF Cus
  <2>2. \A c \in Cus : c \in free <=> k <= rank(c)
    <3> SUFFICES ASSUME NEW c \in Cus PROVE c \in taken <=> rank(c) < k
      BY <1>1, <1>8
    <3>1. rank(c) \in Nat /\ k \in Nat /\ rank(c) \in Cus /\ f[rank(c)] = c
      BY <1>8, UnitsFacts
    <3>2. ASSUME rank(c) < k PROVE c \in taken
      <4>1. rank(c) \in 0..k - 1
        <5> HIDE DEF rank
        <5> QED
          BY <3>1, <3>2
      <4> QED
        BY <3>1, <4>1
    <3>3. ASSUME NEW m \in 0..k - 1, c = f[m] PROVE rank(c) < k
      BY <1>5, <2>1, <3>3
    <3> QED
      BY <3>2, <3>3
  <2>3. f[k] \in free
    <3>1. f[k] \in Cus /\ rank(f[k]) = k /\ k \in Int
      BY <1>1, <1>5
    <3>2. k <= rank(f[k])
      BY <3>1
    <3>3. f[k] \in Cus => (f[k] \in free <=> k <= rank(f[k]))
      <4> HIDE DEF free, rank
      <4> QED
        BY <2>2
    <3> QED
      BY <3>1, <3>2, <3>3
  <2>4. \A d \in free : d = f[k] \/ <<f[k], d>> \in R
    <3> SUFFICES ASSUME NEW d \in free, d # f[k] PROVE <<f[k], d>> \in R
      OBVIOUS
    <3>1. d \in Cus /\ k <= rank(d)
      BY <2>2
    <3>2. rank(d) # k
      BY <1>8, <3>1
    <3>3. rank(f[k]) < rank(d) /\ f[k] \in Cus
      <4>1. rank(d) \in Int /\ k \in Int /\ rank(f[k]) = k /\ f[k] \in Cus
        BY <1>1, <1>5, <1>8, <3>1
      <4> HIDE DEF rank
      <4> QED
        BY <3>1, <3>2, <4>1
    <3> QED
      BY <1>6, <3>1, <3>3
  <2>5. f[k] \in Cus
    BY <1>5
  <2>6. \A d \in free : perf[f[k]] >= perf[d]
    <3> SUFFICES ASSUME NEW d \in free PROVE perf[f[k]] >= perf[d]
      OBVIOUS
    <3>1. d \in Cus
      OBVIOUS
    <3>2. CASE d = f[k]
      <4>1. perf[d] \in Int
        BY <1>1, <3>1
      <4> QED
        BY <3>2, <4>1
    <3>3. CASE <<f[k], d>> \in R
      <4>1. perf[f[k]] > perf[d] \/ perf[f[k]] = perf[d]
        BY <1>2, <2>5, <3>1, <3>3
      <4>2. perf[d] \in Int /\ perf[f[k]] \in Int
        BY <1>1, <2>5, <3>1
      <4> QED
        BY <4>1, <4>2
    <3>4. d = f[k] \/ <<f[k], d>> \in R
      <4> HIDE DEF free
      <4> QED
        BY <2>4
    <3> QED
      BY <3>2, <3>3, <3>4
  <2>7. f[k] \in best
    BY <2>3, <2>6
  <2>8. \A c \in best : c \in Cus /\ f[k] <= c
    <3> SUFFICES ASSUME NEW c \in best PROVE c \in Cus /\ f[k] <= c
      OBVIOUS
    <3>1. c \in Cus /\ c \in free /\ perf[c] >= perf[f[k]]
      BY <2>3
    <3>2. perf[c] = perf[f[k]]
      BY <1>1, <2>5, <2>6, <3>1
    <3>3. c = f[k] \/ <<f[k], c>> \in R
      BY <2>4, <3>1
    <3> QED
      BY <1>1, <1>2, <2>5, <3>1, <3>2, <3>3
  <2>9. Leading(perf, taken) = LeastOf(best)
    BY DEF Leading
  <2> HIDE DEF best, free, taken
  <2>10. \A x \in best : (\A y \in best : x <= y) => x = f[k]
    <3> SUFFICES ASSUME NEW x \in best, \A y \in best : x <= y PROVE x = f[k]
      OBVIOUS
    <3>1. x <= f[k] /\ f[k] <= x /\ x \in Int /\ f[k] \in Int
      BY <1>1, <2>5, <2>7, <2>8
    <3> QED
      BY <3>1
  <2>11. LeastOf(best) = f[k]
    BY <2>7, <2>8, <2>10 DEF LeastOf
  <2> QED
    BY <2>9, <2>11 DEF taken
<1>10. Picks(f)
  BY <1>7, <1>9
<1>11. Picks(g)
  <2> HIDE DEF Picks
  <2> QED
    BY <1>10
<1>12. ByPerformance(perf) = g
  BY DEF ByPerformance, Leading
<1> HIDE DEF g
<1>13. g = f
  <2> DEFINE bad == {k \in Cus : g[k] # f[k]}
  <2>1. bad \subseteq Nat
    BY UnitsFacts
  <2>2. ASSUME bad # {} PROVE FALSE
    <3>1. PICK k \in bad : \A j \in bad : k <= j
      <4> HIDE DEF bad
      <4> QED
        BY <2>1, <2>2, LeastNat
    <3>2. \A m \in 0..k - 1 : m \in Cus /\ m < k /\ m \in Int
      BY <2>1, UnitsFacts DEF Cus
    <3>3. \A m \in 0..k - 1 : g[m] = f[m]
      <4> SUFFICES ASSUME NEW m \in 0..k - 1, g[m] # f[m] PROVE FALSE
        OBVIOUS
      <4>1. m \in bad /\ m < k /\ m \in Int /\ k \in Int
        BY <2>1, <3>2
      <4> QED
        BY <3>1, <4>1
    <3>4. {g[m] : m \in 0..k - 1} = {f[m] : m \in 0..k - 1}
      BY <3>3
    <3>5. /\ k \in Cus
          /\ g[k] = Leading(perf, {g[m] : m \in 0..k - 1})
          /\ f[k] = Leading(perf, {f[m] : m \in 0..k - 1})
      BY <1>9, <1>11
    <3> QED
      BY <3>1, <3>4, <3>5
  <2>3. g = [k \in Cus |-> g[k]]
    BY <1>11
  <2> QED
    BY <1>7, <2>2, <2>3
<1>14. DOMAIN perf = Cus
  OBVIOUS
<1>15. f \in [Cus -> Cus]
  BY <1>5, <1>7
<1>16. \A c \in Cus : \E k \in Cus : f[k] = c
  BY <1>8
<1>17. ASSUME NEW j \in Cus, NEW k \in Cus, j < k
       PROVE  \/ perf[f[j]] > perf[f[k]]
              \/ perf[f[j]] = perf[f[k]] /\ f[j] < f[k]
  <2>1. f[j] \in Cus /\ f[k] \in Cus /\ rank(f[j]) < rank(f[k])
    BY <1>5, <1>17
  <2>2. <<f[j], f[k]>> \in R
    BY <1>6, <2>1
  <2> QED
    BY <1>2, <2>1, <2>2
<1>18. S!IsDescending(f, perf)
  BY <1>14, <1>15, <1>16, <1>17 DEF S!IsDescending
<1> QED
  BY <1>12, <1>13, <1>18

LEMMA DescendingPermutes ==
    ASSUME NEW key \in [Cus -> Int], NEW order, S!IsDescending(order, key)
    PROVE  Permutes(order)
<1>1. /\ order \in [Cus -> Cus]
      /\ \A c \in Cus : \E k \in Cus : order[k] = c
      /\ \A j, k \in Cus : j < k =>
            \/ key[order[j]] > key[order[k]]
            \/ key[order[j]] = key[order[k]] /\ order[j] < order[k]
  <2>1. DOMAIN key = Cus
    OBVIOUS
  <2> QED
    BY <2>1 DEF S!IsDescending
<1>2. \A j, k \in Cus : j < k => order[j] # order[k]
  <2> SUFFICES ASSUME NEW j \in Cus, NEW k \in Cus, j < k, order[j] = order[k]
               PROVE  FALSE
    OBVIOUS
  <2>1. order[k] \in Cus /\ key[order[k]] \in Int /\ order[k] \in Int
    BY <1>1, UnitsFacts
  <2> QED
    BY <1>1, <2>1
<1>3. \A j, k \in Cus : order[j] = order[k] => j = k
  <2> SUFFICES ASSUME NEW j \in Cus, NEW k \in Cus, order[j] = order[k]
               PROVE  j = k
    OBVIOUS
  <2>1. j \in Int /\ k \in Int
    BY UnitsFacts
  <2>2. ~(j < k) /\ ~(k < j)
    BY <1>2
  <2> QED
    BY <2>1, <2>2
<1> QED
  BY <1>1, <1>3 DEF Permutes

(* The unit with the k-th largest total gets the part with the k-th        *)
(* smallest estimate.                                                      *)
LEMMA FinalOrderFacts ==
    ASSUME NEW perf \in [Cus -> Int], NEW est \in [Cus -> Int]
    PROVE  /\ Permutes(FinalOrder(perf, est))
           /\ \A k \in Cus : FinalOrder(perf, est)[ByPerformance(perf)[k]]
                               = BubbleSort(est, SUB_PARTITION_NUM)[SUB_PARTITION_NUM - 1 - k]
<1> DEFINE n == SUB_PARTITION_NUM
           b == ByPerformance(perf)
           e == BubbleSort(est, n)
           o == FinalOrder(perf, est)
           place(c) == CHOOSE j \in Cus : b[j] = c
<1>1. n \in Nat \ {0} /\ Cus = 0..n - 1
  BY UnitsFacts DEF Cus
<1>2. Permutes(b)
  BY ByPerformanceSorts, DescendingPermutes
<1>3. Permutes(e)
  <2>1. est \in [0..n - 1 -> Int] /\ n \in Nat
    BY <1>1
  <2>2. S!IsDescending(e, est)
    BY <2>1, BubbleSorts
  <2> QED
    BY <2>2, DescendingPermutes
<1>4. o = [c \in Cus |-> e[n - place(c) - 1]]
  BY DEF FinalOrder
<1> HIDE DEF b, e, o
<1>5. \A c \in Cus : place(c) \in Cus /\ b[place(c)] = c
  BY <1>2 DEF Permutes
<1>6. \A k \in Cus : b[k] \in Cus /\ place(b[k]) = k
  <2> SUFFICES ASSUME NEW k \in Cus PROVE b[k] \in Cus /\ place(b[k]) = k
    OBVIOUS
  <2>1. b[k] \in Cus
    BY <1>2 DEF Permutes
  <2>2. place(b[k]) \in Cus /\ b[place(b[k])] = b[k]
    BY <1>5, <2>1
  <2> HIDE DEF place
  <2> QED
    BY <1>2, <2>1, <2>2 DEF Permutes
<1> HIDE DEF place, n
<1>7. \A k \in Cus : /\ n - k - 1 \in Cus /\ n - 1 - k = n - k - 1
                     /\ n - (n - k - 1) - 1 = k
  BY <1>1
<1>8. \A c \in Cus : o[c] = e[n - place(c) - 1]
  BY <1>4
<1>9. o \in [Cus -> Cus]
  <2>1. \A c \in Cus : e[n - place(c) - 1] \in Cus
    BY <1>3, <1>5, <1>7 DEF Permutes
  <2> QED
    BY <1>4, <2>1
<1>10. \A c, d \in Cus : o[c] = o[d] => c = d
  <2> SUFFICES ASSUME NEW c \in Cus, NEW d \in Cus, o[c] = o[d] PROVE c = d
    OBVIOUS
  <2> DEFINE x == n - place(c) - 1
             y == n - place(d) - 1
  <2>1. x \in Cus /\ y \in Cus /\ n - x - 1 = place(c) /\ n - y - 1 = place(d)
    BY <1>5, <1>7
  <2>2. e[x] = e[y]
    BY <1>8
  <2> HIDE DEF x, y
  <2>3. x = y
    BY <1>3, <2>1, <2>2 DEF Permutes
  <2>4. place(c) = place(d)
    BY <2>1, <2>3
  <2> QED
    BY <1>5, <2>4
<1>11. \A k \in Cus : o[b[k]] = e[n - 1 - k]
  <2> SUFFICES ASSUME NEW k \in Cus PROVE o[b[k]] = e[n - 1 - k]
    OBVIOUS
  <2>1. o[b[k]] = e[n - place(b[k]) - 1] /\ place(b[k]) = k
    BY <1>6, <1>8
  <2> QED
    BY <1>7, <2>1
<1>12. \A r \in Cus : \E c \in Cus : o[c] = r
  <2> SUFFICES ASSUME NEW r \in Cus PROVE \E c \in Cus : o[c] = r
    OBVIOUS
  <2>1. PICK x \in Cus : e[x] = r
    BY <1>3 DEF Permutes
  <2> DEFINE k == n - x - 1
  <2>2. k \in Cus /\ n - 1 - k = x
    <3>1. k \in Cus /\ n - 1 - k = n - k - 1 /\ n - k - 1 = x
      BY <1>7
    <3> QED
      BY <3>1
  <2> HIDE DEF k
  <2>3. o[b[k]] = r /\ b[k] \in Cus
    BY <1>6, <1>11, <2>1, <2>2
  <2> QED
    BY <2>3
<1>13. Permutes(o)
  BY <1>9, <1>10, <1>12 DEF Permutes
<1> QED
  BY <1>11, <1>13 DEF o, b, e, n

LEMMA EstimatesFacts ==
    /\ Estimates \subseteq [Cus -> Int]
    /\ \A v \in [Cus -> 0..MaxRange] : \A e \in 0..2 * Cardinality(Lines) + ALIGN_SIZE :
          [c \in Cus |-> Estimate(v[c], e)] \in Estimates
    /\ \A stray \in Stray : \A v \in 0..MaxRange :
          [c \in Cus |-> Estimate(stray - v, 0)] \in Estimates
<1>1. Estimates \subseteq [Cus -> Int]
  BY PartitionAssumption DEF S!SchedulerAssumption, S!Cus, Cus
<1>2. ASSUME NEW v \in [Cus -> 0..MaxRange],
             NEW e \in 0..2 * Cardinality(Lines) + ALIGN_SIZE
      PROVE  [c \in Cus |-> Estimate(v[c], e)] \in Estimates
  BY DEF Estimates
<1>3. ASSUME NEW stray \in Stray, NEW v \in 0..MaxRange
      PROVE  [c \in Cus |-> Estimate(stray - v, 0)] \in Estimates
  BY DEF Estimates
<1> QED
  BY <1>1, <1>2, <1>3

LEMMA EstimatedFacts ==
    ASSUME CsrOK, NEW i \in Nat, NEW stray \in Stray,
           NEW E, E = Edges(i, stray)
    PROVE  Estimated(E, stray) \in Estimates
<1> DEFINE chosen == Selected(i)
           n == Cardinality(chosen)
           total == PaddedSize(n)
           size == SubPartitionSize(total)
           L == 2 * Cardinality(Lines)
<1>1. stray \in Int /\ ALIGN_SIZE \in Nat \ {0} /\ MaxRange \in Nat
  BY PartitionAssumption
<1>2. /\ n \in Nat /\ n <= L /\ L \in Nat
      /\ total \in Nat /\ n < total /\ total <= n + ALIGN_SIZE
  <2>1. n \in Nat /\ n <= L /\ Cardinality(Lines) \in Nat
    BY SelectedFacts, FileFacts DEF CsrOK
  <2> QED
    BY <2>1, Padded
<1>3. /\ E \in [0..total - 1 -> EdgeSet]
      /\ \A j, k \in 0..total - 1 : j <= k => E[j].head <= E[k].head
      /\ n > 0 => \A k \in 0..total - 1 : E[k].head \in 0..MaxRange
      /\ n = 0 => \A k \in 0..total - 1 : E[k].head = stray
  BY <1>1, EdgesFacts
<1>4. Cardinality(DOMAIN E) = total
  <2>1. DOMAIN E = 0..total - 1
    BY <1>3
  <2>2. 0 \in Int /\ total - 1 \in Int /\ (IF 0 > total - 1 THEN 0 ELSE total - 1 - 0 + 1) = total
    BY <1>2
  <2> HIDE DEF total
  <2>3. Cardinality(0..total - 1) = total
    BY <2>2, FS_Interval
  <2> QED
    BY <2>1, <2>3
<1> HIDE DEF chosen, n, total, L
<1>5. /\ SUB_PARTITION_NUM \in Nat \ {0}
      /\ size \in Nat /\ size * SUB_PARTITION_NUM <= total
      /\ \A r \in Cus : r \in Nat /\ r + 1 <= SUB_PARTITION_NUM
  BY <1>2, PartsFit, UnitsFacts DEF Cus
<1> DEFINE head(k) == IF k < 0 THEN stray ELSE E[k].head
           lo(r) == size * r
           hi(r) == size * (r + 1)
<1>6. Estimated(E, stray) =
        [r \in Cus |-> Estimate(head(hi(r) - 1) - head(lo(r)),
                                IF hi(r) > total THEN total - lo(r) ELSE size)]
  BY <1>4 DEF Estimated
<1> HIDE DEF size
<1>7. \A r \in Cus : /\ lo(r) \in Nat /\ hi(r) \in Nat
                     /\ hi(r) = lo(r) + size /\ hi(r) <= total
  <2> SUFFICES ASSUME NEW r \in Cus
               PROVE  /\ lo(r) \in Nat /\ hi(r) \in Nat
                      /\ hi(r) = lo(r) + size /\ hi(r) <= total
    OBVIOUS
  <2>1. r \in Nat /\ r + 1 \in Nat /\ r + 1 <= SUB_PARTITION_NUM
    BY <1>5
  <2>2. lo(r) \in Nat /\ hi(r) \in Nat /\ hi(r) = lo(r) + size
        /\ size * SUB_PARTITION_NUM \in Nat
    BY <1>5, <2>1
  <2>3. hi(r) <= size * SUB_PARTITION_NUM
    <3>1. CASE r + 1 = SUB_PARTITION_NUM
      BY <2>2, <3>1
    <3>2. CASE r + 1 < SUB_PARTITION_NUM
      <4>1. hi(r) + size <= size * SUB_PARTITION_NUM
        BY <1>5, <2>1, <3>2, Steps
      <4> HIDE DEF lo, hi
      <4> QED
        BY <1>5, <2>2, <4>1
    <3> QED
      BY <1>5, <2>1, <3>1, <3>2
  <2> HIDE DEF lo, hi
  <2> QED
    BY <1>2, <1>5, <2>2, <2>3
<1>8. size * 0 = 0 /\ 0 \in Cus /\ size <= total
  <2>1. 0 \in Cus
    BY <1>5, UnitsFacts
  <2>2. hi(0) = size
    BY <1>5
  <2> QED
    BY <1>5, <1>7, <2>1, <2>2
<1> HIDE DEF lo, hi, head
<1>9. \A r \in Cus : Estimated(E, stray)[r] = Estimate(head(hi(r) - 1) - head(lo(r)), size)
  <2> SUFFICES ASSUME NEW r \in Cus
               PROVE  Estimated(E, stray)[r] = Estimate(head(hi(r) - 1) - head(lo(r)), size)
    OBVIOUS
  <2>1. ~(hi(r) > total)
    BY <1>2, <1>7
  <2> QED
    BY <1>6, <2>1
<1>10. Estimated(E, stray) =
         [r \in Cus |-> Estimate(head(hi(r) - 1) - head(lo(r)), size)]
  <2>1. Estimated(E, stray) = [r \in Cus |-> Estimated(E, stray)[r]]
    BY <1>6
  <2> QED
    BY <1>9, <2>1
<1>11. \A k \in 0..total - 1 : head(k) = E[k].head /\ head(k) \in Int
  <2> SUFFICES ASSUME NEW k \in 0..total - 1
               PROVE  head(k) = E[k].head /\ head(k) \in Int
    OBVIOUS
  <2>1. E[k] \in EdgeSet /\ ~(k < 0)
    BY <1>3
  <2> QED
    BY <2>1 DEF EdgeSet, head
<1>12. size \in 0..L + ALIGN_SIZE
  BY <1>1, <1>2, <1>5, <1>8
<1>13. CASE size # 0
  <2> DEFINE v == [r \in Cus |-> head(hi(r) - 1) - head(lo(r))]
  <2>1. \A r \in Cus : head(hi(r) - 1) - head(lo(r)) \in 0..MaxRange
    <3> SUFFICES ASSUME NEW r \in Cus
                 PROVE  head(hi(r) - 1) - head(lo(r)) \in 0..MaxRange
      OBVIOUS
    <3> DEFINE x == lo(r)
               y == hi(r) - 1
    <3>1. x \in 0..total - 1 /\ y \in 0..total - 1 /\ x <= y
      BY <1>2, <1>5, <1>7, <1>13
    <3> HIDE DEF x, y
    <3>2. /\ head(x) = E[x].head /\ head(y) = E[y].head
          /\ head(x) \in Int /\ head(y) \in Int /\ head(x) <= head(y)
      BY <1>3, <1>11, <3>1
    <3>3. CASE n = 0
      <4>1. head(x) = stray /\ head(y) = stray
        BY <1>3, <3>1, <3>2, <3>3
      <4>2. head(y) - head(x) \in 0..MaxRange
        BY <1>1, <4>1
      <4> QED
        BY <4>2 DEF x, y
    <3>4. CASE n > 0
      <4>1. head(x) \in 0..MaxRange /\ head(y) \in 0..MaxRange
        BY <1>3, <3>1, <3>2, <3>4
      <4>2. head(y) - head(x) \in 0..MaxRange
        BY <1>1, <3>2, <4>1
      <4> QED
        BY <4>2 DEF x, y
    <3> QED
      BY <1>2, <3>3, <3>4
  <2>2. v \in [Cus -> 0..MaxRange]
    BY <2>1
  <2>3. Estimated(E, stray) = [r \in Cus |-> Estimate(v[r], size)]
    BY <1>10
  <2> HIDE DEF v
  <2> QED
    BY <1>12, <2>2, <2>3, EstimatesFacts DEF L
<1>14. CASE size = 0
  <2>1. \A r \in Cus : lo(r) = 0 /\ hi(r) = 0
    BY <1>14, <1>5 DEF lo, hi
  <2>2. Estimated(E, stray) = [r \in Cus |-> Estimate(head(0 - 1) - head(0), 0)]
    BY <1>10, <1>14, <2>1
  <2>3. head(0 - 1) = stray
    BY DEF head
  <2>4. 0 \in 0..total - 1
    BY <1>2
  <2>5. CASE n > 0
    <3>1. head(0) \in 0..MaxRange
      BY <1>3, <1>11, <2>4, <2>5
    <3> QED
      BY <2>2, <2>3, <3>1, EstimatesFacts
  <2>6. CASE n = 0
    <3>1. head(0) = stray
      BY <1>3, <1>11, <2>4, <2>6
    <3>2. stray - stray = 0
      BY <1>1
    <3> DEFINE v == [r \in Cus |-> 0]
    <3>3. v \in [Cus -> 0..MaxRange]
      BY <1>1
    <3>4. Estimated(E, stray) = [r \in Cus |-> Estimate(v[r], 0)]
      BY <2>2, <2>3, <3>1, <3>2
    <3> HIDE DEF v
    <3>5. 0 \in 0..L + ALIGN_SIZE
      BY <1>1, <1>2
    <3> QED
      BY <3>3, <3>4, <3>5, EstimatesFacts DEF L
  <2> QED
    BY <1>2, <2>5, <2>6
<1> QED
  BY <1>13, <1>14

-----------------------------------------------------------------------------
(* The invariant: the arrays are those of the file, and every descriptor   *)
(* is what one iteration makes of them.                                    *)

EdgeLists == UNION {[0..m - 1 -> EdgeSet] : m \in 0..2 * Cardinality(Lines) + ALIGN_SIZE}
PartDescriptors == [totalEdge : Nat, est : Estimates, finalOrder : [Cus -> Cus],
           sub : [Cus -> EdgeLists]]

AllFilled == partitions \in Seq(PartDescriptors)
AllMade == \A j \in 1..Len(partitions) : MadeOf(partitions[j], j - 1)

IInv ==
    /\ phase \in {"file", "loaded", "done"}
    /\ FileOK
    /\ cuPerformance \in [Cus -> Int]
    /\ AllFilled
    /\ phase = "file" => partitions = <<>>
    /\ phase # "file" => CsrOK /\ Len(partitions) <= blkNum
    /\ AllMade
    /\ phase = "done" => /\ Len(partitions) = blkNum
                         /\ DOMAIN partIdTable = 0..blkNum - 1

LEMMA BlockFacts ==
    CsrOK => /\ blkNum \in Nat
             /\ compressedVertexNum <= blkNum * MAX_VERTICES_IN_ONE_PARTITION
<1> SUFFICES ASSUME CsrOK
             PROVE  /\ blkNum \in Nat
                    /\ compressedVertexNum <= blkNum * MAX_VERTICES_IN_ONE_PARTITION
  OBVIOUS
<1> DEFINE M == MAX_VERTICES_IN_ONE_PARTITION
           a == compressedVertexNum + M - 1
<1>1. M \in Nat \ {0} /\ compressedVertexNum \in Nat /\ a \in Nat
  BY MapFacts, PartitionAssumption
<1>2. a \div M \in Nat /\ a < M * (a \div M) + M
  BY <1>1, Division
<1>3. blkNum = a \div M
  BY DEF blkNum
<1> DEFINE q == a \div M
<1> HIDE DEF q
<1>4. q \in Nat /\ a < M * q + M /\ q * M = M * q /\ M * q \in Nat
  BY <1>1, <1>2 DEF q
<1>5. compressedVertexNum <= q * M
  BY <1>1, <1>4
<1> QED
  BY <1>3, <1>4, <1>5 DEF q

LEMMA BlockFactsNext == (CsrOK => blkNum \in Nat)'
<1>1. CsrOK => blkNum \in Nat
  BY BlockFacts
<1> QED
  BY <1>1, PTL

LEMMA FileFrame ==
    ASSUME UNCHANGED file
    PROVE  /\ FileOK <=> FileOK'
           /\ vertexNum' = vertexNum /\ Vertices' = Vertices
           /\ Arcs' = Arcs /\ edgeNum' = edgeNum
           /\ rpao' = rpao /\ ciao' = ciao /\ Degree' = Degree
<1>1. lines' = lines /\ ungraph' = ungraph
  BY DEF file
<1>2. FileOK <=> FileOK'
  BY <1>1 DEF FileOK
<1>3. vertexNum' = vertexNum
  BY <1>1 DEF vertexNum
<1>4. Vertices' = Vertices
  BY <1>3 DEF Vertices
<1>5. Arcs' = Arcs
  BY <1>1 DEF Arcs
<1>6. edgeNum' = edgeNum
  BY <1>1 DEF edgeNum
<1>7. rpao' = rpao
  BY <1>3, <1>5 DEF rpao
<1>8. ciao' = ciao
  BY <1>5 DEF ciao, Position
<1>9. Degree' = Degree
  BY <1>4, <1>7 DEF Degree
<1> QED
  BY <1>2, <1>3, <1>4, <1>5, <1>6, <1>7, <1>8, <1>9

LEMMA CsrFrame ==
    ASSUME UNCHANGED <<file, csr>>, CsrOK
    PROVE  /\ CsrOK'
           /\ blkNum' = blkNum /\ compressedVertexNum' = compressedVertexNum
           /\ Positions' = Positions
           /\ \A i, stray : Edges(i, stray)' = Edges(i, stray)
<1>1. /\ rpa' = rpa /\ cia' = cia /\ vertexMap' = vertexMap
      /\ vertexRemap' = vertexRemap /\ UNCHANGED file
  BY DEF csr
<1>2. /\ FileOK <=> FileOK'
      /\ vertexNum' = vertexNum /\ Vertices' = Vertices
      /\ Arcs' = Arcs /\ edgeNum' = edgeNum
      /\ rpao' = rpao /\ ciao' = ciao /\ Degree' = Degree
  BY <1>1, FileFrame
<1>3. CsrOK'
  BY <1>1, <1>2 DEF CsrOK
<1>4. compressedVertexNum' = compressedVertexNum
  BY <1>1 DEF compressedVertexNum
<1>5. blkNum' = blkNum
  BY <1>4 DEF blkNum
<1>6. Positions' = Positions
  BY <1>1, <1>2 DEF Positions
<1>7. \A i, stray : Edges(i, stray)' = Edges(i, stray)
  BY <1>1, <1>2, <1>6 DEF Edges, Selected, Tuple, Source
<1> QED
  BY <1>3, <1>4, <1>5, <1>6, <1>7

LEMMA MadeFrame ==
    ASSUME UNCHANGED <<file, csr>>, CsrOK, NEW j, NEW d, MadeOf(d, j - 1),
           partitions'[j] = d
    PROVE  MadeOf(partitions[j], j - 1)'
<1>1. \A stray : Edges(j - 1, stray)' = Edges(j - 1, stray)
  BY CsrFrame
<1>2. PICK stray \in Stray :
        /\ Listed(d, Edges(j - 1, stray))
        /\ d.est = Estimated(Edges(j - 1, stray), stray)
  BY DEF MadeOf
<1>3. Listed(partitions[j], Edges(j - 1, stray))'
  BY <1>1, <1>2 DEF Listed
<1>4. (partitions[j].est = Estimated(Edges(j - 1, stray), stray))'
  BY <1>1, <1>2 DEF Estimated
<1> QED
  BY <1>3, <1>4 DEF MadeOf

LEMMA HostInit == Init => IInv
<1> SUFFICES ASSUME Init PROVE IInv
  OBVIOUS
<1>1. FileOK
  BY DEF Init, FileOK
<1>2. cuPerformance \in [Cus -> Int]
  BY DEF Init
<1>3. partitions = <<>> /\ phase = "file" /\ Len(partitions) = 0
  BY DEF Init
<1>4. AllMade
  <2>1. 1..Len(partitions) = {}
    BY <1>3
  <2> QED
    BY <2>1 DEF AllMade
<1>5. AllFilled
  BY <1>3 DEF AllFilled
<1> QED
  BY <1>1, <1>2, <1>3, <1>4, <1>5 DEF IInv

LEMMA LoadInv ==
    ASSUME IInv, Load
    PROVE  IInv'
<1>1. /\ phase = "file" /\ phase' = "loaded" /\ UNCHANGED file
      /\ rpa' = rpao
      /\ cia' = [p \in DOMAIN ciao |-> IF p < edgeNum THEN ciao[p] ELSE 0]
      /\ vertexMap' = Mapped(Degree) /\ vertexRemap' = Remapped(Degree)
      /\ partitions' = partitions /\ cuPerformance' = cuPerformance
  BY DEF Load, Degree
<1>2. /\ FileOK <=> FileOK'
      /\ edgeNum' = edgeNum
      /\ rpao' = rpao /\ ciao' = ciao /\ Degree' = Degree
  BY <1>1, FileFrame
<1>3. FileOK' /\ CsrOK'
  BY <1>1, <1>2 DEF CsrOK, IInv
<1>4. blkNum' \in Nat
  BY <1>3, BlockFactsNext
<1>5. partitions = <<>> /\ Len(partitions) = 0
  BY <1>1 DEF IInv
<1>6. AllMade'
  <2>1. 1..Len(partitions') = {}
    BY <1>1, <1>5
  <2> QED
    BY <2>1 DEF AllMade
<1>7. Len(partitions') <= blkNum'
  BY <1>1, <1>4, <1>5
<1>8. AllFilled'
  BY <1>1 DEF IInv, AllFilled
<1>9. cuPerformance' \in [Cus -> Int]
  BY <1>1 DEF IInv
<1> QED
  BY <1>1, <1>3, <1>5, <1>6, <1>7, <1>8, <1>9 DEF IInv

(* What an iteration appends.                                              *)
NewDescriptor(i, stray) ==
    LET edges == Edges(i, stray)
        total == Cardinality(DOMAIN edges)
        est == Estimated(edges, stray)
        order == FinalOrder(cuPerformance, est)
    IN [totalEdge |-> total, est |-> est, finalOrder |-> order,
        sub |-> [c \in Cus |->
                   [k \in 0..ListEnd(total, order[c]) - 1 |->
                      edges[SubPartitionSize(total) * order[c] + k]]]]

LEMMA NewDescriptorFacts ==
    ASSUME CsrOK, cuPerformance \in [Cus -> Int], NEW i \in Nat, NEW stray \in Stray,
           NEW d, d = NewDescriptor(i, stray)
    PROVE  /\ d \in PartDescriptors /\ MadeOf(d, i)
           /\ d.finalOrder = FinalOrder(cuPerformance, d.est)
<1> DEFINE E == Edges(i, stray)
           est == Estimated(E, stray)
           order == FinalOrder(cuPerformance, est)
           n == Cardinality(Selected(i))
           total == PaddedSize(n)
<1>1. est \in Estimates /\ est \in [Cus -> Int]
  BY EstimatedFacts, EstimatesFacts
<1>2. Permutes(order)
  BY <1>1, FinalOrderFacts
<1>3. /\ n \in Nat /\ n <= 2 * Cardinality(Lines) /\ Cardinality(Lines) \in Nat
      /\ ALIGN_SIZE \in Nat /\ stray \in Int
  BY SelectedFacts, FileFacts, PartitionAssumption DEF CsrOK
<1>4. /\ total \in Nat /\ total <= n + ALIGN_SIZE
      /\ \E m \in Nat : total = ALIGN_SIZE * m
  BY <1>3, Padded
<1>5. E \in [0..total - 1 -> EdgeSet]
  BY <1>3, EdgesFacts
<1>6. Cardinality(DOMAIN E) = total
  <2>1. DOMAIN E = 0..total - 1
    BY <1>5
  <2>2. 0 \in Int /\ total - 1 \in Int /\ (IF 0 > total - 1 THEN 0 ELSE total - 1 - 0 + 1) = total
    BY <1>4
  <2> HIDE DEF total
  <2>3. Cardinality(0..total - 1) = total
    BY <2>2, FS_Interval
  <2> QED
    BY <2>1, <2>3
<1> DEFINE list(c) == [k \in 0..ListEnd(total, order[c]) - 1 |->
                         E[SubPartitionSize(total) * order[c] + k]]
<1> HIDE DEF E, est, order, n, total
<1>7. d = [totalEdge |-> total, est |-> est, finalOrder |-> order,
           sub |-> [c \in Cus |-> list(c)]]
  BY <1>6 DEF NewDescriptor, E, est, order
<1>8. ASSUME NEW c \in Cus
      PROVE  list(c) \in EdgeLists
  <2> DEFINE at == SubPartitionSize(total) * order[c]
             len == ListEnd(total, order[c])
  <2>1. order[c] \in Cus
    BY <1>2 DEF Permutes
  <2>2. at \in Nat /\ len \in Nat /\ at + len <= total
    BY <1>4, <2>1, PartBounds
  <2>3. list(c) = [k \in 0..len - 1 |-> E[at + k]]
    OBVIOUS
  <2> HIDE DEF at, len
  <2>4. \A k \in 0..len - 1 : at + k \in 0..total - 1
    BY <1>4, <2>2
  <2>5. list(c) \in [0..len - 1 -> EdgeSet]
    <3> HIDE DEF list
    <3>1. \A k \in 0..len - 1 : E[at + k] \in EdgeSet
      BY <1>5, <2>4
    <3> QED
      BY <2>3, <3>1
  <2>6. len \in 0..2 * Cardinality(Lines) + ALIGN_SIZE
    BY <1>3, <1>4, <2>2
  <2> HIDE DEF list
  <2> QED
    BY <2>5, <2>6 DEF EdgeLists
<1>9. Listed(d, E)
  BY <1>2, <1>6, <1>7 DEF Listed
<1> HIDE DEF list
<1>10. [c \in Cus |-> list(c)] \in [Cus -> EdgeLists]
  BY <1>8
<1>11. order \in [Cus -> Cus]
  BY <1>2 DEF Permutes
<1>12. d \in PartDescriptors
  BY <1>1, <1>4, <1>7, <1>10, <1>11 DEF PartDescriptors
<1>13. d.est = est /\ d.finalOrder = order
  BY <1>7
<1>14. MadeOf(d, i)
  BY <1>9, <1>13 DEF MadeOf, E, est
<1> QED
  BY <1>12, <1>13, <1>14 DEF order

LEMMA PartitionStep ==
    ASSUME PartitionEdges
    PROVE  /\ phase = "loaded" /\ Len(partitions) < blkNum
           /\ UNCHANGED <<phase, file, csr, partIdTable>>
           /\ \E stray \in Stray : \E d :
                 /\ d = NewDescriptor(Len(partitions), stray)
                 /\ partitions' = Append(partitions, d)
                 /\ cuPerformance' =
                      [c \in Cus |-> cuPerformance[c] + d.est[d.finalOrder[c]]]
<1>1. phase = "loaded" /\ Len(partitions) < blkNum
  BY DEF PartitionEdges
<1>2. UNCHANGED <<phase, file, csr, partIdTable>>
  BY DEF PartitionEdges
<1>3. PICK stray \in Stray :
        /\ partitions' = Append(partitions, NewDescriptor(Len(partitions), stray))
        /\ LET est == Estimated(Edges(Len(partitions), stray), stray)
               order == FinalOrder(cuPerformance, est)
           IN cuPerformance' = [c \in Cus |-> cuPerformance[c] + est[order[c]]]
  BY DEF PartitionEdges, NewDescriptor
<1> DEFINE d == NewDescriptor(Len(partitions), stray)
<1>4. /\ d.est = Estimated(Edges(Len(partitions), stray), stray)
      /\ d.finalOrder = FinalOrder(cuPerformance, d.est)
  BY DEF NewDescriptor
<1> HIDE DEF d
<1>5. cuPerformance' = [c \in Cus |-> cuPerformance[c] + d.est[d.finalOrder[c]]]
  BY <1>3, <1>4
<1>6. partitions' = Append(partitions, d)
  BY <1>3 DEF d
<1> QED
  BY <1>1, <1>2, <1>5, <1>6 DEF d

LEMMA PartitionEdgesInv ==
    ASSUME IInv, PartitionEdges
    PROVE  IInv'
<1>1. PICK stray \in Stray : \E d :
                 /\ d = NewDescriptor(Len(partitions), stray)
                 /\ partitions' = Append(partitions, d)
                 /\ cuPerformance' =
                      [c \in Cus |-> cuPerformance[c] + d.est[d.finalOrder[c]]]
  BY PartitionStep
<1>2. PICK d : /\ d = NewDescriptor(Len(partitions), stray)
               /\ partitions' = Append(partitions, d)
               /\ cuPerformance' =
                      [c \in Cus |-> cuPerformance[c] + d.est[d.finalOrder[c]]]
  BY <1>1
<1>3. /\ phase = "loaded" /\ Len(partitions) < blkNum
      /\ phase' = phase /\ UNCHANGED <<file, csr>>
  BY PartitionStep
<1>4. /\ CsrOK /\ FileOK /\ cuPerformance \in [Cus -> Int]
      /\ partitions \in Seq(PartDescriptors) /\ Len(partitions) \in Nat
      /\ \A j \in 1..Len(partitions) : MadeOf(partitions[j], j - 1)
  BY <1>3 DEF IInv, AllFilled, AllMade
<1>5. d \in PartDescriptors /\ MadeOf(d, Len(partitions))
  BY <1>2, <1>4, NewDescriptorFacts
<1>6. CsrOK' /\ FileOK' /\ blkNum' = blkNum /\ blkNum \in Nat
  <2>1. CsrOK' /\ blkNum' = blkNum
    BY <1>3, <1>4, CsrFrame
  <2> QED
    BY <1>4, <2>1, BlockFacts DEF CsrOK
<1>7. /\ partitions' \in Seq(PartDescriptors)
      /\ Len(partitions') = Len(partitions) + 1
      /\ \A j \in 1..Len(partitions) : partitions'[j] = partitions[j]
      /\ partitions'[Len(partitions) + 1] = d
  BY <1>2, <1>4, <1>5
<1>8. AllMade'
  <2>1. ASSUME NEW j \in 1..Len(partitions')
        PROVE  MadeOf(partitions[j], j - 1)'
    <3>1. CASE j \in 1..Len(partitions)
      <4>1. MadeOf(partitions[j], j - 1) /\ partitions'[j] = partitions[j]
        BY <1>4, <1>7, <3>1
      <4> QED
        BY <1>3, <1>4, <4>1, MadeFrame
    <3>2. CASE j = Len(partitions) + 1
      <4>1. Len(partitions) = j - 1
        BY <1>4, <3>2
      <4>2. MadeOf(d, j - 1) /\ partitions'[j] = d
        BY <1>5, <1>7, <3>2, <4>1
      <4> QED
        BY <1>3, <1>4, <4>2, MadeFrame
    <3> QED
      BY <1>4, <1>7, <3>1, <3>2
  <2> QED
    BY <2>1 DEF AllMade
<1>9. cuPerformance' \in [Cus -> Int]
  <2>1. /\ d.est \in [Cus -> Int] /\ d.finalOrder \in [Cus -> Cus]
    BY <1>5, EstimatesFacts DEF PartDescriptors
  <2>2. \A c \in Cus : cuPerformance[c] + d.est[d.finalOrder[c]] \in Int
    BY <1>4, <2>1
  <2> QED
    BY <1>2, <2>2
<1>10. Len(partitions') <= blkNum'
  BY <1>3, <1>4, <1>6, <1>7
<1>11. AllFilled'
  BY <1>7 DEF AllFilled
<1> QED
  BY <1>3, <1>6, <1>8, <1>9, <1>10, <1>11 DEF IInv

LEMMA ArrangePartitionsInv ==
    ASSUME IInv, ArrangePartitions
    PROVE  IInv' /\ S!IsDescending(partIdTable',
                       [i \in 0..blkNum - 1 |-> partitions[i + 1].totalEdge])
<1> DEFINE key == [i \in 0..blkNum - 1 |-> partitions[i + 1].totalEdge]
<1>1. /\ phase = "loaded" /\ phase' = "done" /\ Len(partitions) = blkNum
      /\ partIdTable' = BubbleSort(key, blkNum)
      /\ UNCHANGED <<file, csr>> /\ partitions' = partitions
      /\ cuPerformance' = cuPerformance
  BY DEF ArrangePartitions
<1>2. /\ CsrOK /\ FileOK /\ cuPerformance \in [Cus -> Int]
      /\ partitions \in Seq(PartDescriptors)
      /\ \A j \in 1..Len(partitions) : MadeOf(partitions[j], j - 1)
  BY <1>1 DEF IInv, AllFilled, AllMade
<1>3. CsrOK' /\ FileOK' /\ blkNum' = blkNum /\ blkNum \in Nat
  <2>1. CsrOK' /\ blkNum' = blkNum
    BY <1>1, <1>2, CsrFrame
  <2> QED
    BY <1>2, <2>1, BlockFacts DEF CsrOK
<1>4. key \in [0..blkNum - 1 -> Int]
  <2>1. \A i \in 0..blkNum - 1 : i + 1 \in 1..Len(partitions)
    BY <1>1, <1>3
  <2>2. ASSUME NEW i \in 0..blkNum - 1
        PROVE  partitions[i + 1].totalEdge \in Int
    <3>1. partitions[i + 1] \in PartDescriptors
      BY <1>2, <2>1
    <3>2. \A x \in PartDescriptors : x.totalEdge \in Int
      BY DEF PartDescriptors
    <3> QED
      BY <3>1, <3>2
  <2> QED
    BY <2>2
<1>5. DOMAIN key = 0..blkNum - 1
  OBVIOUS
<1> HIDE DEF key
<1>6. S!IsDescending(partIdTable', key)
  BY <1>1, <1>3, <1>4, BubbleSorts
<1>7. DOMAIN partIdTable' = 0..blkNum' - 1
  BY <1>3, <1>5, <1>6 DEF S!IsDescending
<1>8. AllMade'
  <2>1. ASSUME NEW j \in 1..Len(partitions')
        PROVE  MadeOf(partitions[j], j - 1)'
    <3>1. MadeOf(partitions[j], j - 1) /\ partitions'[j] = partitions[j]
      BY <1>1, <1>2
    <3> QED
      BY <1>1, <1>2, <3>1, MadeFrame
  <2> QED
    BY <2>1 DEF AllMade
<1>9. AllFilled'
  BY <1>1, <1>2 DEF AllFilled
<1>10. Len(partitions') = blkNum' /\ Len(partitions') <= blkNum'
  BY <1>1, <1>3
<1>11. IInv'
  BY <1>1, <1>2, <1>3, <1>7, <1>8, <1>9, <1>10 DEF IInv
<1> QED
  BY <1>6, <1>11 DEF key

LEMMA StutterInv ==
    ASSUME IInv, UNCHANGED vars
    PROVE  IInv'
<1>1. /\ phase' = phase /\ partitions' = partitions
      /\ cuPerformance' = cuPerformance /\ partIdTable' = partIdTable
      /\ UNCHANGED <<file, csr>>
  BY DEF vars
<1>2. FileOK'
  BY <1>1, FileFrame DEF IInv
<1>3. AllFilled'
  BY <1>1 DEF IInv, AllFilled
<1>4. CASE phase = "file"
  <2>1. 1..Len(partitions') = {}
    BY <1>1, <1>4 DEF IInv
  <2>2. AllMade'
    BY <2>1 DEF AllMade
  <2> QED
    BY <1>1, <1>2, <1>3, <1>4, <2>2 DEF IInv
<1>5. CASE phase # "file"
  <2>1. CsrOK /\ CsrOK' /\ blkNum' = blkNum
    BY <1>1, <1>5, CsrFrame DEF IInv
  <2>2. AllMade'
    <3>1. ASSUME NEW j \in 1..Len(partitions')
          PROVE  MadeOf(partitions[j], j - 1)'
      <4>1. MadeOf(partitions[j], j - 1) /\ partitions'[j] = partitions[j]
        BY <1>1 DEF IInv, AllMade
      <4> QED
        BY <1>1, <2>1, <4>1, MadeFrame
    <3> QED
      BY <3>1 DEF AllMade
  <2> QED
    BY <1>1, <1>2, <1>3, <1>5, <2>1, <2>2 DEF IInv
<1> QED
  BY <1>4, <1>5

LEMMA HostNext == IInv /\ [Next]_vars => IInv'
BY LoadInv, PartitionEdgesInv, ArrangePartitionsInv, StutterInv DEF Next

LEMMA HostInvariance == Spec => []IInv
BY HostInit, HostNext, PTL DEF Spec

-----------------------------------------------------------------------------
(* What the invariant says of the lists.                                   *)

LEMMA DescriptorMade ==
    ASSUME IInv, NEW i \in 0..Len(partitions) - 1
    PROVE  /\ CsrOK /\ i \in Nat
           /\ partitions[i + 1] \in PartDescriptors /\ MadeOf(partitions[i + 1], i)
<1>1. partitions \in Seq(PartDescriptors) /\ Len(partitions) \in Nat
  BY DEF IInv, AllFilled
<1>2. i + 1 \in 1..Len(partitions) /\ (i + 1) - 1 = i /\ i \in Nat
  BY <1>1
<1>3. MadeOf(partitions[i + 1], (i + 1) - 1)
  BY <1>2 DEF IInv, AllMade
<1>4. phase # "file"
  BY <1>2 DEF IInv
<1>5. partitions[i + 1] \in PartDescriptors
  BY <1>1, <1>2
<1> QED
  BY <1>2, <1>3, <1>4, <1>5 DEF IInv

LEMMA PlaceFacts ==
    /\ \A x \in Places :
          /\ x = <<x[1], x[2], x[3]>>
          /\ x[1] \in 0..Len(partitions) - 1 /\ x[2] \in Cus
          /\ x[3] \in DOMAIN partitions[x[1] + 1].sub[x[2]]
    /\ \A i \in 0..Len(partitions) - 1 : \A c \in Cus :
          \A k \in DOMAIN partitions[i + 1].sub[c] :
             <<i, c, k>> \in Places /\ At(<<i, c, k>>) = partitions[i + 1].sub[c][k]
<1>1. ASSUME NEW x \in Places
      PROVE  /\ x = <<x[1], x[2], x[3]>>
             /\ x[1] \in 0..Len(partitions) - 1 /\ x[2] \in Cus
             /\ x[3] \in DOMAIN partitions[x[1] + 1].sub[x[2]]
  <2>1. PICK d \in (0..Len(partitions) - 1) \X Cus :
          x \in {<<d[1], d[2], k>> : k \in DOMAIN partitions[d[1] + 1].sub[d[2]]}
    BY DEF Places
  <2>2. PICK k \in DOMAIN partitions[d[1] + 1].sub[d[2]] : x = <<d[1], d[2], k>>
    BY <2>1
  <2>3. d[1] \in 0..Len(partitions) - 1 /\ d[2] \in Cus
    BY <2>1
  <2> QED
    BY <2>2, <2>3
<1>2. ASSUME NEW i \in 0..Len(partitions) - 1, NEW c \in Cus,
             NEW k \in DOMAIN partitions[i + 1].sub[c]
      PROVE  <<i, c, k>> \in Places /\ At(<<i, c, k>>) = partitions[i + 1].sub[c][k]
  <2>1. <<i, c>> \in (0..Len(partitions) - 1) \X Cus
    OBVIOUS
  <2>2. <<i, c>>[1] = i /\ <<i, c>>[2] = c
    OBVIOUS
  <2>3. <<i, c, k>> \in Places
    BY <2>1, <2>2 DEF Places
  <2> QED
    BY <2>3 DEF At
<1> QED
  BY <1>1, <1>2

(* TypeOK of Partition: the arrays fit each other, every vertex has a      *)
(* number, and no more partitions are filled than there are.               *)
THEOREM HostTypes == Spec => []TypeOK
<1>1. IInv => TypeOK
  <2> SUFFICES ASSUME IInv PROVE TypeOK
    OBVIOUS
  <2>1. ASSUME phase # "file"
        PROVE  /\ DOMAIN cia = Positions
               /\ \A p \in Positions : cia[p] \in Vertices
               /\ \A u \in Vertices : vertexMap[u] \in 0..compressedVertexNum
               /\ Len(partitions) <= blkNum
    BY <2>1, CiaFacts, MapFacts DEF IInv
  <2> QED
    BY <2>1 DEF IInv, TypeOK
<1> QED
  BY <1>1, HostInvariance, PTL

(* HeadsSorted: the sources of every list ascend, so that the cache        *)
(* fetches the lines of a list in one sweep.                               *)
THEOREM SourcesAscend == Spec => []HeadsSorted
<1>1. IInv => HeadsSorted
  <2> SUFFICES ASSUME IInv, NEW x \in Places, x[3] > 0
               PROVE  At(<<x[1], x[2], x[3] - 1>>).head <= At(x).head
    BY DEF HeadsSorted
  <2>1. /\ x = <<x[1], x[2], x[3]>>
        /\ x[1] \in 0..Len(partitions) - 1 /\ x[2] \in Cus
        /\ x[3] \in DOMAIN partitions[x[1] + 1].sub[x[2]]
    BY PlaceFacts
  <2>2. /\ CsrOK /\ x[1] \in Nat /\ MadeOf(partitions[x[1] + 1], x[1])
    BY <2>1, DescriptorMade
  <2>3. \A c \in Cus : \A k \in DOMAIN partitions[x[1] + 1].sub[c] :
           k > 0 => partitions[x[1] + 1].sub[c][k - 1].head
                      <= partitions[x[1] + 1].sub[c][k].head
    BY <2>2, PartitionLists
  <2> QED
    BY <2>1, <2>3 DEF At
<1> QED
  BY <1>1, HostInvariance, PTL

(* Aligned: every list is a whole number of aligned blocks, as the burst   *)
(* readers need it, and every partition has an entry of padding.           *)
THEOREM ListsAligned == Spec => []Aligned
<1>1. IInv => Aligned
  <2> SUFFICES ASSUME IInv, NEW i \in 1..Len(partitions)
               PROVE  /\ \A c \in Cus :
                            Cardinality(DOMAIN partitions[i].sub[c]) % ALIGN_SIZE = 0
                      /\ \E c \in Cus : \E k \in DOMAIN partitions[i].sub[c] :
                            partitions[i].sub[c][k].tail = Padding
    BY DEF Aligned
  <2>1. Len(partitions) \in Nat
    BY DEF IInv, AllFilled
  <2>2. i - 1 \in 0..Len(partitions) - 1 /\ (i - 1) + 1 = i
    BY <2>1
  <2> DEFINE d == partitions[i]
             h == i - 1
  <2>3. CsrOK /\ h \in Nat /\ MadeOf(d, h)
    BY <2>2, DescriptorMade
  <2> HIDE DEF d, h
  <2>4. /\ \A c \in Cus : \E j \in Nat : DOMAIN d.sub[c] = 0..ALIGN_SIZE * j - 1
        /\ \E c \in Cus : \E k \in DOMAIN d.sub[c] : d.sub[c][k].tail = Padding
    BY <2>3, PartitionLists
  <2>5. ASSUME NEW c \in Cus
        PROVE  Cardinality(DOMAIN d.sub[c]) % ALIGN_SIZE = 0
    <3>1. PICK j \in Nat : DOMAIN d.sub[c] = 0..ALIGN_SIZE * j - 1
      BY <2>4
    <3> DEFINE n == ALIGN_SIZE * j
    <3>2. n \in Nat /\ ALIGN_SIZE \in Nat \ {0}
      BY PartitionAssumption
    <3>3. n % ALIGN_SIZE = 0
      BY <3>2, MultipleRemainder
    <3>4. DOMAIN d.sub[c] = 0..n - 1
      BY <3>1
    <3> HIDE DEF n
    <3>5. 0 \in Int /\ n - 1 \in Int /\ (IF 0 > n - 1 THEN 0 ELSE n - 1 - 0 + 1) = n
      BY <3>2
    <3>6. Cardinality(0..n - 1) = n
      BY <3>5, FS_Interval
    <3> QED
      BY <3>3, <3>4, <3>6
  <2> QED
    BY <2>4, <2>5 DEF d
<1> QED
  BY <1>1, HostInvariance, PTL

(* An edge whose number is below the bound of the partitions is in one     *)
(* partition.                                                              *)
LEMMA DivisionBelow ==
    ASSUME NEW v \in Nat, NEW q \in Nat, NEW b \in Nat \ {0}
    PROVE  v \div b \in Nat /\ (v < q * b <=> v \div b < q)
<1> DEFINE d == v \div b
<1>1. d \in Nat /\ b * d <= v /\ v < b * d + b
  BY Division
<1> HIDE DEF d
<1>2. q * b = b * q /\ b * q \in Nat /\ b * d \in Nat
  BY <1>1
<1>3. d < q => b * d + b <= b * q
  BY <1>1, Steps
<1>4. q < d => b * q + b <= b * d
  BY <1>1, Steps
<1>5. v < q * b <=> d < q
  <2>1. CASE d < q
    BY <1>1, <1>2, <1>3, <2>1
  <2>2. CASE d = q
    BY <1>1, <1>2, <2>2
  <2>3. CASE q < d
    BY <1>1, <1>2, <1>4, <2>3
  <2> QED
    BY <1>1, <2>1, <2>2, <2>3
<1> QED
  BY <1>1, <1>5 DEF d

LEMMA InPartition ==
    ASSUME CsrOK, NEW p \in Positions,
           NEW i, i = vertexMap[cia[p]] \div MAX_VERTICES_IN_ONE_PARTITION
    PROVE  /\ i \in Nat /\ p \in Selected(i)
           /\ Tuple(p).tail = vertexMap[cia[p]] /\ Tuple(p).tail # Padding
           /\ Tuple(p).head = vertexMap[Source(p)] /\ Tuple(p).prop = p
           /\ i < blkNum <=> vertexMap[cia[p]] < blkNum * MAX_VERTICES_IN_ONE_PARTITION
<1> DEFINE v == vertexMap[cia[p]]
<1>1. v \in Nat
  BY TupleFacts, MapFacts
<1>2. blkNum \in Nat /\ MAX_VERTICES_IN_ONE_PARTITION \in Nat \ {0}
  BY BlockFacts, PartitionAssumption
<1>3. i \in Nat /\ (v < blkNum * MAX_VERTICES_IN_ONE_PARTITION <=> i < blkNum)
  <2> HIDE DEF v
  <2>1. i = v \div MAX_VERTICES_IN_ONE_PARTITION
    BY DEF v
  <2> QED
    BY <1>1, <1>2, <2>1, DivisionBelow
<1>4. p \in Selected(i)
  BY <1>3, SelectedFacts
<1>5. /\ Tuple(p).tail = v /\ Tuple(p).head = vertexMap[Source(p)]
      /\ Tuple(p).prop = p
  BY DEF Tuple
<1>6. Tuple(p).tail # Padding
  <2>1. \A n \in Nat : n # -1
    OBVIOUS
  <2> QED
    BY <1>1, <1>5, <2>1 DEF Padding
<1> QED
  BY <1>3, <1>4, <1>5, <1>6

(* The entry of an edge.                                                   *)
LEMMA EdgePlaced ==
    ASSUME IInv, phase = "done", NEW p \in Positions,
           vertexMap[cia[p]] < blkNum * MAX_VERTICES_IN_ONE_PARTITION
    PROVE  \E x \in Real : At(x) = Tuple(p)
<1>1. CsrOK /\ Len(partitions) = blkNum
  BY DEF IInv
<1> DEFINE i == vertexMap[cia[p]] \div MAX_VERTICES_IN_ONE_PARTITION
<1>2. /\ i \in Nat /\ p \in Selected(i) /\ i < blkNum /\ blkNum \in Nat
      /\ Tuple(p).tail # Padding
  BY <1>1, InPartition, BlockFacts
<1> HIDE DEF i
<1>3. i \in 0..Len(partitions) - 1
  BY <1>1, <1>2
<1>4. MadeOf(partitions[i + 1], i)
  BY <1>3, DescriptorMade
<1>5. \A q \in Selected(i) : \E c \in Cus : \E k \in DOMAIN partitions[i + 1].sub[c] :
         partitions[i + 1].sub[c][k] = Tuple(q)
  BY <1>1, <1>2, <1>4, PartitionLists
<1>6. PICK c \in Cus : \E k \in DOMAIN partitions[i + 1].sub[c] :
         partitions[i + 1].sub[c][k] = Tuple(p)
  BY <1>2, <1>5
<1>7. PICK k \in DOMAIN partitions[i + 1].sub[c] :
         partitions[i + 1].sub[c][k] = Tuple(p)
  BY <1>6
<1>8. <<i, c, k>> \in Places /\ At(<<i, c, k>>) = Tuple(p)
  BY <1>3, <1>7, PlaceFacts
<1>9. <<i, c, k>> \in Real
  BY <1>2, <1>8 DEF Real
<1> QED
  BY <1>8, <1>9

(* An entry that is not padding is an edge of its partition.               *)
LEMMA EntryFacts ==
    ASSUME IInv, NEW x \in Real
    PROVE  /\ CsrOK
           /\ x = <<x[1], x[2], x[3]>>
           /\ x[1] \in 0..Len(partitions) - 1 /\ x[1] \in Nat /\ x[2] \in Cus
           /\ x[3] \in DOMAIN partitions[x[1] + 1].sub[x[2]]
           /\ At(x) = partitions[x[1] + 1].sub[x[2]][x[3]]
           /\ MadeOf(partitions[x[1] + 1], x[1])
           /\ \E p \in Selected(x[1]) : At(x) = Tuple(p)
<1>1. x \in Places /\ At(x).tail # Padding
  BY DEF Real
<1>2. /\ x = <<x[1], x[2], x[3]>>
      /\ x[1] \in 0..Len(partitions) - 1 /\ x[2] \in Cus
      /\ x[3] \in DOMAIN partitions[x[1] + 1].sub[x[2]]
  BY <1>1, PlaceFacts
<1>3. CsrOK /\ x[1] \in Nat /\ MadeOf(partitions[x[1] + 1], x[1])
  BY <1>2, DescriptorMade
<1>4. \A c \in Cus : \A k \in DOMAIN partitions[x[1] + 1].sub[c] :
         partitions[x[1] + 1].sub[c][k].tail # Padding =>
           \E p \in Selected(x[1]) : partitions[x[1] + 1].sub[c][k] = Tuple(p)
  BY <1>3, PartitionLists
<1>5. At(x) = partitions[x[1] + 1].sub[x[2]][x[3]]
  BY DEF At
<1>6. \E p \in Selected(x[1]) : At(x) = Tuple(p)
  BY <1>1, <1>2, <1>4, <1>5
<1> QED
  BY <1>2, <1>3, <1>5, <1>6

LEMMA EntryUnique ==
    ASSUME IInv, NEW p \in Positions, NEW x \in Real, NEW y \in Real,
           At(x) = Tuple(p), At(y) = Tuple(p)
    PROVE  x = y
<1>1. CsrOK /\ \A z \in Real : \E q \in Selected(z[1]) : At(z) = Tuple(q)
  BY EntryFacts
<1>2. ASSUME NEW z \in Real, At(z) = Tuple(p)
      PROVE  p \in Selected(z[1])
             /\ vertexMap[cia[p]] \div MAX_VERTICES_IN_ONE_PARTITION = z[1]
  <2>1. PICK q \in Selected(z[1]) : At(z) = Tuple(q)
    BY <1>1
  <2>2. Tuple(q).prop = q /\ Tuple(p).prop = p
    BY DEF Tuple
  <2>3. p \in Selected(z[1])
    BY <1>2, <2>1, <2>2
  <2>4. z[1] \in Nat
    BY EntryFacts
  <2> QED
    BY <1>1, <2>3, <2>4, SelectedFacts
<1>3. x[1] = y[1] /\ p \in Selected(x[1])
  BY <1>2
<1>4. /\ x = <<x[1], x[2], x[3]>> /\ x[1] \in Nat /\ x[2] \in Cus
      /\ x[3] \in DOMAIN partitions[x[1] + 1].sub[x[2]]
      /\ partitions[x[1] + 1].sub[x[2]][x[3]] = Tuple(p)
      /\ MadeOf(partitions[x[1] + 1], x[1])
  BY EntryFacts
<1>5. /\ y = <<y[1], y[2], y[3]>> /\ y[2] \in Cus
      /\ y[3] \in DOMAIN partitions[x[1] + 1].sub[y[2]]
      /\ partitions[x[1] + 1].sub[y[2]][y[3]] = Tuple(p)
  BY <1>3, EntryFacts
<1>6. \A q \in Selected(x[1]) : \A c, e \in Cus :
         \A k \in DOMAIN partitions[x[1] + 1].sub[c],
            l \in DOMAIN partitions[x[1] + 1].sub[e] :
            partitions[x[1] + 1].sub[c][k] = Tuple(q)
              /\ partitions[x[1] + 1].sub[e][l] = Tuple(q)
              => c = e /\ k = l
  BY <1>1, <1>4, PartitionLists
<1>7. x[2] = y[2] /\ x[3] = y[3]
  BY <1>3, <1>4, <1>5, <1>6
<1> QED
  BY <1>3, <1>4, <1>5, <1>7

(* EdgesOnce: partitionFunction puts every edge whose destination has a    *)
(* partition into exactly one list, a list of that partition, with its     *)
(* source, destination and property, and nothing else but padding into     *)
(* any list.                                                               *)
THEOREM EdgesInOneList == Spec => []EdgesOnce
<1>1. IInv => EdgesOnce
  <2> SUFFICES ASSUME IInv, phase = "done" PROVE EdgesOnce
    BY DEF EdgesOnce
  <2>1. CsrOK
    BY DEF IInv
  <2>2. ASSUME NEW p \in Positions
        PROVE  Cardinality({x \in Real : At(x) = Tuple(p)})
                 = IF vertexMap[cia[p]] < blkNum * MAX_VERTICES_IN_ONE_PARTITION
                   THEN 1 ELSE 0
    <3> DEFINE X == {x \in Real : At(x) = Tuple(p)}
    <3>1. CASE vertexMap[cia[p]] < blkNum * MAX_VERTICES_IN_ONE_PARTITION
      <4>1. PICK x \in Real : At(x) = Tuple(p)
        BY <3>1, EdgePlaced
      <4>2. \A y \in X : y = x
        BY <4>1, EntryUnique
      <4>3. X = {x}
        BY <4>1, <4>2
      <4>4. Cardinality(X) = 1
        BY <4>3, FS_Singleton
      <4> QED
        BY <3>1, <4>4
    <3>2. CASE ~(vertexMap[cia[p]] < blkNum * MAX_VERTICES_IN_ONE_PARTITION)
      <4>1. ASSUME NEW y \in X PROVE FALSE
        <5>1. PICK q \in Selected(y[1]) : At(y) = Tuple(q)
          BY EntryFacts
        <5>2. Tuple(q).prop = q /\ Tuple(p).prop = p
          BY DEF Tuple
        <5>3. p \in Selected(y[1]) /\ y[1] \in Nat
              /\ y[1] \in 0..Len(partitions) - 1
          BY <5>1, <5>2, EntryFacts
        <5>4. vertexMap[cia[p]] \div MAX_VERTICES_IN_ONE_PARTITION = y[1]
          BY <2>1, <5>3, SelectedFacts
        <5>5. ~(y[1] < blkNum)
          BY <2>1, <3>2, <5>4, InPartition
        <5>6. Len(partitions) = blkNum /\ blkNum \in Nat
          BY <2>1, BlockFacts DEF IInv
        <5> QED
          BY <5>3, <5>5, <5>6
      <4>2. X = {}
        BY <4>1
      <4>3. Cardinality(X) = 0
        BY <4>2, FS_EmptySet
      <4> QED
        BY <3>2, <4>3
    <3> QED
      BY <3>1, <3>2
  <2>3. ASSUME NEW x \in Real
        PROVE  /\ At(x) = Tuple(At(x).prop)
               /\ At(x).tail \div MAX_VERTICES_IN_ONE_PARTITION = x[1]
    <3>1. PICK q \in Selected(x[1]) : At(x) = Tuple(q)
      BY EntryFacts
    <3>2. Tuple(q).prop = q /\ Tuple(q).tail = vertexMap[cia[q]]
      BY DEF Tuple
    <3>3. x[1] \in Nat
      BY EntryFacts
    <3>4. vertexMap[cia[q]] \div MAX_VERTICES_IN_ONE_PARTITION = x[1]
      BY <2>1, <3>3, SelectedFacts
    <3> QED
      BY <3>1, <3>2, <3>4
  <2> QED
    BY <2>2, <2>3 DEF EdgesOnce
<1> QED
  BY <1>1, HostInvariance, PTL

(* Delivered: from a directed file every edge u -> v whose destination has *)
(* out-edges is streamed as an edge from the number of u to that of v.     *)
THEOREM EdgesDelivered ==
    ASSUME Modes = {FALSE}
    PROVE  Spec => []Delivered
<1>1. IInv => Delivered
  <2> SUFFICES ASSUME IInv, phase = "done", NEW a \in Arcs,
                      NEW s \in DOMAIN vertexRemap, a[2] = vertexRemap[s]
               PROVE  \E x \in Real : /\ vertexRemap[At(x).head] = a[1]
                                      /\ At(x).tail \in DOMAIN vertexRemap
                                      /\ vertexRemap[At(x).tail] = a[2]
    BY DEF Delivered
  <2>1. CsrOK /\ FileOK /\ ~ungraph
    BY DEF IInv, FileOK
  <2> DEFINE p == Position(a)
             v == vertexMap[a[2]]
  <2>2. p \in Positions
    BY <2>1, PositionFacts, CiaFacts
  <2>3. cia[p] = a[2] /\ Source(p) = a[1]
    BY <2>1, CiaFacts, SourceFacts
  <2>4. a[1] \in Sources /\ a[2] \in Sources
    <3>1. a[1] \in Vertices
      BY <2>1, ArcFacts
    <3> QED
      BY <2>1, <3>1, MapFacts DEF Sources
  <2>5. /\ v \in DOMAIN vertexRemap /\ v \in 0..compressedVertexNum - 1
        /\ vertexRemap[v] = a[2] /\ vertexRemap[vertexMap[a[1]]] = a[1]
        /\ compressedVertexNum \in Nat
    BY <2>1, <2>4, MapFacts
  <2>6. v < blkNum * MAX_VERTICES_IN_ONE_PARTITION
    <3>1. /\ compressedVertexNum <= blkNum * MAX_VERTICES_IN_ONE_PARTITION
          /\ blkNum * MAX_VERTICES_IN_ONE_PARTITION \in Nat
      BY <2>1, BlockFacts, PartitionAssumption
    <3> HIDE DEF v
    <3> QED
      BY <2>5, <3>1
  <2>7. PICK x \in Real : At(x) = Tuple(p)
    BY <2>2, <2>3, <2>6, EdgePlaced
  <2>8. At(x).tail = v /\ At(x).head = vertexMap[a[1]]
    BY <2>3, <2>7 DEF Tuple
  <2> QED
    BY <2>5, <2>8
<1> QED
  BY <1>1, HostInvariance, PTL

-----------------------------------------------------------------------------
(* The scheduler: what an iteration does to the totals and the orders is a *)
(* step of Scheduler.                                                      *)

LEMMA DifferencesFacts ==
    ASSUME NEW est \in [Cus -> Int]
    PROVE  Differences(est) \in SUBSET Int /\ IsFiniteSet(Differences(est))
<1> DEFINE D == Differences(est)
           f == [t \in Cus \X Cus |-> est[t[1]] - est[t[2]]]
<1>1. IsFiniteSet(Cus)
  BY UnitsFacts
<1>2. IsFiniteSet(Cus \X Cus)
  BY <1>1, FS_Product
<1>3. D \in SUBSET Int
  BY DEF Differences
<1>4. \A t \in Cus \X Cus : t[1] \in Cus /\ t[2] \in Cus
  OBVIOUS
<1>5. f \in Surjection(Cus \X Cus, D)
  <2>1. \A t \in Cus \X Cus : f[t] \in D
    BY <1>4 DEF Differences
  <2>2. ASSUME NEW x \in D
        PROVE  \E t \in Cus \X Cus : f[t] = x
    <3>1. PICK a \in Cus : \E b \in Cus : x = est[a] - est[b]
      BY DEF Differences
    <3>2. PICK b \in Cus : x = est[a] - est[b]
      BY <3>1
    <3>3. <<a, b>> \in Cus \X Cus /\ f[<<a, b>>] = x
      BY <3>2
    <3> QED
      BY <3>3
  <2>3. f \in [Cus \X Cus -> D]
    BY <2>1
  <2> QED
    BY <2>2, <2>3 DEF Surjection
<1> HIDE DEF D, f
<1>6. IsFiniteSet(D)
  BY <1>2, <1>5, FS_Surjection
<1> QED
  BY <1>3, <1>6 DEF D

LEMMA SpreadsEmpty == Spreads(<<>>) = {0} /\ GreatestOf({0}) = 0
<1>1. 1..Len(<<>>) = {}
  OBVIOUS
<1>2. Spreads(<<>>) = {0}
  BY <1>1 DEF Spreads
<1>3. 0 \in {0} /\ \A y \in {0} : 0 >= y
  OBVIOUS
<1>4. GreatestOf({0}) \in {0}
  BY <1>3 DEF GreatestOf
<1> QED
  BY <1>2, <1>4

LEMMA SpreadsAppend ==
    ASSUME NEW seq \in Seq(PartDescriptors), NEW d \in PartDescriptors,
           NEW more, more = Append(seq, d)
    PROVE  Spreads(more) = Spreads(seq) \union Differences(d.est)
<1>1. /\ Len(more) = Len(seq) + 1 /\ Len(seq) \in Nat
      /\ \A i \in 1..Len(seq) : more[i] = seq[i]
      /\ more[Len(seq) + 1] = d
  OBVIOUS
<1>2. \A i : i \in 1..Len(more) <=> i \in 1..Len(seq) \/ i = Len(seq) + 1
  BY <1>1
<1>3. \A x : x \in Spreads(more) <=> x = 0 \/ \E i \in 1..Len(more) : x \in Differences(more[i].est)
  BY DEF Spreads
<1>4. \A x : x \in Spreads(seq) <=> x = 0 \/ \E i \in 1..Len(seq) : x \in Differences(seq[i].est)
  BY DEF Spreads
<1>5. \A x : x \in Spreads(more) <=> x \in Spreads(seq) \/ x \in Differences(d.est)
  BY <1>1, <1>2, <1>3, <1>4
<1> QED
  BY <1>5

(* A set of integers that grows.                                           *)
LEMMA GreatestGrows ==
    ASSUME NEW A \in SUBSET Int, IsFiniteSet(A), A # {},
           NEW B \in SUBSET Int, IsFiniteSet(B),
           NEW C, C = A \union B
    PROVE  /\ C \in SUBSET Int /\ IsFiniteSet(C)
           /\ GreatestOf(A) \in Int /\ GreatestOf(C) \in Int
           /\ GreatestOf(A) <= GreatestOf(C)
           /\ \A y \in B : y <= GreatestOf(C)
           /\ GreatestOf(C) = GreatestOf(A) \/ GreatestOf(C) \in B
<1>1. C \in SUBSET Int /\ IsFiniteSet(C) /\ C # {}
  BY FS_Union
<1> DEFINE a == GreatestOf(A)
           c == GreatestOf(C)
<1>2. a \in A /\ \A y \in A : a >= y
  BY Extremes
<1>3. c \in C /\ \A y \in C : c >= y
  BY <1>1, Extremes
<1> HIDE DEF a, c
<1>4. a \in Int /\ c \in Int /\ a <= c /\ \A y \in B : y <= c
  BY <1>1, <1>2, <1>3
<1>5. c = a \/ c \in B
  BY <1>2, <1>3, <1>4
<1> QED
  BY <1>1, <1>4, <1>5 DEF a, c

(* The differences are finite in number, so that there is a largest one.   *)
SpreadOK == IsFiniteSet(Spreads(partitions)) /\ Spreads(partitions) \in SUBSET Int

(* What an iteration changes.                                              *)
Appended(d) ==
    /\ partitions' = Append(partitions, d)
    /\ d.finalOrder = FinalOrder(cuPerformance, d.est)
    /\ cuPerformance' = [c \in Cus |-> cuPerformance[c] + d.est[d.finalOrder[c]]]

LEMMA PartitionAppends ==
    ASSUME IInv, PartitionEdges
    PROVE  \E d \in PartDescriptors : Appended(d)
<1>1. PICK stray \in Stray : \E d :
                 /\ d = NewDescriptor(Len(partitions), stray)
                 /\ partitions' = Append(partitions, d)
                 /\ cuPerformance' =
                      [c \in Cus |-> cuPerformance[c] + d.est[d.finalOrder[c]]]
  BY PartitionStep
<1>2. PICK d : /\ d = NewDescriptor(Len(partitions), stray)
               /\ partitions' = Append(partitions, d)
               /\ cuPerformance' =
                      [c \in Cus |-> cuPerformance[c] + d.est[d.finalOrder[c]]]
  BY <1>1
<1>3. phase = "loaded"
  BY PartitionStep
<1>4. CsrOK /\ cuPerformance \in [Cus -> Int] /\ Len(partitions) \in Nat
  BY <1>3 DEF IInv, AllFilled
<1>5. d \in PartDescriptors /\ d.finalOrder = FinalOrder(cuPerformance, d.est)
  BY <1>2, <1>4, NewDescriptorFacts
<1> QED
  BY <1>2, <1>5 DEF Appended

LEMMA SpreadStep ==
    ASSUME IInv, SpreadOK, NEW d \in PartDescriptors, Appended(d)
    PROVE  /\ SpreadOK'
           /\ GreatestOf(Spreads(partitions)) \in Int
           /\ GreatestOf(Spreads(partitions')) \in Int
           /\ GreatestOf(Spreads(partitions)) <= GreatestOf(Spreads(partitions'))
           /\ \A a, b \in Cus :
                 d.est[a] - d.est[b] <= GreatestOf(Spreads(partitions'))
           /\ \/ GreatestOf(Spreads(partitions')) = GreatestOf(Spreads(partitions))
              \/ \E a, b \in Cus :
                    GreatestOf(Spreads(partitions')) = d.est[a] - d.est[b]
<1> DEFINE A == Spreads(partitions)
           B == Differences(d.est)
           C == Spreads(partitions')
<1>1. A \in SUBSET Int /\ IsFiniteSet(A) /\ A # {}
  BY DEF SpreadOK, Spreads
<1>2. d.est \in [Cus -> Int]
  BY EstimatesFacts DEF PartDescriptors
<1>3. B \in SUBSET Int /\ IsFiniteSet(B)
  BY <1>2, DifferencesFacts
<1>4. C = A \union B
  BY SpreadsAppend DEF IInv, AllFilled, Appended
<1> HIDE DEF A, B, C
<1>5. /\ C \in SUBSET Int /\ IsFiniteSet(C)
      /\ GreatestOf(A) \in Int /\ GreatestOf(C) \in Int
      /\ GreatestOf(A) <= GreatestOf(C)
      /\ \A y \in B : y <= GreatestOf(C)
      /\ GreatestOf(C) = GreatestOf(A) \/ GreatestOf(C) \in B
  BY <1>1, <1>3, <1>4, GreatestGrows
<1>6. \A a, b \in Cus : d.est[a] - d.est[b] <= GreatestOf(C)
  BY <1>5 DEF B, Differences
<1>7. \/ GreatestOf(C) = GreatestOf(A)
      \/ \E a, b \in Cus : GreatestOf(C) = d.est[a] - d.est[b]
  BY <1>5 DEF B, Differences
<1>8. SpreadOK'
  BY <1>5 DEF SpreadOK, C
<1> QED
  BY <1>5, <1>6, <1>7, <1>8 DEF A, C

SP == INSTANCE Scheduler_proofs WITH
        finalOrder <- IF partitions = <<>> THEN [c \in Cus |-> c]
                      ELSE partitions[Len(partitions)].finalOrder,
        spread <- GreatestOf(Spreads(partitions))

(* Bubble sort and loop over maxima make one step of Scheduler.            *)
LEMMA Arranges ==
    ASSUME IInv, SpreadOK, NEW d \in PartDescriptors, Appended(d)
    PROVE  SP!Arrange(d.est) /\ S!Arrange(d.est) /\ d.est \in Estimates
           /\ d = partitions'[Len(partitions')]
<1> DEFINE byPerf == ByPerformance(cuPerformance)
           byEst == BubbleSort(d.est, SUB_PARTITION_NUM)
           s == GreatestOf(Spreads(partitions))
           t == GreatestOf(Spreads(partitions'))
<1>1. /\ cuPerformance \in [Cus -> Int] /\ d.est \in Estimates /\ d.est \in [Cus -> Int]
      /\ SUB_PARTITION_NUM \in Nat
  BY EstimatesFacts, PartitionAssumption DEF PartDescriptors, IInv
<1>2. /\ partitions' # <<>> /\ partitions'[Len(partitions')] = d
  BY DEF IInv, AllFilled, Appended
<1>3. S!IsDescending(byPerf, cuPerformance) /\ byPerf \in [Cus -> Cus]
  BY <1>1, ByPerformanceSorts, DescendingPermutes DEF Permutes
<1>4. S!IsDescending(byEst, d.est) /\ byEst \in [Cus -> Cus]
  <2>1. d.est \in [0..SUB_PARTITION_NUM - 1 -> Int]
    BY <1>1 DEF Cus
  <2>2. S!IsDescending(byEst, d.est)
    BY <1>1, <2>1, BubbleSorts
  <2> QED
    BY <1>1, <2>2, DescendingPermutes DEF Permutes
<1>5. /\ d.finalOrder \in [Cus -> Cus]
      /\ \A k \in Cus : d.finalOrder[byPerf[k]] = byEst[SUB_PARTITION_NUM - 1 - k]
      /\ cuPerformance' = [c \in Cus |-> cuPerformance[c] + d.est[d.finalOrder[c]]]
  <2>1. /\ d.finalOrder = FinalOrder(cuPerformance, d.est)
        /\ cuPerformance' = [c \in Cus |-> cuPerformance[c] + d.est[d.finalOrder[c]]]
    BY DEF Appended
  <2>2. /\ Permutes(FinalOrder(cuPerformance, d.est))
        /\ \A k \in Cus : FinalOrder(cuPerformance, d.est)[byPerf[k]]
                              = byEst[SUB_PARTITION_NUM - 1 - k]
    BY <1>1, FinalOrderFacts
  <2> HIDE DEF byPerf, byEst
  <2> QED
    BY <2>1, <2>2 DEF Permutes
<1>6. /\ s \in Int /\ t \in Int /\ s <= t
      /\ \A a, b \in Cus : d.est[a] - d.est[b] <= t
      /\ t = s \/ \E a, b \in Cus : t = d.est[a] - d.est[b]
  BY SpreadStep
<1> HIDE DEF byPerf, byEst, s, t
<1>7. (GreatestOf(Spreads(partitions)))' = t
  BY DEF t
<1>8. (IF partitions = <<>> THEN [c \in Cus |-> c]
       ELSE partitions[Len(partitions)].finalOrder)' = d.finalOrder
  BY <1>2
<1>9. SP!Cus = Cus /\ S!Cus = Cus
  BY DEF SP!Cus, S!Cus, Cus
<1>10. SP!IsSpread(t, d.est)
  BY <1>6, <1>9 DEF s, SP!IsSpread
<1>11. SP!IsDescending(byPerf, cuPerformance) /\ SP!IsDescending(byEst, d.est)
  BY <1>3, <1>4 DEF SP!IsDescending, S!IsDescending
<1>12. SP!Arrange(d.est)
  BY <1>3, <1>4, <1>5, <1>7, <1>8, <1>9, <1>10, <1>11 DEF SP!Arrange
<1>13. S!IsSpread(t, d.est)
  BY <1>6, <1>9 DEF s, S!IsSpread
<1>14. S!Arrange(d.est)
  BY <1>3, <1>4, <1>5, <1>7, <1>8, <1>9, <1>13 DEF S!Arrange
<1> QED
  BY <1>1, <1>2, <1>12, <1>14

(* Only an iteration changes the descriptors and the totals.               *)
LEMMA OnlyIterations ==
    ASSUME IInv, [Next]_vars
    PROVE  \/ partitions' = partitions /\ cuPerformance' = cuPerformance
           \/ PartitionEdges /\ \E d \in PartDescriptors : Appended(d)
<1>1. CASE Load
  BY <1>1 DEF Load
<1>2. CASE PartitionEdges
  BY <1>2, PartitionAppends
<1>3. CASE ArrangePartitions
  BY <1>3 DEF ArrangePartitions
<1>4. CASE UNCHANGED vars
  BY <1>4 DEF vars
<1> QED
  BY <1>1, <1>2, <1>3, <1>4 DEF Next

LEMMA SpreadInvariance == Spec => [](IInv /\ SpreadOK)
<1>1. Init => IInv /\ SpreadOK
  <2> SUFFICES ASSUME Init PROVE SpreadOK
    BY HostInit
  <2>1. Spreads(partitions) = {0}
    BY SpreadsEmpty DEF Init
  <2>2. IsFiniteSet({0}) /\ {0} \in SUBSET Int
    BY FS_Singleton
  <2> QED
    BY <2>1, <2>2 DEF SpreadOK
<1>2. (IInv /\ SpreadOK) /\ [Next]_vars => (IInv /\ SpreadOK)'
  <2> SUFFICES ASSUME IInv, SpreadOK, [Next]_vars PROVE SpreadOK'
    BY HostNext
  <2>1. CASE partitions' = partitions
    BY <2>1 DEF SpreadOK
  <2>2. CASE \E d \in PartDescriptors : Appended(d)
    BY <2>2, SpreadStep
  <2> QED
    BY <2>1, <2>2, OnlyIterations
<1> QED
  BY <1>1, <1>2, PTL DEF Spec

(* SchedulerStep: the code's bubble sort and its loop over the maxima      *)
(* arrange the parts of every partition, and in the end the partitions, as *)
(* Scheduler promises, whatever the estimates and their ties.              *)
THEOREM SortsArrange == Spec => SchedulerStep
<1>1. ASSUME IInv, SpreadOK, [Next]_vars
      PROVE  [/\ partitions' # partitions =>
                    LET est == partitions'[Len(partitions')].est
                    IN est \in Estimates /\ S!Arrange(est)
              /\ phase' = "done" =>
                    S!IsDescending(partIdTable',
                       [i \in 0..blkNum - 1 |-> partitions[i + 1].totalEdge])]_vars
  <2>1. ASSUME partitions' # partitions
        PROVE  /\ partitions'[Len(partitions')].est \in Estimates
               /\ S!Arrange(partitions'[Len(partitions')].est)
    <3>1. PICK d \in PartDescriptors : Appended(d)
      BY <1>1, <2>1, OnlyIterations
    <3>2. S!Arrange(d.est) /\ d.est \in Estimates /\ d = partitions'[Len(partitions')]
      BY <1>1, <3>1, Arranges
    <3> DEFINE order == IF partitions = <<>> THEN [c \in Cus |-> c]
                        ELSE partitions[Len(partitions)].finalOrder
               est == partitions'[Len(partitions')].est
    <3>3. d.est = est
      BY <3>2
    <3>4. PICK byPerf \in [S!Cus -> S!Cus], byEst \in [S!Cus -> S!Cus] :
             /\ S!IsDescending(byPerf, cuPerformance)
             /\ S!IsDescending(byEst, d.est)
             /\ order' \in [S!Cus -> S!Cus]
             /\ \A k \in S!Cus :
                   order'[byPerf[k]] = byEst[SUB_PARTITION_NUM - 1 - k]
             /\ cuPerformance' =
                   [c \in S!Cus |-> cuPerformance[c] + d.est[order'[c]]]
             /\ S!IsSpread(GreatestOf(Spreads(partitions))', d.est)
      BY <3>2 DEF S!Arrange
    <3>5. S!IsDescending(byEst, est)
      BY <3>3, <3>4 DEF S!IsDescending
    <3>6. S!IsSpread(GreatestOf(Spreads(partitions))', est)
      BY <3>3, <3>4 DEF S!IsSpread
    <3>7. cuPerformance' = [c \in S!Cus |-> cuPerformance[c] + est[order'[c]]]
      BY <3>3, <3>4
    <3>8. S!Arrange(est)
      BY <3>4, <3>5, <3>6, <3>7 DEF S!Arrange
    <3> QED
      BY <3>2, <3>3, <3>8
  <2>2. ASSUME Next, phase' = "done"
        PROVE  S!IsDescending(partIdTable',
                  [i \in 0..blkNum - 1 |-> partitions[i + 1].totalEdge])
    <3>1. ~Load
      BY <2>2 DEF Load
    <3>2. ~PartitionEdges
      BY <2>2, PartitionStep
    <3>3. ArrangePartitions
      BY <2>2, <3>1, <3>2 DEF Next
    <3> QED
      BY <1>1, <3>3, ArrangePartitionsInv
  <2> QED
    BY <1>1, <2>1, <2>2
<1> QED
  BY <1>1, SpreadInvariance, PTL DEF Spec, SchedulerStep

(* The code implements the scheduler: every iteration is one of its steps, *)
(* loading and the final ordering stutter.                                 *)
THEOREM ImplementsScheduler == Spec => SP!Spec
<1>1. Init => SP!Init
  <2> SUFFICES ASSUME Init PROVE SP!Init
    OBVIOUS
  <2>1. partitions = <<>> /\ cuPerformance = [c \in Cus |-> 0]
    BY DEF Init
  <2>2. GreatestOf(Spreads(partitions)) = 0
    BY <2>1, SpreadsEmpty
  <2> QED
    BY <2>1, <2>2 DEF SP!Init, SP!Cus, Cus
<1>2. ASSUME IInv, SpreadOK, [Next]_vars
      PROVE  [SP!Next]_SP!vars
  <2>1. CASE partitions' = partitions /\ cuPerformance' = cuPerformance
    BY <2>1 DEF SP!vars
  <2>2. CASE \E d \in PartDescriptors : Appended(d)
    BY <1>2, <2>2, Arranges DEF SP!Next
  <2> QED
    BY <1>2, <2>1, <2>2, OnlyIterations
<1> QED
  BY <1>1, <1>2, SpreadInvariance, PTL DEF Spec, SP!Spec

(* Balanced: after any number of partitions the estimated totals of two    *)
(* units are no further apart than two parts of one partition were: what   *)
(* is proved of Scheduler holds of the code that implements it.            *)
THEOREM UnitsStayBalanced == Spec => []Balanced
<1>1. SP!SchedulerAssumption
  BY PartitionAssumption DEF S!SchedulerAssumption, SP!SchedulerAssumption, S!Cus, SP!Cus
<1>2. SP!Spec => []SP!Balanced
  BY <1>1, SP!UnitsBalanced
<1>3. SP!Balanced => Balanced
  BY DEF SP!Balanced, Balanced, S!Balanced, SP!Cus, S!Cus
<1> QED
  BY <1>2, <1>3, ImplementsScheduler, PTL
=============================================================================
