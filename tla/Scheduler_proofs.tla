--------------------------- MODULE Scheduler_proofs ---------------------------
(***************************************************************************)
(* The units' estimated totals stay balanced, for every number of units    *)
(* and all estimates.                                                      *)
(***************************************************************************)
EXTENDS Scheduler, TLAPS

IInv == TypeOK /\ Balanced

(* An order is defined on all units and descends.                          *)
LEMMA Descending ==
    ASSUME NEW order, NEW key \in [Cus -> Int], IsDescending(order, key)
    PROVE  /\ order \in [Cus -> Cus]
           /\ \A c \in Cus : \E k \in Cus : order[k] = c
           /\ \A j, k \in Cus : j < k => key[order[j]] >= key[order[k]]
<1>1. DOMAIN key = Cus
  OBVIOUS
<1>2. \A c \in Cus : key[c] \in Int
  OBVIOUS
<1> QED
  BY <1>1, <1>2 DEF IsDescending

(* One partition keeps the invariant: of two units the one with the larger *)
(* total gets the part with the smaller estimate.                          *)
LEMMA ArrangeKeeps ==
    ASSUME SchedulerAssumption, IInv, NEW est \in Estimates, Arrange(est)
    PROVE  IInv'
<1>1. est \in [Cus -> Int]
  BY DEF SchedulerAssumption
<1>2. PICK byPerf \in [Cus -> Cus], byEst \in [Cus -> Cus] :
          /\ IsDescending(byPerf, cuPerformance)
          /\ IsDescending(byEst, est)
          /\ finalOrder' \in [Cus -> Cus]
          /\ \A k \in Cus :
                finalOrder'[byPerf[k]] = byEst[SUB_PARTITION_NUM - 1 - k]
          /\ cuPerformance' =
                [c \in Cus |-> cuPerformance[c] + est[finalOrder'[c]]]
          /\ IsSpread(spread', est)
  BY DEF Arrange
<1>3. cuPerformance \in [Cus -> Int]
  BY DEF IInv, TypeOK
<1>4. /\ \A c \in Cus : \E k \in Cus : byPerf[k] = c
      /\ \A j, k \in Cus : j < k =>
            cuPerformance[byPerf[j]] >= cuPerformance[byPerf[k]]
  BY <1>2, <1>3, Descending
<1>5. \A j, k \in Cus : j < k => est[byEst[j]] >= est[byEst[k]]
  BY <1>1, <1>2, Descending
<1>6. /\ spread \in Nat /\ spread' \in Nat /\ spread <= spread'
      /\ \A a, b \in Cus : est[a] - est[b] <= spread'
  BY <1>2 DEF IsSpread, IInv, TypeOK
<1>7. TypeOK'
  <2>1. cuPerformance' \in [Cus -> Int]
    BY <1>1, <1>2, <1>3
  <2> QED
    BY <2>1, <1>2, <1>6 DEF TypeOK
<1>8. Balanced'
  <2> SUFFICES ASSUME NEW a \in Cus, NEW b \in Cus
               PROVE  cuPerformance'[a] - cuPerformance'[b] <= spread'
    BY DEF Balanced, Cus
  <2>1. PICK k \in Cus : byPerf[k] = a
    BY <1>4
  <2>2. PICK l \in Cus : byPerf[l] = b
    BY <1>4
  <2> DEFINE mine == SUB_PARTITION_NUM - 1 - k
             yours == SUB_PARTITION_NUM - 1 - l
  <2>3. /\ mine \in Cus /\ yours \in Cus
        /\ k < l => yours < mine
        /\ k \in Int /\ l \in Int
    BY DEF Cus, SchedulerAssumption
  <2>4. /\ cuPerformance'[a] = cuPerformance[a] + est[byEst[mine]]
        /\ cuPerformance'[b] = cuPerformance[b] + est[byEst[yours]]
    BY <1>2, <2>1, <2>2
  <2>5. /\ byEst[mine] \in Cus /\ byEst[yours] \in Cus
        /\ est[byEst[mine]] \in Int /\ est[byEst[yours]] \in Int
        /\ cuPerformance[a] \in Int /\ cuPerformance[b] \in Int
    BY <1>1, <1>2, <1>3, <2>3
  <2> HIDE DEF mine, yours
  <2>6. cuPerformance[a] - cuPerformance[b] <= spread
    BY DEF IInv, Balanced
  <2>7. est[byEst[mine]] - est[byEst[yours]] <= spread'
    BY <1>6, <2>5
  <2>8. CASE k = l
    <3>1. a = b
      BY <2>1, <2>2, <2>8
    <3> QED
      BY <3>1, <2>4, <2>5, <1>6
  <2>9. CASE k < l
    <3>1. est[byEst[yours]] >= est[byEst[mine]]
      BY <1>5, <2>3, <2>9
    <3> QED
      BY <3>1, <2>4, <2>5, <2>6, <1>6
  <2>10. CASE l < k
    <3>1. cuPerformance[b] >= cuPerformance[a]
      BY <1>4, <2>1, <2>2, <2>10
    <3> QED
      BY <3>1, <2>4, <2>5, <2>7, <1>6
  <2> QED
    BY <2>3, <2>8, <2>9, <2>10
<1> QED
  BY <1>7, <1>8 DEF IInv

(* Balanced: the totals of two units never differ by more than two parts   *)
(* of a single partition did (docs/scheduling.md:28).                      *)
THEOREM UnitsBalanced ==
    ASSUME SchedulerAssumption
    PROVE  Spec => []Balanced
<1>1. Init => IInv
  <2> SUFFICES ASSUME Init
               PROVE  IInv
    OBVIOUS
  <2>1. TypeOK
    BY DEF Init, TypeOK
  <2>2. Balanced
    BY DEF Init, Balanced
  <2> QED
    BY <2>1, <2>2 DEF IInv
<1>2. IInv /\ [Next]_vars => IInv'
  <2> SUFFICES ASSUME IInv, [Next]_vars
               PROVE  IInv'
    OBVIOUS
  <2>1. CASE Next
    BY <2>1, ArrangeKeeps DEF Next
  <2>2. CASE UNCHANGED vars
    BY <2>2 DEF vars, IInv, TypeOK, Balanced
  <2> QED
    BY <2>1, <2>2
<1>3. IInv => Balanced
  BY DEF IInv
<1> QED
  BY <1>1, <1>2, <1>3, PTL DEF Spec
==============================================================================
