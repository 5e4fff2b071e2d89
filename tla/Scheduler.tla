------------------------------ MODULE Scheduler ------------------------------
(***************************************************************************)
(* What the second-order-estimator scheduler promises about the            *)
(* sub-partitions (libgraph/scheduler/secondOrderEstimator/scheduler.cpp,  *)
(* soeSubPartitionArrangementHandler): one partition after the other, the  *)
(* part with the smallest estimate goes to the unit with the largest total *)
(* so far, the next smallest to the next largest, and so on.  How the code *)
(* finds this arrangement, with a bubble sort and a loop over maxima, is   *)
(* in Partition, which implements this module.                             *)
(*                                                                         *)
(* docs/scheduling.md:28 states the goal: to minimise the difference of    *)
(* the total estimated execution times of the units.                       *)
(***************************************************************************)
EXTENDS Integers

CONSTANTS
    SUB_PARTITION_NUM,  \* compute units, and parts of a partition
    Estimates           \* the vectors of estimates a partition may have

Cus == 0..SUB_PARTITION_NUM - 1

SchedulerAssumption ==
    /\ SUB_PARTITION_NUM \in Nat \ {0}
    /\ Estimates \subseteq [Cus -> Int]

VARIABLES
    cuPerformance,      \* estimated time of each unit so far
    finalOrder,         \* part given to each unit, for the latest partition
    spread              \* history: largest difference between the estimates
                        \* of two parts of one partition so far

vars == <<cuPerformance, finalOrder, spread>>

(* order lists the indices of key in descending order, equal keys in the   *)
(* order of their indices.                                                 *)
IsDescending(order, key) ==
    /\ order \in [DOMAIN key -> DOMAIN key]
    /\ \A c \in DOMAIN key : \E k \in DOMAIN key : order[k] = c
    /\ \A j, k \in DOMAIN key : j < k =>
          \/ key[order[j]] > key[order[k]]
          \/ key[order[j]] = key[order[k]] /\ order[j] < order[k]

Init ==
    /\ cuPerformance = [c \in Cus |-> 0]
    /\ finalOrder = [c \in Cus |-> c]
    /\ spread = 0

(* s is the maximum of spread and the differences within est.              *)
IsSpread(s, est) ==
    /\ s \in Int
    /\ spread <= s
    /\ \A a, b \in Cus : est[a] - est[b] <= s
    /\ s = spread \/ \E a, b \in Cus : s = est[a] - est[b]

(* One partition: the k-th largest unit gets the k-th smallest part.       *)
Arrange(est) ==
    \E byPerf \in [Cus -> Cus], byEst \in [Cus -> Cus] :
       /\ IsDescending(byPerf, cuPerformance)
       /\ IsDescending(byEst, est)
       /\ finalOrder' \in [Cus -> Cus]
       /\ \A k \in Cus :
             finalOrder'[byPerf[k]] = byEst[SUB_PARTITION_NUM - 1 - k]
       /\ cuPerformance' =
             [c \in Cus |-> cuPerformance[c] + est[finalOrder'[c]]]
       /\ IsSpread(spread', est)

Next == \E est \in Estimates : Arrange(est)

Spec == Init /\ [][Next]_vars

TypeOK ==
    /\ cuPerformance \in [Cus -> Int]
    /\ finalOrder \in [Cus -> Cus]
    /\ spread \in Nat

(* After any number of partitions the totals of two units differ by no     *)
(* more than the parts of a single partition did: the differences do not   *)
(* add up from partition to partition.                                     *)
Balanced == \A a, b \in Cus : cuPerformance[a] - cuPerformance[b] <= spread
==============================================================================
