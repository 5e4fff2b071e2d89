------------------------------ MODULE BulkSync ------------------------------
(***************************************************************************)
(* What a super-step promises: the destination partitions are brought from *)
(* the properties of step s to those of step s + 1 one after another, in   *)
(* any order, every one of them from properties of step s only, and no     *)
(* partition goes on to the next step before all have finished this one.   *)
(***************************************************************************)
EXTENDS Integers

CONSTANT Part   \* the destination partitions

VARIABLES
  step,      \* the current super-step
  property   \* the step the current properties of each partition belong to

vars == <<step, property>>

Init ==
  /\ step = 0
  /\ property = [p \in Part |-> 0]

Update(p) ==
  /\ property[p] = step
  /\ \A q \in Part : property[q] \in {step, step + 1}
  /\ property' = [property EXCEPT ![p] = step + 1]
  /\ UNCHANGED step

Complete == \A p \in Part : property[p] = step + 1

Barrier ==
  /\ Complete
  /\ step' = step + 1
  /\ UNCHANGED property

\* The application starts over from new initial properties.
Restart ==
  /\ Complete
  /\ step' = 0
  /\ property' = [p \in Part |-> 0]

Next == (\E p \in Part : Update(p)) \/ Barrier \/ Restart

Spec == Init /\ [][Next]_vars
=============================================================================
