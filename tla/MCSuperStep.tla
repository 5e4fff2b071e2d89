---------------------------- MODULE MCSuperStep ----------------------------
(***************************************************************************)
(* Two compute units; the partitions in an order other than their own.     *)
(***************************************************************************)
EXTENDS SuperStep

MCOrder == [i \in Positions |-> (BlkNum - 1) - i]
=============================================================================
