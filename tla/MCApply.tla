------------------------------ MODULE MCApply ------------------------------
(***************************************************************************)
(* Two units of two lanes; a full partition of two read buffers and a last *)
(* one that ends inside its first.                                         *)
(***************************************************************************)
EXTENDS Apply

MCActive == {0, 3, 8, 9}
=============================================================================
