---------------------------- MODULE MCRawSolver ----------------------------
(***************************************************************************)
(* Lane 1 of a partition of 8 rows.  Destinations 17, 33, 49, 65 and 113   *)
(* lie in words 0, 1, 1, 2 and 3: both halves of a word, neighbours and    *)
(* distant ones, so that slots fill up and merge.                          *)
(***************************************************************************)
EXTENDS RawSolver

MCDst == {17, 33, 49, 65, 113}
=============================================================================
