--------------------------- MODULE MCSourceCache ---------------------------
(***************************************************************************)
(* SourceCache on a cache of 8 lines of 2 vertices filled by bursts of 4   *)
(* vertices.  The sub-partitions go around the cache more than once, with  *)
(* blocks as wide as the window allows (13), blocks that share a source,   *)
(* jumps over bursts nobody needs, and the least number of blocks.         *)
(***************************************************************************)
EXTENDS SourceCache

B(lo, hi) == [lo |-> lo, hi |-> hi]

MCInputs == { <<B(0, 1), B(1, 9), B(9, 22), B(22, 22)>>,
              <<B(5, 5), B(30, 43), B(43, 43)>>,
              <<B(0, 13), B(13, 26), B(26, 39)>>,
              <<B(0, 0), B(20, 20), B(40, 41), B(60, 60), B(80, 80)>>,
              <<B(3, 3), B(3, 3)>> }

\* A block whose sources are farther apart than the window.
MCWideInputs == { <<B(0, 15), B(16, 17)>> }
=============================================================================
