----------------------------- MODULE MCPartition -----------------------------
(* Three units, lists of multiples of two edges, two vertices per          *)
(* partition, up to five vertices.                                         *)
EXTENDS Partition

MCLines == (((0..3) \X {0, 1, 3}) \ {<<2, 1>>}) \union {<<4, 0>>}

(* For undirected files, whose edges go both ways.                        *)
MCPairs == (0..2) \X (0..2)

(* Linear like the first terms of performanceEstimator, scaled to small    *)
(* integers.                                                               *)
MCEstimate(vertex, edge) == 40 + 7 * edge + 3 * vertex
==============================================================================
