--------------------------- MODULE MCApplication ---------------------------
(* Two units, partitions of four vertices, pages of four words.  The apply *)
(* kernel reads the properties of the other unit.                          *)
EXTENDS Application

(* A triangle with a way back from its tail.                               *)
Cycle == [vertexNum |-> 4, drawn |-> 0..3,
          edges |-> <<<<0, 1>>, <<1, 2>>, <<2, 0>>, <<2, 3>>, <<3, 1>>>>]

(* Vertex 3 has no out-edges; the way of least weight from 0 to 2 does not *)
(* have the fewest edges.                                                  *)
Sink == [vertexNum |-> 4, drawn |-> 0..3,
         edges |-> <<<<0, 1>>, <<0, 2>>, <<1, 0>>, <<2, 1>>, <<2, 3>>>>]

(* Two partitions, the second with one edge and padding for each unit.     *)
TwoParts == [vertexNum |-> 6, drawn |-> {0, 2, 5},
             edges |-> <<<<0, 4>>, <<1, 0>>, <<2, 1>>, <<3, 2>>, <<4, 3>>,
                         <<4, 5>>>>]

(* The vertex without out-edges is numbered like the first vertex of a     *)
(* partition that does not exist.                                          *)
Boundary == [vertexNum |-> 5, drawn |-> {0, 3, 4},
             edges |-> <<<<0, 1>>, <<1, 2>>, <<2, 4>>, <<3, 0>>, <<3, 4>>>>]

Drawn(g, vertices) == [g EXCEPT !.drawn = vertices]

MCPrograms ==
  ((AppNames \ {"cc"}) \X {Cycle, Sink, Boundary, TwoParts})
    \cup ({"cc"} \X {Drawn(Cycle, {0, 2}), Drawn(Sink, {0, 1, 3}),
                     Drawn(Boundary, {0, 4}), Drawn(TwoParts, {0, 2})})
MCInterface == [u \in Units |-> CuNum - 1 - u]
=============================================================================
