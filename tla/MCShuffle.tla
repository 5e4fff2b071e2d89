----------------------------- MODULE MCShuffle -----------------------------
(***************************************************************************)
(* Two lanes behind two duplicators, two edges in a tuple, one block in a  *)
(* list.  Padding goes to lane 0, as it does to lane PE_NUM - 2 of the     *)
(* code.  One list has edges for both lanes in each tuple, one has a tuple *)
(* without active edges and none for lane 1, one has padding from within a *)
(* tuple on.                                                               *)
(***************************************************************************)
EXTENDS Shuffle

\* All rows of the tables, for the eight edges of a tuple of the code.
ASSUME RowsRight(8)

On(x)  == [x |-> x, active |-> TRUE]
Off(x) == [x |-> x, active |-> FALSE]
Pad    == On(PadDst)

MCLists ==
  { << <<On(0), On(1)>>, <<On(3), On(2)>> >>,
    << <<Off(0), Off(1)>>, <<On(2), On(0)>> >>,
    << <<On(1), Pad>>, <<Pad, Pad>> >> }

MCJunk == { <<On(1), Off(0)>> }

MCDepth ==
  [edgePropSliceStream |-> 1, halfPropStream |-> 1, edgeTuplesBuffer |-> 1,
   edgeTuplesCoupled |-> 1, edgeTuplesLayer1 |-> 1, edgeTuplesArray |-> 1,
   toFilterArraySlice |-> 1, toFilterArray |-> 1, toFilterArraySlice2 |-> 1,
   buildArray |-> 1, buildArraySlice |-> 1]
=============================================================================
