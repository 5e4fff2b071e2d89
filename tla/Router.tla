------------------------------- MODULE Router -------------------------------
(***************************************************************************)
(* What the streams between the source cache and the lanes promise         *)
(* (libfpga/fpga_gs_top.h): every lane has one unbounded queue, a tuple of *)
(* edges puts each of its active edges into the queue of its destination's *)
(* lane, and a lane takes edges in order until the end or until an edge    *)
(* that only pads the list.  How the code does it is in Shuffle, which     *)
(* implements this module.                                                 *)
(***************************************************************************)
EXTENDS Integers, Sequences

CONSTANTS
  Lanes,     \* the lanes
  Items,     \* the edges a queue may hold
  Padding,   \* those of them that pad the list
  Batches    \* what one tuple may give the lanes, a set of functions

RouterAssumption ==
  /\ Padding \subseteq Items
  /\ Batches \subseteq [Lanes -> Seq(Items)]

VARIABLES
  queue,   \* lane -> edges sent to it and not yet taken
  open,    \* lane -> does it still take edges?
  ended,   \* has the end of the stream been sent?
  taken,   \* history: lane -> edges taken in this invocation
  sent     \* history: lane -> edges sent in this invocation

vars == <<queue, open, ended, taken, sent>>
-----------------------------------------------------------------------------
Init ==
  /\ queue = [l \in Lanes |-> <<>>]
  /\ open = [l \in Lanes |-> TRUE]
  /\ ended = FALSE
  /\ taken = [l \in Lanes |-> <<>>]
  /\ sent = [l \in Lanes |-> <<>>]

\* A lane that has seen padding does not receive what is sent after it.
Send(batch) ==
  /\ ~ended
  /\ sent' = [l \in Lanes |-> sent[l] \o batch[l]]
  /\ queue' = [l \in Lanes |->
                 IF open[l] THEN queue[l] \o batch[l] ELSE queue[l]]
  /\ UNCHANGED <<open, ended, taken>>

End ==
  /\ ~ended
  /\ ended' = TRUE
  /\ UNCHANGED <<queue, open, taken, sent>>

Take(l) ==
  /\ open[l]
  /\ UNCHANGED <<open, ended, sent>>
  /\ \E item \in Items \ Padding :
       /\ taken' = [taken EXCEPT ![l] = Append(@, item)]
       /\ queue[l] # <<>> /\ item = Head(queue[l])
  /\ queue' = [queue EXCEPT ![l] = Tail(@)]

\* A lane closes when nothing can follow, or when padding comes; the edges
\* behind padding are thrown away.
Close(l) ==
  /\ open[l]
  /\ open' = [open EXCEPT ![l] = FALSE]
  /\ IF queue[l] = <<>> THEN ended ELSE Head(queue[l]) \in Padding
  /\ queue' = [queue EXCEPT ![l] = <<>>]
  /\ UNCHANGED <<ended, taken, sent>>

Restart ==
  /\ ended /\ \A l \in Lanes : ~open[l]
  /\ open' = [l \in Lanes |-> TRUE]
  /\ ended' = FALSE
  /\ taken' = [l \in Lanes |-> <<>>]
  /\ sent' = [l \in Lanes |-> <<>>]
  /\ UNCHANGED queue

Next ==
  \/ \E batch \in Batches : Send(batch)
  \/ End
  \/ \E l \in Lanes : Take(l) \/ Close(l)
  \/ Restart

Spec == Init /\ [][Next]_vars
-----------------------------------------------------------------------------
TypeOK ==
  /\ queue \in [Lanes -> Seq(Items)]
  /\ open \in [Lanes -> BOOLEAN]
  /\ ended \in BOOLEAN
  /\ taken \in [Lanes -> Seq(Items)]
  /\ sent \in [Lanes -> Seq(Items)]

NoPadding(s) == \A i \in DOMAIN s : s[i] \notin Padding

\* What lane l has taken is a beginning of what it was sent, ends before the
\* first padding and, if there is no padding, is all of it.
Complete(l) ==
  /\ Len(taken[l]) <= Len(sent[l])
  /\ \A i \in DOMAIN taken[l] : taken[l][i] = sent[l][i]
  /\ NoPadding(taken[l])
  /\ IF Len(taken[l]) = Len(sent[l])
     THEN ended
     ELSE sent[l][Len(taken[l]) + 1] \in Padding

\* A lane that has closed has taken the edges sent to it, in their order: all
\* of them if none was padding, and otherwise those before the first padding.
Delivered == \A l \in Lanes : ~open[l] => Complete(l)
=============================================================================
