---------------------------- MODULE Router_proofs ----------------------------
(***************************************************************************)
(* Proof that a router delivers, for all lanes, edges and tuples, and      *)
(* streams of any length.                                                  *)
(***************************************************************************)
EXTENDS Router, TLAPS

(* What a lane was sent is what it has taken, followed by what waits for   *)
(* it; a closed lane has nothing waiting.                                  *)
InOrder(l) ==
  IF open[l] THEN sent[l] = taken[l] \o queue[l] /\ NoPadding(taken[l])
             ELSE queue[l] = <<>>

Inv == TypeOK /\ Delivered /\ \A l \in Lanes : InOrder(l)

(* Indexing a concatenation.                                               *)
LEMMA Concat ==
  ASSUME NEW s \in Seq(Items), NEW t \in Seq(Items)
  PROVE  /\ s \o t \in Seq(Items)
         /\ Len(s \o t) = Len(s) + Len(t)
         /\ \A i \in 1 .. Len(s) : (s \o t)[i] = s[i]
         /\ \A i \in 1 .. Len(t) : (s \o t)[Len(s) + i] = t[i]
  OBVIOUS

(* Taking the head of the second of two sequences into the first one.      *)
LEMMA MoveHead ==
  ASSUME NEW s \in Seq(Items), NEW t \in Seq(Items), t # <<>>
  PROVE  /\ s \o t = Append(s, Head(t)) \o Tail(t)
         /\ Append(s, Head(t)) \in Seq(Items) /\ Tail(t) \in Seq(Items)
  OBVIOUS

LEMMA Associative ==
  ASSUME NEW s \in Seq(Items), NEW t \in Seq(Items), NEW u \in Seq(Items)
  PROVE  (s \o t) \o u = s \o (t \o u)
  OBVIOUS

LEMMA NoEdges == [l \in Lanes |-> <<>>] \in [Lanes -> Seq(Items)]
<1>1. <<>> \in Seq(Items)
  OBVIOUS
<1> QED
  BY <1>1

LEMMA InitInv == Init => Inv
<1> SUFFICES ASSUME Init PROVE Inv
  OBVIOUS
<1>1. TypeOK
  BY NoEdges DEF Init, TypeOK
<1>2. Delivered
  BY DEF Init, Delivered
<1>3. ASSUME NEW l \in Lanes PROVE InOrder(l)
  <2>1. open[l] /\ sent[l] = <<>> /\ taken[l] = <<>> /\ queue[l] = <<>>
    BY DEF Init
  <2> QED
    BY <2>1 DEF InOrder, NoPadding
<1> QED
  BY <1>1, <1>2, <1>3 DEF Inv

(* What is sent goes behind what was sent before; a closed lane is as      *)
(* complete as it was.                                                     *)
LEMMA SendInv ==
  ASSUME RouterAssumption, Inv, NEW batch \in Batches, Send(batch)
  PROVE  Inv'
<1>1. /\ batch \in [Lanes -> Seq(Items)]
      /\ queue \in [Lanes -> Seq(Items)] /\ sent \in [Lanes -> Seq(Items)]
      /\ taken \in [Lanes -> Seq(Items)] /\ open \in [Lanes -> BOOLEAN]
  BY DEF RouterAssumption, Inv, TypeOK
<1>2. ASSUME NEW l \in Lanes
      PROVE  /\ sent'[l] = sent[l] \o batch[l] /\ sent'[l] \in Seq(Items)
             /\ queue'[l] = (IF open[l] THEN queue[l] \o batch[l] ELSE queue[l])
             /\ queue'[l] \in Seq(Items)
  <2>1. queue[l] \in Seq(Items) /\ sent[l] \in Seq(Items) /\ batch[l] \in Seq(Items)
    BY <1>1
  <2>2. sent[l] \o batch[l] \in Seq(Items) /\ queue[l] \o batch[l] \in Seq(Items)
    BY <2>1, Concat
  <2> QED
    BY <1>1, <2>1, <2>2 DEF Send
<1>3. TypeOK'
  <2>1. sent' \in [Lanes -> Seq(Items)] /\ queue' \in [Lanes -> Seq(Items)]
    BY <1>2 DEF Send
  <2> QED
    BY <2>1 DEF Inv, TypeOK, Send
<1>4. ASSUME NEW l \in Lanes PROVE InOrder(l)'
  <2>1. open'[l] = open[l] /\ taken'[l] = taken[l]
    BY DEF Send
  <2>2. CASE open[l]
    <3>1. sent[l] = taken[l] \o queue[l] /\ NoPadding(taken[l])
      BY <2>2 DEF Inv, InOrder
    <3>2. taken[l] \in Seq(Items) /\ queue[l] \in Seq(Items) /\ batch[l] \in Seq(Items)
      BY <1>1
    <3>3. sent'[l] = taken[l] \o queue'[l]
      <4>1. (taken[l] \o queue[l]) \o batch[l] = taken[l] \o (queue[l] \o batch[l])
        BY <3>2, Associative, Zenon
      <4>2. sent'[l] = sent[l] \o batch[l] /\ queue'[l] = queue[l] \o batch[l]
        BY <1>2, <2>2
      <4> QED
        BY <3>1, <4>1, <4>2, Zenon
    <3> QED
      BY <2>1, <2>2, <3>1, <3>3 DEF InOrder, NoPadding
  <2>3. CASE ~open[l]
    BY <1>2, <2>1, <2>3 DEF Inv, InOrder
  <2> QED
    BY <2>2, <2>3
<1>5. ASSUME NEW l \in Lanes, ~open'[l] PROVE Complete(l)'
  <2>1. ~open[l] /\ taken' = taken /\ ended' = ended /\ ~ended
    BY <1>5 DEF Send
  <2>2. Complete(l)
    BY <2>1 DEF Inv, Delivered
  <2>3. sent[l] \in Seq(Items) /\ batch[l] \in Seq(Items) /\ taken[l] \in Seq(Items)
    BY <1>1
  <2>4. /\ Len(sent'[l]) = Len(sent[l]) + Len(batch[l])
        /\ \A i \in 1 .. Len(sent[l]) : sent'[l][i] = sent[l][i]
    <3>1. /\ Len(sent[l] \o batch[l]) = Len(sent[l]) + Len(batch[l])
          /\ \A i \in 1 .. Len(sent[l]) : (sent[l] \o batch[l])[i] = sent[l][i]
      BY <2>3, Concat, Zenon
    <3>2. sent'[l] = sent[l] \o batch[l]
      BY <1>2
    <3> QED
      BY <3>1, <3>2, Zenon
  <2>5. Len(taken[l]) < Len(sent[l]) /\ DOMAIN taken[l] = 1 .. Len(taken[l])
    BY <2>1, <2>2, <2>3 DEF Complete
  <2>6. Len(taken[l]) \in Nat /\ Len(sent[l]) \in Nat /\ Len(batch[l]) \in Nat
    BY <2>3
  <2>7. sent'[l][Len(taken[l]) + 1] \in Padding
    <3>1. sent[l][Len(taken[l]) + 1] \in Padding
      BY <2>2, <2>5, <2>6 DEF Complete
    <3>2. Len(taken[l]) + 1 \in 1 .. Len(sent[l])
      BY <2>5, <2>6
    <3> QED
      BY <2>4, <3>1, <3>2
  <2>8. \A i \in DOMAIN taken[l] : taken[l][i] = sent'[l][i]
    <3>1. \A i \in DOMAIN taken[l] : taken[l][i] = sent[l][i]
      BY <2>2 DEF Complete
    <3>2. \A i \in DOMAIN taken[l] : i \in 1 .. Len(sent[l])
      BY <2>5, <2>6
    <3> QED
      BY <2>4, <3>1, <3>2
  <2>9. Len(taken[l]) <= Len(sent'[l]) /\ Len(taken[l]) # Len(sent'[l])
    <3>1. Len(sent'[l]) = Len(sent[l]) + Len(batch[l])
      BY <2>4, Zenon
    <3>2. \A a, b, c \in Nat : a < b => a <= b + c /\ a # b + c
      OBVIOUS
    <3>3. /\ Len(taken[l]) <= Len(sent[l]) + Len(batch[l])
          /\ Len(taken[l]) # Len(sent[l]) + Len(batch[l])
      BY <2>5, <2>6, <3>2, Zenon
    <3> QED
      BY <3>1, <3>3, Zenon
  <2>10. NoPadding(taken[l])
    BY <2>2 DEF Complete
  <2> QED
    BY <2>1, <2>7, <2>8, <2>9, <2>10, Zenon DEF Complete, NoPadding
<1> QED
  BY <1>3, <1>4, <1>5 DEF Inv, Delivered

LEMMA EndInv ==
  ASSUME Inv, End
  PROVE  Inv'
<1>1. TypeOK'
  BY DEF Inv, TypeOK, End
<1>2. Delivered'
  <2> SUFFICES ASSUME NEW l \in Lanes, ~open[l] PROVE Complete(l)'
    BY DEF Delivered, End
  <2>1. Complete(l)
    BY DEF Inv, Delivered
  <2> QED
    BY <2>1 DEF Complete, NoPadding, End
<1>3. \A l \in Lanes : InOrder(l)'
  BY DEF Inv, InOrder, NoPadding, End
<1> QED
  BY <1>1, <1>2, <1>3 DEF Inv

(* The head of the queue becomes the last edge taken.                      *)
LEMMA TakeInv ==
  ASSUME Inv, NEW m \in Lanes, Take(m)
  PROVE  Inv'
<1>1. /\ queue \in [Lanes -> Seq(Items)] /\ sent \in [Lanes -> Seq(Items)]
      /\ taken \in [Lanes -> Seq(Items)] /\ open \in [Lanes -> BOOLEAN]
  BY DEF Inv, TypeOK
<1>2. /\ open[m] /\ queue[m] # <<>> /\ Head(queue[m]) \notin Padding
      /\ taken' = [taken EXCEPT ![m] = Append(taken[m], Head(queue[m]))]
      /\ queue' = [queue EXCEPT ![m] = Tail(queue[m])]
      /\ open' = open /\ ended' = ended /\ sent' = sent
  BY DEF Take
<1>3. taken[m] \in Seq(Items) /\ queue[m] \in Seq(Items)
  BY <1>1
<1>4. /\ taken[m] \o queue[m] = Append(taken[m], Head(queue[m])) \o Tail(queue[m])
      /\ Append(taken[m], Head(queue[m])) \in Seq(Items) /\ Tail(queue[m]) \in Seq(Items)
  BY <1>2, <1>3, MoveHead
<1>5. TypeOK'
  <2>1. taken' \in [Lanes -> Seq(Items)] /\ queue' \in [Lanes -> Seq(Items)]
    BY <1>1, <1>2, <1>4
  <2> QED
    BY <1>2, <2>1 DEF Inv, TypeOK
<1>6. ASSUME NEW l \in Lanes, ~open'[l] PROVE Complete(l)'
  <2>1. ~open[l] /\ l # m /\ taken'[l] = taken[l] /\ sent' = sent /\ ended' = ended
    BY <1>1, <1>2, <1>6
  <2>2. Complete(l)
    BY <2>1 DEF Inv, Delivered
  <2> QED
    BY <2>1, <2>2 DEF Complete, NoPadding
<1>7. ASSUME NEW l \in Lanes PROVE InOrder(l)'
  <2>1. CASE l # m
    <3>1. taken'[l] = taken[l] /\ queue'[l] = queue[l]
      BY <1>1, <1>2, <2>1
    <3> QED
      BY <1>2, <3>1 DEF Inv, InOrder, NoPadding
  <2>2. CASE l = m
    <3>1. taken'[m] = Append(taken[m], Head(queue[m])) /\ queue'[m] = Tail(queue[m])
      BY <1>1, <1>2
    <3>2. sent[m] = taken[m] \o queue[m] /\ NoPadding(taken[m])
      BY <1>2 DEF Inv, InOrder
    <3>3. NoPadding(Append(taken[m], Head(queue[m])))
      BY <1>2, <1>3, <3>2 DEF NoPadding
    <3> QED
      BY <1>2, <1>4, <2>2, <3>1, <3>2, <3>3 DEF InOrder, NoPadding
  <2> QED
    BY <2>1, <2>2
<1> QED
  BY <1>5, <1>6, <1>7 DEF Inv, Delivered

(* A lane closes with an empty queue after the end, or at padding; either  *)
(* way it is complete.                                                     *)
LEMMA CloseInv ==
  ASSUME Inv, NEW m \in Lanes, Close(m)
  PROVE  Inv'
<1>1. /\ queue \in [Lanes -> Seq(Items)] /\ sent \in [Lanes -> Seq(Items)]
      /\ taken \in [Lanes -> Seq(Items)] /\ open \in [Lanes -> BOOLEAN]
  BY DEF Inv, TypeOK
<1>2. /\ open[m]
      /\ IF queue[m] = <<>> THEN ended ELSE Head(queue[m]) \in Padding
      /\ open' = [open EXCEPT ![m] = FALSE]
      /\ queue' = [queue EXCEPT ![m] = <<>>]
      /\ ended' = ended /\ taken' = taken /\ sent' = sent
  BY DEF Close
<1>3. TypeOK'
  BY <1>1, <1>2 DEF Inv, TypeOK
<1>4. ASSUME NEW l \in Lanes PROVE InOrder(l)'
  <2>1. CASE l # m
    <3>1. open'[l] = open[l] /\ queue'[l] = queue[l]
      BY <1>1, <1>2, <2>1
    <3> QED
      BY <1>2, <3>1 DEF Inv, InOrder, NoPadding
  <2>2. CASE l = m
    BY <1>1, <1>2, <2>2 DEF InOrder
  <2> QED
    BY <2>1, <2>2
<1>5. Complete(m)
  <2>1. sent[m] = taken[m] \o queue[m] /\ NoPadding(taken[m])
    BY <1>2 DEF Inv, InOrder
  <2>2. taken[m] \in Seq(Items) /\ queue[m] \in Seq(Items)
    BY <1>1
  <2>3. /\ Len(sent[m]) = Len(taken[m]) + Len(queue[m])
        /\ \A i \in 1 .. Len(taken[m]) : sent[m][i] = taken[m][i]
        /\ \A i \in 1 .. Len(queue[m]) : sent[m][Len(taken[m]) + i] = queue[m][i]
    <3>1. /\ Len(taken[m] \o queue[m]) = Len(taken[m]) + Len(queue[m])
          /\ \A i \in 1 .. Len(taken[m]) : (taken[m] \o queue[m])[i] = taken[m][i]
          /\ \A i \in 1 .. Len(queue[m]) :
               (taken[m] \o queue[m])[Len(taken[m]) + i] = queue[m][i]
      BY <2>2, Concat, Zenon
    <3> QED
      BY <2>1, <3>1, Zenon
  <2>4. /\ DOMAIN taken[m] = 1 .. Len(taken[m])
        /\ Len(taken[m]) \in Nat /\ Len(queue[m]) \in Nat
    BY <2>2
  <2>5. CASE queue[m] = <<>>
    BY <1>2, <2>1, <2>3, <2>4, <2>5 DEF Complete
  <2>6. CASE queue[m] # <<>>
    <3>1. Len(queue[m]) > 0 /\ queue[m][1] = Head(queue[m])
      BY <2>2, <2>6
    <3>2. sent[m][Len(taken[m]) + 1] \in Padding
      <4>1. 1 \in 1 .. Len(queue[m])
        BY <2>4, <3>1
      <4>2. sent[m][Len(taken[m]) + 1] = queue[m][1]
        BY <2>3, <4>1, Zenon
      <4>3. Head(queue[m]) \in Padding
        BY <1>2, <2>6
      <4> QED
        BY <3>1, <4>2, <4>3
    <3>3. Len(taken[m]) <= Len(sent[m]) /\ Len(taken[m]) # Len(sent[m])
      <4>1. \A a, b \in Nat : b > 0 => a <= a + b /\ a # a + b
        OBVIOUS
      <4>2. /\ Len(taken[m]) <= Len(taken[m]) + Len(queue[m])
            /\ Len(taken[m]) # Len(taken[m]) + Len(queue[m])
        BY <2>4, <3>1, <4>1, Zenon
      <4> QED
        BY <2>3, <4>2, Zenon
    <3>4. \A i \in DOMAIN taken[m] : taken[m][i] = sent[m][i]
      BY <2>3, <2>4
    <3> QED
      BY <2>1, <3>2, <3>3, <3>4 DEF Complete
  <2> QED
    BY <2>5, <2>6
<1>6. ASSUME NEW l \in Lanes, ~open'[l] PROVE Complete(l)'
  <2>1. Complete(l)
    BY <1>1, <1>2, <1>5, <1>6 DEF Inv, Delivered
  <2> QED
    BY <1>2, <2>1 DEF Complete, NoPadding
<1> QED
  BY <1>3, <1>4, <1>6 DEF Inv, Delivered

LEMMA RestartInv ==
  ASSUME Inv, Restart
  PROVE  Inv'
<1>1. TypeOK'
  BY NoEdges DEF Inv, TypeOK, Restart
<1>2. Delivered'
  BY DEF Delivered, Restart
<1>3. ASSUME NEW l \in Lanes PROVE InOrder(l)'
  <2>1. open'[l] /\ sent'[l] = <<>> /\ taken'[l] = <<>> /\ queue'[l] = <<>>
    BY DEF Inv, InOrder, Restart
  <2> QED
    BY <2>1 DEF InOrder, NoPadding
<1> QED
  BY <1>1, <1>2, <1>3 DEF Inv

(* Every closed lane has taken what it was sent up to its first padding,   *)
(* in order and once: the promise Shuffle keeps for the streams in front   *)
(* of the lanes.                                                           *)
THEOREM RouterDelivers ==
  ASSUME RouterAssumption
  PROVE  Spec => []Delivered
<1>1. Inv /\ [Next]_vars => Inv'
  <2> SUFFICES ASSUME Inv, [Next]_vars PROVE Inv'
    OBVIOUS
  <2>1. CASE \E batch \in Batches : Send(batch)
    BY <2>1, SendInv
  <2>2. CASE End
    BY <2>2, EndInv
  <2>3. CASE \E l \in Lanes : Take(l) \/ Close(l)
    BY <2>3, TakeInv, CloseInv
  <2>4. CASE Restart
    BY <2>4, RestartInv
  <2>5. CASE UNCHANGED vars
    BY <2>5 DEF vars, Inv, TypeOK, Delivered, Complete, InOrder, NoPadding
  <2> QED
    BY <2>1, <2>2, <2>3, <2>4, <2>5 DEF Next
<1>2. Inv => Delivered
  BY DEF Inv
<1> QED
  BY <1>1, <1>2, InitInv, PTL DEF Spec
=============================================================================
