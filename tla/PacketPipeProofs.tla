-------------------------- MODULE PacketPipeProofs --------------------------
(***************************************************************************)
(* What PacketPipe says of the packets that come out, and with that of     *)
(* every stage that implements it: they are in order, each at most once,   *)
(* and without a gap as long as no more are put in than are kept.          *)
(***************************************************************************)
EXTENDS PacketPipe, QueueLemmas

Rising(s) == \A i, j \in 1 .. Len(s) : i < j => s[i] < s[j]

(* What came out and what is still in the pipe. *)
Through == delivered \o queue

TypeInv ==
  /\ offered \in Nat /\ queue \in Seq(1 .. offered) /\ delivered \in Seq(1 .. offered)
  /\ cut \in BOOLEAN

(* No packet comes twice, none before its turn, and none that was not put in. *)
InOrder == TypeInv /\ Rising(Through)

(* Up to Capacity packets nothing is dropped but the end, by a cut. *)
Gapless ==
  offered <= Capacity =>
     /\ Through = Numbered(Len(Through))
     /\ ~cut => Len(Through) = offered
-----------------------------------------------------------------------------
(* A part of a rising sequence that skips items is rising. *)
LEMMA RisingPart ==
  ASSUME NEW n \in Nat, NEW s \in Seq(1 .. n), NEW t \in Seq(1 .. n), NEW f, Rising(s),
         \A i \in 1 .. Len(t) : f[i] \in 1 .. Len(s) /\ t[i] = s[f[i]],
         \A i, j \in 1 .. Len(t) : i < j => f[i] < f[j]
  PROVE  Rising(t)
  BY DEF Rising

(* The newest packet is above the others. *)
LEMMA RisingAppend ==
  ASSUME NEW n \in Nat, NEW s \in Seq(1 .. n), Rising(s)
  PROVE  Rising(Append(s, n + 1)) /\ Append(s, n + 1) \in Seq(1 .. n + 1) /\ s \in Seq(1 .. n + 1)
<1> DEFINE t == Append(s, n + 1)
<1>1. s \in Seq(1 .. n + 1)
  OBVIOUS
<1>2. Len(s) \in Nat /\ \A i \in 1 .. Len(s) : s[i] \in 1 .. n
  BY LenProperties, ElementOfSeq
<1>3. n + 1 \in 1 .. n + 1
  OBVIOUS
<1>4. /\ t \in Seq(1 .. n + 1) /\ Len(t) = Len(s) + 1 /\ t[Len(s) + 1] = n + 1
      /\ \A i \in 1 .. Len(s) : t[i] = s[i]
  BY <1>1, <1>3, AppendProperties
<1> HIDE DEF t
<1>5. ASSUME NEW i \in 1 .. Len(t), NEW j \in 1 .. Len(t), i < j PROVE t[i] < t[j]
  <2>0. Len(s) \in Nat /\ Len(t) = Len(s) + 1
    BY <1>2, <1>4
  <2> DEFINE m == Len(s)
  <2> HIDE DEF m
  <2>4. m \in Nat /\ i \in 1 .. m + 1 /\ j \in 1 .. m + 1
    BY <2>0 DEF m
  <2>5. i \in 1 .. m /\ (j \in 1 .. m \/ j = m + 1)
    BY <1>5, <2>4
  <2>1. i \in 1 .. Len(s) /\ (j \in 1 .. Len(s) \/ j = Len(s) + 1)
    BY <2>5 DEF m
  <2>2. CASE j \in 1 .. Len(s)
    BY <1>4, <1>5, <2>1, <2>2 DEF Rising
  <2>3. CASE j = Len(s) + 1
    BY <1>2, <1>4, <2>1, <2>3
  <2> QED BY <2>1, <2>2, <2>3
<1>6. Rising(t)
  BY <1>5 DEF Rising
<1> QED BY <1>1, <1>4, <1>6 DEF t

(* Without one of its items a queue behind another is still rising. *)
LEMMA RisingWithout ==
  ASSUME NEW n \in Nat, NEW d \in Seq(1 .. n), NEW q \in Seq(1 .. n), NEW k \in 1 .. Len(q),
         Rising(d \o q)
  PROVE  /\ Rising(d \o RemoveAt(q, k)) /\ RemoveAt(q, k) \in Seq(1 .. n)
<1> DEFINE s == d \o q
           a == SubSeq(q, 1, k - 1)
           b == SubSeq(q, k + 1, Len(q))
           ab == a \o b
           t == d \o ab
           f == [i \in 1 .. Len(t) |-> IF i < Len(d) + k THEN i ELSE i + 1]
<1>1. Len(q) \in Nat /\ Len(d) \in Nat /\ k \in Nat /\ k - 1 \in 0 .. Len(q) /\ k \in 0 .. Len(q)
  BY LenProperties
<1>2. a \in Seq(1 .. n) /\ Len(a) = k - 1 /\ \A i \in 1 .. k - 1 : a[i] = q[i]
  BY <1>1, FirstItems
<1>3. b \in Seq(1 .. n) /\ Len(b) = Len(q) - k /\ \A i \in 1 .. Len(q) - k : b[i] = q[k + i]
  BY <1>1, RestItems
<1>4. /\ s \in Seq(1 .. n) /\ Len(s) = Len(d) + Len(q)
      /\ \A i \in 1 .. Len(d) + Len(q) : s[i] = IF i <= Len(d) THEN d[i] ELSE q[i - Len(d)]
  BY ConcatProperties
<1>0. a \in Seq(1 .. n) /\ b \in Seq(1 .. n)
  BY <1>2, <1>3
<1> HIDE DEF a, b, s
<1>5. /\ ab \in Seq(1 .. n) /\ Len(ab) = Len(a) + Len(b)
      /\ \A i \in 1 .. Len(a) + Len(b) : ab[i] = IF i <= Len(a) THEN a[i] ELSE b[i - Len(a)]
  BY <1>0, ConcatProperties
<1>6. ab \in Seq(1 .. n)
  BY <1>5
<1> HIDE DEF ab
<1>7. /\ t \in Seq(1 .. n) /\ Len(t) = Len(d) + Len(ab)
      /\ \A i \in 1 .. Len(d) + Len(ab) : t[i] = IF i <= Len(d) THEN d[i] ELSE ab[i - Len(d)]
  BY <1>6, ConcatProperties
<1> HIDE DEF t
<1>8. Len(ab) = Len(q) - 1 /\ Len(t) = Len(d) + Len(q) - 1 /\ Len(a) = k - 1
  BY <1>1, <1>2, <1>3, <1>5, <1>7
<1>9. ASSUME NEW i \in 1 .. Len(t) PROVE f[i] \in 1 .. Len(s) /\ t[i] = s[f[i]]
  <2>1. CASE i <= Len(d)
    <3>1. f[i] = i /\ i \in 1 .. Len(d) + Len(ab) /\ i \in 1 .. Len(d) + Len(q)
      BY <1>1, <1>8, <2>1, SMTT(30)
    <3> QED BY <1>4, <1>7, <2>1, <3>1
  <2>2. CASE i > Len(d) /\ i < Len(d) + k
    <3> DEFINE m == i - Len(d)
    <3>1. /\ f[i] = i /\ i \in 1 .. Len(d) + Len(ab) /\ i \in 1 .. Len(d) + Len(q) /\ ~(i <= Len(d))
          /\ m \in 1 .. Len(a) + Len(b) /\ m <= Len(a) /\ m \in 1 .. k - 1
      BY <1>1, <1>3, <1>8, <2>2, SMTT(30)
    <3> HIDE DEF f
    <3>2. t[i] = ab[m] /\ ab[m] = a[m] /\ a[m] = q[m]
      BY <1>2, <1>5, <1>7, <3>1
    <3>3. s[i] = q[m]
      BY <1>4, <3>1
    <3> QED BY <1>4, <3>1, <3>2, <3>3
  <2>3. CASE i >= Len(d) + k
    <3> DEFINE m == i - Len(d)
               l == m - Len(a)
    <3>1. /\ f[i] = i + 1 /\ i \in 1 .. Len(d) + Len(ab) /\ i + 1 \in 1 .. Len(d) + Len(q)
          /\ ~(i <= Len(d)) /\ ~(i + 1 <= Len(d))
          /\ m \in 1 .. Len(a) + Len(b) /\ ~(m <= Len(a)) /\ l \in 1 .. Len(q) - k
          /\ k + l = i + 1 - Len(d)
      BY <1>1, <1>3, <1>8, <2>3, SMTT(30)
    <3> HIDE DEF f
    <3>2. t[i] = ab[m] /\ ab[m] = b[l] /\ b[l] = q[k + l]
      BY <1>3, <1>5, <1>7, <3>1
    <3>3. s[i + 1] = q[k + l]
      <4>1. \A x \in 1 .. Len(d) + Len(q) : ~(x <= Len(d)) => s[x] = q[x - Len(d)]
        BY <1>4
      <4>2. s[i + 1] = q[i + 1 - Len(d)]
        BY <3>1, <4>1
      <4> QED BY <3>1, <4>2
    <3> QED BY <1>4, <3>1, <3>2, <3>3
  <2>4. i <= Len(d) \/ (i > Len(d) /\ i < Len(d) + k) \/ i >= Len(d) + k
    BY <1>1, <1>8, SMTT(30)
  <2> QED BY <2>1, <2>2, <2>3, <2>4
<1>10. ASSUME NEW i \in 1 .. Len(t), NEW j \in 1 .. Len(t), i < j PROVE f[i] < f[j]
  <2>1. /\ f[i] = IF i < Len(d) + k THEN i ELSE i + 1
        /\ f[j] = IF j < Len(d) + k THEN j ELSE j + 1
    OBVIOUS
  <2> HIDE DEF f
  <2>2. Len(t) \in Nat /\ Len(d) + k \in Nat
    BY <1>1, <1>8
  <2> QED BY <1>10, <2>1, <2>2
<1> HIDE DEF f
<1>11. Rising(s)
  BY DEF s
<1>12. Rising(t)
  BY <1>4, <1>7, <1>9, <1>10, <1>11, RisingPart
<1>13. RemoveAt(q, k) = ab
  BY DEF RemoveAt, ab, a, b
<1> QED BY <1>6, <1>12, <1>13 DEF t

(* The pipe's parts have their types, and what went through is a queue of
   packets that were put in. *)
LEMMA ThroughType ==
  ASSUME TypeInv
  PROVE  /\ Through \in Seq(1 .. offered) /\ Len(Through) = Len(delivered) + Len(queue)
         /\ Len(queue) \in Nat /\ Len(delivered) \in Nat /\ DOMAIN queue = 1 .. Len(queue)
<1>1. delivered \in Seq(1 .. offered) /\ queue \in Seq(1 .. offered)
  BY DEF TypeInv
<1> QED BY <1>1, ConcatProperties, LenProperties DEF Through

(* What a packet that is put in changes. *)
LEMMA OfferStep ==
  ASSUME TypeInv, Offer
  PROVE  /\ offered \in Nat /\ offered' = offered + 1 /\ cut' = cut /\ delivered' = delivered
         /\ cut => queue' = queue /\ Through' = Through
         /\ ~cut => Through' = Append(Through, offered + 1)
<1>1. offered \in Nat /\ offered' = offered + 1 /\ cut' = cut /\ delivered' = delivered
  BY DEF TypeInv, Offer
<1>2. cut => queue' = queue /\ Through' = Through
  BY DEF Offer, Through
<1>3. ASSUME ~cut PROVE Through' = Append(Through, offered + 1)
  <2>1. queue' = Append(queue, offered + 1)
    BY <1>3 DEF Offer
  <2>2. delivered \in Seq(Nat) /\ queue \in Seq(Nat) /\ offered + 1 \in Nat
    BY DEF TypeInv
  <2>3. delivered \o Append(queue, offered + 1) = Append(delivered \o queue, offered + 1)
    BY <2>2, ConcatAppend, SMTT(30)
  <2> QED BY <1>1, <2>1, <2>3 DEF Through
<1> QED BY <1>1, <1>2, <1>3

(* Packets that are taken out were the next ones to come. *)
LEMMA DeliverStep ==
  ASSUME TypeInv, NEW n \in DOMAIN queue, Deliver(n)
  PROVE  TypeInv' /\ Through' = Through /\ offered' = offered /\ cut' = cut
<1>1. delivered \in Seq(1 .. offered) /\ queue \in Seq(1 .. offered) /\ n \in 0 .. Len(queue)
  BY ThroughType DEF TypeInv
<1> DEFINE front == SubSeq(queue, 1, n)
           rest == SubSeq(queue, n + 1, Len(queue))
<1>2. front \in Seq(1 .. offered)
  BY <1>1, FirstItems
<1>3. rest \in Seq(1 .. offered)
  BY <1>1, RestItems
<1>4. front \o rest = queue
  BY <1>1, SplitQueue
<1>5. delivered' = delivered \o front /\ queue' = rest /\ offered' = offered /\ cut' = cut
  BY DEF Deliver
<1> HIDE DEF front, rest
<1>6. (delivered \o front) \o rest = delivered \o (front \o rest)
  <2>1. delivered \in Seq(1 .. offered)
    BY <1>1
  <2> QED BY <1>2, <1>3, <2>1, ConcatAssociative, SMTT(30)
<1>7. delivered \o front \in Seq(1 .. offered)
  BY <1>1, <1>2, ConcatProperties
<1>8. Through' = Through
  BY <1>4, <1>5, <1>6 DEF Through
<1> QED BY <1>3, <1>5, <1>7, <1>8 DEF TypeInv

(* What a cut leaves is the front of what went through. *)
LEMMA CutStep ==
  ASSUME TypeInv, NEW n \in 0 .. Len(queue), Cut(n)
  PROVE  /\ TypeInv' /\ offered' = offered /\ cut'
         /\ Len(Through') <= Len(Through) /\ Len(Through') \in Nat
         /\ \A i \in 1 .. Len(Through') : Through'[i] = Through[i]
<1>1. /\ delivered \in Seq(1 .. offered) /\ queue \in Seq(1 .. offered)
      /\ Len(queue) \in Nat /\ Len(delivered) \in Nat
  BY ThroughType DEF TypeInv
<1> DEFINE front == SubSeq(queue, 1, n)
           old == delivered \o queue
           new == delivered \o front
<1>2. front \in Seq(1 .. offered) /\ Len(front) = n /\ \A i \in 1 .. n : front[i] = queue[i]
  BY <1>1, FirstItems
<1>3. /\ Len(old) = Len(delivered) + Len(queue)
      /\ \A i \in 1 .. Len(delivered) + Len(queue) :
           old[i] = IF i <= Len(delivered) THEN delivered[i] ELSE queue[i - Len(delivered)]
  BY <1>1, ConcatProperties
<1>4. queue' = front /\ delivered' = delivered /\ offered' = offered /\ cut' = TRUE
  BY DEF Cut
<1>5. front \in Seq(1 .. offered)
  BY <1>2
<1> HIDE DEF front, old
<1>6. /\ Len(new) = Len(delivered) + Len(front)
      /\ \A i \in 1 .. Len(delivered) + Len(front) :
           new[i] = IF i <= Len(delivered) THEN delivered[i] ELSE front[i - Len(delivered)]
  BY <1>1, <1>5, ConcatProperties
<1> HIDE DEF new
<1>7. Len(new) \in Nat /\ Len(new) <= Len(old)
  BY <1>1, <1>2, <1>3, <1>6
<1>8. ASSUME NEW i \in 1 .. Len(new) PROVE new[i] = old[i]
  <2>1. CASE i <= Len(delivered)
    <3>1. i \in 1 .. Len(delivered) + Len(front) /\ i \in 1 .. Len(delivered) + Len(queue)
      BY <1>1, <1>2, <1>6, <2>1
    <3> QED BY <1>3, <1>6, <2>1, <3>1
  <2>2. CASE i > Len(delivered)
    <3>1. /\ i \in 1 .. Len(delivered) + Len(front) /\ i \in 1 .. Len(delivered) + Len(queue)
          /\ ~(i <= Len(delivered)) /\ i - Len(delivered) \in 1 .. n
      BY <1>1, <1>2, <1>6, <2>2
    <3> QED BY <1>2, <1>3, <1>6, <3>1
  <2> QED BY <1>1, <2>1, <2>2
<1>9. Through = old /\ Through' = new
  BY <1>4 DEF Through, old, new
<1> QED BY <1>1, <1>4, <1>5, <1>7, <1>8, <1>9 DEF TypeInv

(* A packet is dropped from behind Capacity others. *)
LEMMA DropStep ==
  ASSUME InOrder, NEW k \in DOMAIN queue, Drop(k)
  PROVE  InOrder' /\ offered' = offered /\ cut' = cut /\ k > Capacity /\ k <= Len(queue)
<1>1. TypeInv /\ Rising(delivered \o queue)
  BY DEF InOrder, Through
<1>2. /\ offered \in Nat /\ delivered \in Seq(1 .. offered) /\ queue \in Seq(1 .. offered)
      /\ k \in 1 .. Len(queue) /\ k <= Len(queue)
  BY <1>1, ThroughType DEF TypeInv
<1>3. /\ queue' = RemoveAt(queue, k) /\ offered' = offered /\ delivered' = delivered /\ cut' = cut
      /\ k > Capacity
  BY DEF Drop
<1>4. Rising(delivered \o RemoveAt(queue, k)) /\ RemoveAt(queue, k) \in Seq(1 .. offered)
  BY <1>1, <1>2, RisingWithout
<1>5. TypeInv'
  BY <1>1, <1>3, <1>4 DEF TypeInv
<1>6. Rising(Through')
  BY <1>3, <1>4 DEF Through
<1> QED BY <1>2, <1>3, <1>5, <1>6 DEF InOrder, Rising

(* An empty pipe is in order. *)
LEMMA OrderStarts == Init => InOrder
<1> SUFFICES ASSUME Init PROVE InOrder
  OBVIOUS
<1>1. offered = 0 /\ queue = <<>> /\ delivered = <<>> /\ cut = FALSE
  BY DEF Init
<1>2. <<>> \in Seq(1 .. offered)
  OBVIOUS
<1>3. TypeInv
  BY <1>1, <1>2 DEF TypeInv
<1>4. <<>> \o <<>> = <<>>
  BY <1>2, ConcatEmptySeq
<1>5. Through = <<>>
  BY <1>1, <1>4 DEF Through
<1>6. Len(<<>>) = 0
  OBVIOUS
<1>7. \A i \in 1 .. Len(Through) : FALSE
  BY <1>5, <1>6
<1> QED BY <1>3, <1>7 DEF InOrder, Rising

(* Every step of the pipe keeps the order. *)
LEMMA OrderStep == InOrder /\ [Next]_pipe => InOrder'
<1> SUFFICES ASSUME InOrder, [Next]_pipe PROVE InOrder'
  OBVIOUS
<1>0. TypeInv /\ Rising(Through)
  BY DEF InOrder
<1>1. CASE Offer
  <2>1. /\ offered \in Nat /\ offered' = offered + 1 /\ cut' = cut /\ delivered' = delivered
        /\ cut => queue' = queue /\ Through' = Through
        /\ ~cut => Through' = Append(Through, offered + 1)
    BY <1>0, <1>1, OfferStep
  <2>2. delivered' \in Seq(1 .. offered')
    BY <1>0, <2>1 DEF TypeInv
  <2>3. CASE cut
    <3>1. queue' \in Seq(1 .. offered')
      BY <1>0, <2>1, <2>3 DEF TypeInv
    <3>2. Rising(Through')
      BY <1>0, <2>1, <2>3
    <3> QED BY <1>0, <2>1, <2>2, <3>1, <3>2 DEF InOrder, TypeInv, Rising
  <2>4. CASE ~cut
    <3>1. queue' = Append(queue, offered + 1)
      BY <1>1, <2>4 DEF Offer
    <3>2. queue \in Seq(1 .. offered + 1) /\ offered + 1 \in 1 .. offered + 1
      BY <1>0, <2>1 DEF TypeInv
    <3>3. queue' \in Seq(1 .. offered')
      BY <2>1, <3>1, <3>2, AppendProperties
    <3>4. Through \in Seq(1 .. offered)
      BY <1>0, ThroughType
    <3>5. Rising(Append(Through, offered + 1))
      BY <1>0, <2>1, <3>4, RisingAppend
    <3>6. Rising(Through')
      BY <2>1, <2>4, <3>5
    <3> QED BY <1>0, <2>1, <2>2, <3>3, <3>6 DEF InOrder, TypeInv, Rising
  <2> QED BY <2>3, <2>4
<1>2. ASSUME NEW n \in DOMAIN queue, Deliver(n) PROVE InOrder'
  BY <1>0, <1>2, DeliverStep DEF InOrder, Rising
<1>3. ASSUME NEW n \in DOMAIN queue, Drop(n) PROVE InOrder'
  BY <1>3, DropStep
<1>4. ASSUME NEW n \in 0 .. Len(queue), Cut(n) PROVE InOrder'
  <2>1. /\ TypeInv' /\ offered' = offered
        /\ Len(Through') <= Len(Through) /\ Len(Through') \in Nat
        /\ \A i \in 1 .. Len(Through') : Through'[i] = Through[i]
    BY <1>0, <1>4, CutStep
  <2>2. Len(Through) \in Nat
    BY <1>0, ThroughType
  <2>3. \A i \in 1 .. Len(Through') : i \in 1 .. Len(Through)
    BY <2>1, <2>2
  <2>4. Rising(Through')
    BY <1>0, <2>1, <2>3 DEF Rising
  <2> QED BY <2>1, <2>4 DEF InOrder, Rising
<1>5. CASE UNCHANGED pipe
  BY <1>0, <1>5 DEF pipe, InOrder, TypeInv, Through, Rising
<1> QED BY <1>1, <1>2, <1>3, <1>4, <1>5 DEF Next

(* Packets come out of a pipe in the order in which they were put in, each at
   most once, and none that was not put in. *)
THEOREM Ordered == Spec => []InOrder
  BY OrderStarts, OrderStep, PTL DEF Spec

(* A step that adds no packet, as long as all are kept. *)
LEMMA GaplessStep ==
  ASSUME Capacity \in Nat, InOrder, Gapless, [Next]_pipe
  PROVE  Gapless'
<1> SUFFICES ASSUME offered' <= Capacity
             PROVE  /\ Through' = Numbered(Len(Through'))
                    /\ ~cut' => Len(Through') = offered'
  BY DEF Gapless, Numbered
<1>0. TypeInv /\ offered \in Nat
  BY DEF InOrder, TypeInv
<1>1. ASSUME offered' = offered
      PROVE  Through = Numbered(Len(Through)) /\ (~cut => Len(Through) = offered)
  BY <1>1 DEF Gapless
<1>2. ASSUME offered' = offered, Through' = Through, cut' = cut
      PROVE  /\ Through' = Numbered(Len(Through'))
             /\ ~cut' => Len(Through') = offered'
  BY <1>1, <1>2
<1>3. CASE Offer
  <2>1. /\ offered' = offered + 1 /\ cut' = cut
        /\ cut => queue' = queue /\ Through' = Through
        /\ ~cut => Through' = Append(Through, offered + 1)
    BY <1>0, <1>3, OfferStep
  <2>2. Through = Numbered(Len(Through)) /\ (~cut => Len(Through) = offered)
    <3>1. offered <= Capacity
      BY <1>0, <2>1
    <3> QED BY <3>1 DEF Gapless
  <2>3. CASE cut
    BY <2>1, <2>2, <2>3
  <2>4. CASE ~cut
    <3>1. Through = Numbered(offered)
      BY <2>2, <2>4
    <3>2. Append(Numbered(offered), offered + 1) = Numbered(offered + 1)
      BY <1>0, NumberNext
    <3>3. Through' = Numbered(offered + 1)
      BY <2>1, <2>4, <3>1, <3>2
    <3>4. Len(Numbered(offered + 1)) = offered + 1
      <4>1. offered + 1 \in Nat
        BY <1>0
      <4> QED BY <4>1, NumberNext
    <3> QED BY <2>1, <3>3, <3>4
  <2> QED BY <2>3, <2>4
<1>4. ASSUME NEW n \in DOMAIN queue, Deliver(n)
      PROVE  offered' = offered /\ Through' = Through /\ cut' = cut
  BY <1>0, <1>4, DeliverStep
<1>5. ASSUME NEW k \in DOMAIN queue, Drop(k) PROVE FALSE
  <2>1. offered' = offered /\ k > Capacity /\ k <= Len(queue)
    BY <1>5, DropStep
  <2>2. Through = Numbered(Len(Through)) /\ offered <= Capacity
    BY <1>1, <2>1
  <2>3. /\ Through \in Seq(1 .. offered) /\ Len(Through) = Len(delivered) + Len(queue)
        /\ Len(queue) \in Nat /\ Len(delivered) \in Nat /\ DOMAIN queue = 1 .. Len(queue)
    BY <1>0, ThroughType
  <2> DEFINE m == Len(Through)
  <2>4. m \in Nat /\ k <= m /\ m > 0
    BY <1>5, <2>1, <2>3
  <2>5. Through[m] = m
    <3>1. Numbered(m)[m] = m
      BY <2>4 DEF Numbered
    <3> QED BY <2>2, <3>1
  <2>6. Through[m] \in 1 .. offered
    <3>1. Through \in Seq(1 .. offered) /\ m \in 1 .. Len(Through)
      BY <2>3, <2>4
    <3> QED BY <3>1, ElementOfSeq
  <2> HIDE DEF m
  <2>7. k \in Nat
    BY <2>3
  <2> QED BY <1>0, <2>1, <2>2, <2>4, <2>5, <2>6, <2>7
<1>6. ASSUME NEW n \in 0 .. Len(queue), Cut(n)
      PROVE  Through' = Numbered(Len(Through')) /\ cut'
  <2>1. /\ TypeInv' /\ offered' = offered /\ cut'
        /\ Len(Through') <= Len(Through) /\ Len(Through') \in Nat
        /\ \A i \in 1 .. Len(Through') : Through'[i] = Through[i]
    BY <1>0, <1>6, CutStep
  <2>2. Through = Numbered(Len(Through)) /\ Len(Through) \in Nat
    BY <1>0, <1>1, <2>1, ThroughType
  <2>3. \A i \in 1 .. Len(Through) : Through[i] = i
    <3>1. \A i \in 1 .. Len(Through) : Numbered(Len(Through))[i] = i
      BY DEF Numbered
    <3> QED BY <2>2, <3>1
  <2>4. \A i \in 1 .. Len(Through') : Through'[i] = i
    BY <2>1, <2>2, <2>3
  <2>5. Through' \in Seq(Nat)
    <3>1. delivered' \in Seq(Nat) /\ queue' \in Seq(Nat)
      BY <2>1 DEF TypeInv
    <3> QED BY <3>1, ConcatProperties DEF Through
  <2>6. Through' = Numbered(Len(Through'))
    BY <2>4, <2>5, NumberedFront
  <2> QED BY <2>1, <2>6
<1>7. CASE UNCHANGED pipe
  BY <1>2, <1>7 DEF pipe, Through
<1> QED BY <1>2, <1>3, <1>4, <1>5, <1>6, <1>7 DEF Next

(* Up to Capacity packets a pipe has no gap, and while it is not cut all that
   was put in has come out or is on its way. *)
THEOREM KeepsCapacity == ASSUME Capacity \in Nat PROVE Spec => []Gapless
<1>1. Init => Gapless
  <2> SUFFICES ASSUME Init PROVE Gapless
    OBVIOUS
  <2>1. offered = 0 /\ queue = <<>> /\ delivered = <<>>
    BY DEF Init
  <2>2. <<>> \in Seq(Nat) /\ Len(<<>>) = 0
    OBVIOUS
  <2>3. Through = <<>>
    BY <2>1, <2>2, ConcatEmptySeq DEF Through
  <2>4. Through \in Seq(Nat) /\ Len(Through) = 0
    BY <2>2, <2>3
  <2>5. \A i \in 1 .. Len(Through) : Through[i] = i
    BY <2>4
  <2>6. Through = Numbered(Len(Through))
    BY <2>4, <2>5, NumberedFront
  <2> QED BY <2>1, <2>4, <2>6 DEF Gapless
<1>2. InOrder /\ Gapless /\ [Next]_pipe => Gapless'
  BY GaplessStep
<1> QED BY <1>1, <1>2, Ordered, PTL DEF Spec
-----------------------------------------------------------------------------
(* What has come out: packets that were put in, in order, each at most once,
   and with no gap if no more were put in than are kept. *)
Out ==
  /\ offered \in Nat /\ delivered \in Seq(1 .. offered) /\ Rising(delivered)
  /\ offered <= Capacity => delivered = Numbered(Len(delivered)) /\ Len(delivered) <= offered

(* It is a front of what went through. *)
LEMMA OutIsFront ==
  ASSUME InOrder, Gapless
  PROVE  Out
<1> DEFINE all == delivered \o queue
<1>1. offered \in Nat /\ delivered \in Seq(1 .. offered) /\ queue \in Seq(1 .. offered)
  BY DEF InOrder, TypeInv
<1>2. /\ Len(delivered) \in Nat /\ Len(queue) \in Nat /\ Len(all) = Len(delivered) + Len(queue)
      /\ \A i \in 1 .. Len(delivered) + Len(queue) :
           all[i] = IF i <= Len(delivered) THEN delivered[i] ELSE queue[i - Len(delivered)]
  BY <1>1, ConcatProperties, LenProperties
<1>3. Through = all
  BY DEF Through
<1> HIDE DEF all
<1>4. \A i \in 1 .. Len(delivered) : i \in 1 .. Len(all) /\ i \in 1 .. Len(delivered) + Len(queue)
  BY <1>2
<1>5. \A i \in 1 .. Len(delivered) : delivered[i] = all[i]
  BY <1>2, <1>4
<1>6. Rising(delivered)
  BY <1>3, <1>4, <1>5 DEF InOrder, Rising
<1>7. ASSUME offered <= Capacity
      PROVE  delivered = Numbered(Len(delivered)) /\ Len(delivered) <= offered
  <2>1. all = Numbered(Len(all))
    BY <1>3, <1>7 DEF Gapless
  <2>2. \A i \in 1 .. Len(all) : all[i] = i
    <3>1. \A i \in 1 .. Len(all) : Numbered(Len(all))[i] = i
      BY DEF Numbered
    <3> QED BY <2>1, <3>1
  <2>3. \A i \in 1 .. Len(delivered) : delivered[i] = i
    BY <1>4, <1>5, <2>2
  <2>4. delivered \in Seq(Nat)
    BY <1>1
  <2>5. delivered = Numbered(Len(delivered))
    BY <2>3, <2>4, NumberedFront
  <2>6. CASE Len(delivered) = 0
    BY <1>1, <2>5, <2>6
  <2>7. CASE Len(delivered) > 0
    <3>1. delivered \in Seq(1 .. offered) /\ Len(delivered) \in 1 .. Len(delivered)
      BY <1>1, <1>2, <2>7
    <3>2. delivered[Len(delivered)] \in 1 .. offered
      BY <3>1, ElementOfSeq
    <3>3. delivered[Len(delivered)] = Len(delivered)
      BY <2>3, <3>1
    <3> QED BY <1>1, <1>2, <2>5, <3>2, <3>3
  <2> QED BY <1>2, <2>6, <2>7
<1> QED BY <1>1, <1>6, <1>7 DEF Out

(* A pipe delivers packets that were put in, in order, each at most once, and
   without a gap as long as no more are put in than it keeps. *)
THEOREM ComesOut == ASSUME Capacity \in Nat PROVE Spec => []Out
  BY Ordered, KeepsCapacity, OutIsFront, PTL
=============================================================================
