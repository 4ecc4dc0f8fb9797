--------------------------- MODULE AppPipeProofs ----------------------------
(***************************************************************************)
(* Proof that one direction of a stream is a PacketPipe, from one Session  *)
(* to the other, whatever the other streams, the apps and the tasks do.    *)
(* The steps are looked at as what they do to the packets in the pipe;     *)
(* their numbers follow.                                                   *)
(***************************************************************************)
EXTENDS AppPipe, AppFrameProofs

(* The numbers of packets one behind the other. *)
LEMMA NumbersAre ==
  ASSUME NEW q \in Seq(Packets)
  PROVE  /\ Numbers(q) \in Seq(Nat) /\ Len(Numbers(q)) = Len(q)
         /\ \A i \in 1 .. Len(q) : Numbers(q)[i] = IF q[i][1] = From THEN q[i][2] ELSE 0
<1>1. Len(q) \in Nat /\ DOMAIN q = 1 .. Len(q) /\ \A i \in 1 .. Len(q) : q[i] \in Packets
  BY LenProperties, ElementOfSeq
<1>2. \A p \in Packets : p[2] \in Nat
  <2> SUFFICES ASSUME NEW e \in Ends, NEW p \in {e} \X (1 .. MaxPackets[e]) PROVE p[2] \in Nat
    BY DEF Packets
  <2> QED BY EndsAre
<1>3. Numbers(q) \in [1 .. Len(q) -> Nat]
  BY <1>1, <1>2 DEF Numbers
<1>4. \A i \in 1 .. Len(q) : Numbers(q)[i] = IF q[i][1] = From THEN q[i][2] ELSE 0
  BY <1>1 DEF Numbers
<1> HIDE DEF Numbers
<1> QED BY <1>1, <1>3, <1>4

(* The numbers of two queues one behind the other. *)
LEMMA NumbersConcat ==
  ASSUME NEW s \in Seq(Packets), NEW t \in Seq(Packets)
  PROVE  Numbers(s \o t) = Numbers(s) \o Numbers(t)
<1> DEFINE st == s \o t
           ns == Numbers(s)
           nt == Numbers(t)
           nst == Numbers(st)
           both == ns \o nt
<1>1. /\ st \in Seq(Packets) /\ Len(st) = Len(s) + Len(t)
      /\ \A i \in 1 .. Len(s) + Len(t) : st[i] = IF i <= Len(s) THEN s[i] ELSE t[i - Len(s)]
  BY ConcatProperties
<1>2. Len(s) \in Nat /\ Len(t) \in Nat
  BY LenProperties
<1>3. /\ ns \in Seq(Nat) /\ Len(ns) = Len(s)
      /\ \A i \in 1 .. Len(s) : ns[i] = IF s[i][1] = From THEN s[i][2] ELSE 0
      /\ nt \in Seq(Nat) /\ Len(nt) = Len(t)
      /\ \A i \in 1 .. Len(t) : nt[i] = IF t[i][1] = From THEN t[i][2] ELSE 0
  BY NumbersAre
<1> HIDE DEF st
<1>4. /\ nst \in Seq(Nat) /\ Len(nst) = Len(st)
      /\ \A i \in 1 .. Len(st) : nst[i] = IF st[i][1] = From THEN st[i][2] ELSE 0
  BY <1>1, NumbersAre
<1>0. ns \in Seq(Nat) /\ nt \in Seq(Nat)
  BY <1>3
<1> HIDE DEF ns, nt, nst
<1>5. /\ both \in Seq(Nat) /\ Len(both) = Len(ns) + Len(nt)
      /\ \A i \in 1 .. Len(ns) + Len(nt) : both[i] = IF i <= Len(ns) THEN ns[i] ELSE nt[i - Len(ns)]
  BY <1>0, ConcatProperties
<1> HIDE DEF both
<1>6. Len(nst) = Len(both) /\ Len(nst) = Len(s) + Len(t)
  BY <1>1, <1>3, <1>4, <1>5
<1>7. ASSUME NEW i \in 1 .. Len(nst) PROVE nst[i] = both[i]
  <2>1. CASE i <= Len(s)
    <3>1. i \in 1 .. Len(s) /\ i \in 1 .. Len(s) + Len(t)
      BY <1>2, <1>6, <2>1
    <3> QED BY <1>1, <1>3, <1>4, <1>5, <2>1, <3>1
  <2>2. CASE i > Len(s)
    <3>1. i - Len(s) \in 1 .. Len(t) /\ ~(i <= Len(s)) /\ i \in 1 .. Len(s) + Len(t)
      BY <1>2, <1>6, <2>2
    <3>2. st[i] = t[i - Len(s)] /\ both[i] = nt[i - Len(s)]
      BY <1>1, <1>3, <1>5, <3>1
    <3>3. nst[i] = IF st[i][1] = From THEN st[i][2] ELSE 0
      BY <1>1, <1>4, <3>1
    <3> QED BY <1>3, <3>1, <3>2, <3>3
  <2> QED BY <1>2, <1>6, <2>1, <2>2
<1>8. nst = both
  BY <1>4, <1>5, <1>6, <1>7, SeqEqual
<1> QED BY <1>8 DEF st, ns, nt, nst, both

(* The numbers of a part of a queue. *)
LEMMA NumbersPart ==
  ASSUME NEW q \in Seq(Packets), NEW k \in 0 .. Len(q)
  PROVE  /\ Numbers(SubSeq(q, 1, k)) = SubSeq(Numbers(q), 1, k)
         /\ Numbers(SubSeq(q, k + 1, Len(q))) = SubSeq(Numbers(q), k + 1, Len(Numbers(q)))
<1> DEFINE f == SubSeq(q, 1, k)
           r == SubSeq(q, k + 1, Len(q))
           nf == Numbers(f)
           nr == Numbers(r)
<1>1. /\ f \in Seq(Packets) /\ Len(f) = k /\ r \in Seq(Packets)
      /\ f \o r = q
  BY FirstItems, RestItems, SplitQueue
<1> HIDE DEF f, r
<1>2. Numbers(f \o r) = nf \o nr /\ nf \in Seq(Nat) /\ Len(nf) = k /\ nr \in Seq(Nat)
  BY <1>1, NumbersConcat, NumbersAre
<1> HIDE DEF nf, nr
<1>3. /\ SubSeq(nf \o nr, 1, Len(nf)) = nf
      /\ SubSeq(nf \o nr, Len(nf) + 1, Len(nf \o nr)) = nr
  BY <1>2, FrontAndBack
<1>4. SubSeq(Numbers(q), 1, k) = nf /\ SubSeq(Numbers(q), k + 1, Len(Numbers(q))) = nr
  BY <1>1, <1>2, <1>3
<1> QED BY <1>4 DEF f, r, nf, nr

(* The number of one more packet of the stream. *)
LEMMA NumbersAppend ==
  ASSUME NEW q \in Seq(Packets), NEW n \in 1 .. MaxPackets[From]
  PROVE  Numbers(Append(q, <<From, n>>)) = Append(Numbers(q), n)
<1> DEFINE p == <<From, n>>
           one == <<p>>
           nq == Numbers(q)
<1>1. p \in Packets /\ n \in Nat
  BY PacketIs, FromAssumption, EndsAre
<1>2. Numbers(one) = <<n>>
  <2>1. DOMAIN one = 1 .. 1 /\ one[1] = p /\ p[1] = From /\ p[2] = n
    OBVIOUS
  <2>2. Numbers(one) = [i \in 1 .. 1 |-> n]
    BY <2>1 DEF Numbers
  <2> QED BY <2>2
<1>3. one \in Seq(Packets) /\ nq \in Seq(Nat)
  BY <1>1, NumbersAre
<1> HIDE DEF p
<1>4. Append(q, p) = q \o one
  BY <1>1, AppendIsConcat
<1> HIDE DEF one
<1>5. Numbers(q \o one) = nq \o <<n>>
  BY <1>2, <1>3, NumbersConcat
<1> HIDE DEF nq
<1>6. nq \o <<n>> = Append(nq, n)
  BY <1>1, <1>3, AppendIsConcat
<1>7. Numbers(Append(q, p)) = Append(nq, n)
  BY <1>4, <1>5, <1>6
<1> QED BY <1>7 DEF p, nq
-----------------------------------------------------------------------------
(* The pipe as the steps see it: what is in its three parts. *)
PartsShape ==
  TypeOK => /\ inbound[To] \in Seq(Packets) /\ OnWire \in Seq(Packets) /\ ToSend \in Seq(Packets)
            /\ wire[From] \in Seq(Packets) /\ backlog[From] \in Seq(Packets)
            /\ received[To] \in Seq(Packets) /\ InPipe \in Seq(Packets)
            /\ InPipe = inbound[To] \o (OnWire \o ToSend)
            /\ pushed[From] \in Nat

(* The two ends of the stream. *)
LEMMA Direction ==
  /\ From \in Ends /\ To \in Ends /\ Peer[To] = From /\ Peer[From] = To
  /\ \A e \in Ends : (e = To => Peer[e] = From) /\ (e # From => Peer[e] # To)
                     /\ (e # To => Peer[e] # From)
  BY FromAssumption, EndsAre DEF To

(* The parts are sequences of packets, one behind the other. *)
LEMMA PartsAre == PartsShape
<1> SUFFICES ASSUME TypeOK
             PROVE  /\ inbound[To] \in Seq(Packets) /\ OnWire \in Seq(Packets) /\ ToSend \in Seq(Packets)
                    /\ wire[From] \in Seq(Packets) /\ backlog[From] \in Seq(Packets)
                    /\ received[To] \in Seq(Packets) /\ InPipe \in Seq(Packets)
                    /\ InPipe = inbound[To] \o (OnWire \o ToSend)
                    /\ pushed[From] \in Nat
  BY DEF PartsShape
<1>1. /\ inbound[To] \in Seq(Packets) /\ wire[From] \in Seq(Packets) /\ backlog[From] \in Seq(Packets)
      /\ received[To] \in Seq(Packets) /\ pushed[From] \in Nat
  BY Direction DEF TypeOK
<1>2. OnWire \in Seq(Packets) /\ ToSend \in Seq(Packets)
  BY <1>1 DEF OnWire, ToSend
<1>3. (inbound[To] \o OnWire) \o ToSend = inbound[To] \o (OnWire \o ToSend)
  <2> DEFINE q == inbound[To]
             w == OnWire
             s == ToSend
  <2>1. q \in Seq(Packets) /\ w \in Seq(Packets) /\ s \in Seq(Packets)
    BY <1>1, <1>2
  <2> HIDE DEF q, w, s
  <2>2. (q \o w) \o s = q \o (w \o s)
    BY <2>1, ConcatAssociative
  <2> QED BY <2>2 DEF q, w, s
<1>4. inbound[To] \o (OnWire \o ToSend) \in Seq(Packets)
  BY <1>1, <1>2, ConcatProperties
<1>5. InPipe = inbound[To] \o (OnWire \o ToSend)
  BY <1>3 DEF InPipe
<1> QED BY <1>1, <1>2, <1>4, <1>5

(* So they are in the next state. *)
LEMMA PartsNext == PartsShape'
  BY PartsAre, PTL

(* The mapped variables of the pipe are these. *)
LEMMA PipeIs ==
  /\ Pipe!pipe = <<pushed[From], Numbers(InPipe), Numbers(received[To]), Cut>>
  /\ Pipe!pipe' = <<pushed'[From], Numbers(InPipe'), Numbers(received'[To]), Cut'>>
  BY DEF Pipe!pipe, Numbers, To

(* A step that leaves the packets alone is none of the pipe. *)
LEMMA Stutters ==
  ASSUME UNCHANGED <<pushed[From], received[To]>>, InPipe' = InPipe, Cut' = Cut
  PROVE  UNCHANGED Pipe!pipe
  BY PipeIs DEF To

(* One more packet of the application. *)
LEMMA Offers ==
  ASSUME TypeOK, TypeOK', pushed'[From] = pushed[From] + 1, received'[To] = received[To], Cut' = Cut,
         InPipe' = IF Cut THEN InPipe ELSE Append(InPipe, <<From, pushed[From] + 1>>)
  PROVE  Pipe!Next
<1>1. InPipe \in Seq(Packets) /\ pushed[From] + 1 \in 1 .. MaxPackets[From]
  <2>1. pushed[From] \in Nat /\ pushed'[From] <= MaxPackets[From]
    BY Direction DEF TypeOK
  <2> QED BY <2>1, PartsAre, Direction, EndsAre DEF PartsShape
<1>2. Numbers(InPipe') = IF Cut THEN Numbers(InPipe) ELSE Append(Numbers(InPipe), pushed[From] + 1)
  <2> DEFINE n == pushed[From] + 1
  <2>1. n \in 1 .. MaxPackets[From]
    BY <1>1
  <2>2. Numbers(Append(InPipe, <<From, n>>)) = Append(Numbers(InPipe), n)
    <3> HIDE DEF n
    <3> QED BY <1>1, <2>1, NumbersAppend
  <2> QED BY <2>2
<1>3. Pipe!Offer
  BY <1>2 DEF Pipe!Offer, Numbers, To
<1> QED BY <1>3 DEF Pipe!Next

(* The first packets go to the receiver. *)
LEMMA Delivers ==
  ASSUME TypeOK, NEW n \in 1 .. Len(InPipe), pushed'[From] = pushed[From], Cut' = Cut,
         received'[To] = received[To] \o SubSeq(InPipe, 1, n),
         InPipe' = SubSeq(InPipe, n + 1, Len(InPipe))
  PROVE  Pipe!Next
<1>1. InPipe \in Seq(Packets) /\ received[To] \in Seq(Packets) /\ n \in 0 .. Len(InPipe)
  BY PartsAre DEF PartsShape
<1>2. SubSeq(InPipe, 1, n) \in Seq(Packets)
  BY <1>1, FirstItems
<1>3. Numbers(received'[To]) = Numbers(received[To]) \o SubSeq(Numbers(InPipe), 1, n)
  BY <1>1, <1>2, NumbersConcat, NumbersPart
<1>4. Numbers(InPipe') = SubSeq(Numbers(InPipe), n + 1, Len(Numbers(InPipe)))
  BY <1>1, NumbersPart
<1>5. n \in DOMAIN Numbers(InPipe)
  BY <1>1, NumbersAre, LenProperties
<1>6. Pipe!Deliver(n)
  BY <1>3, <1>4 DEF Pipe!Deliver, To
<1> QED BY <1>5, <1>6 DEF Pipe!Next

(* A packet is given back behind as many as the inbound channel holds. *)
LEMMA Drops ==
  ASSUME TypeOK, NEW k \in Nat, k >= InboundSize, k + 1 \in 1 .. Len(InPipe),
         UNCHANGED <<pushed[From], received[To]>>, Cut' = Cut,
         InPipe' = SubSeq(InPipe, 1, k) \o SubSeq(InPipe, k + 2, Len(InPipe))
  PROVE  Pipe!Next
<1>1. InPipe \in Seq(Packets) /\ k \in 0 .. Len(InPipe) /\ k + 1 \in 0 .. Len(InPipe)
      /\ k + 1 + 1 = k + 2 /\ k + 1 - 1 = k
  BY PartsAre, LenProperties DEF PartsShape
<1>2. SubSeq(InPipe, 1, k) \in Seq(Packets) /\ SubSeq(InPipe, k + 2, Len(InPipe)) \in Seq(Packets)
  BY <1>1, FirstItems, RestItems
<1>3. Numbers(InPipe') = SubSeq(Numbers(InPipe), 1, k)
                         \o SubSeq(Numbers(InPipe), k + 2, Len(Numbers(InPipe)))
  <2>1. Numbers(SubSeq(InPipe, 1, k)) = SubSeq(Numbers(InPipe), 1, k)
    BY <1>1, NumbersPart
  <2>2. Numbers(SubSeq(InPipe, k + 2, Len(InPipe))) = SubSeq(Numbers(InPipe), k + 2, Len(Numbers(InPipe)))
    BY <1>1, NumbersPart
  <2> QED BY <1>2, <2>1, <2>2, NumbersConcat
<1>4. k + 1 \in DOMAIN Numbers(InPipe) /\ k + 1 > InboundSize
  BY <1>1, NumbersAre, LenProperties, EndsAre
<1> DEFINE i == k + 1
           q == Numbers(InPipe)
<1>5. i - 1 = k /\ i + 1 = k + 2 /\ i \in DOMAIN q /\ i > InboundSize
  BY <1>1, <1>4
<1> HIDE DEF i
<1>6. Numbers(InPipe') = SubSeq(q, 1, i - 1) \o SubSeq(q, i + 1, Len(q))
  BY <1>3, <1>5
<1>7. Pipe!Drop(i)
  BY <1>5, <1>6 DEF Pipe!Drop, Pipe!RemoveAt, To
<1> QED BY <1>5, <1>7 DEF Pipe!Next

(* The pipe is cut behind its first packets. *)
LEMMA Cuts ==
  ASSUME TypeOK, NEW n \in 0 .. Len(InPipe), UNCHANGED <<pushed[From], received[To]>>, Cut',
         InPipe' = SubSeq(InPipe, 1, n)
  PROVE  Pipe!Next
<1>1. InPipe \in Seq(Packets)
  BY PartsAre DEF PartsShape
<1>2. Numbers(InPipe') = SubSeq(Numbers(InPipe), 1, n) /\ n \in 0 .. Len(Numbers(InPipe))
  BY <1>1, NumbersPart, NumbersAre
<1>3. Pipe!Cut(n)
  BY <1>2 DEF Pipe!Cut, To
<1> QED BY <1>2, <1>3 DEF Pipe!Next
-----------------------------------------------------------------------------
(* A step at which no task ends and no entity goes. *)
NoEnd ==
  \A e \in Ends : /\ entity'[e] = "gone" <=> entity[e] = "gone"
                  /\ \A h \in Halves : Ended(e, h)' <=> Ended(e, h)

(* Such a step cuts no pipe. *)
LEMMA CutStays ==
  ASSUME NoEnd
  PROVE  CutIn' = CutIn /\ CutOut' = CutOut /\ Cut' = Cut
<1>1. From \in Ends /\ To \in Ends /\ "send" \in Halves /\ "rec" \in Halves
  BY Direction DEF Halves
<1>2. /\ entity'[From] = "gone" <=> entity[From] = "gone"
      /\ entity'[To] = "gone" <=> entity[To] = "gone"
      /\ Ended(From, "send")' <=> Ended(From, "send")
      /\ Ended(To, "rec")' <=> Ended(To, "rec")
  BY <1>1 DEF NoEnd, To
<1>3. (CutIn' <=> CutIn) /\ (CutOut' <=> CutOut)
  BY <1>2 DEF CutIn, CutOut, To
<1>4. (Cut' <=> Cut) /\ Cut \in BOOLEAN /\ CutIn \in BOOLEAN /\ CutOut \in BOOLEAN
      /\ Cut' \in BOOLEAN /\ CutIn' \in BOOLEAN /\ CutOut' \in BOOLEAN
  BY <1>3 DEF Cut, CutIn, CutOut, Ended
<1> QED BY <1>3, <1>4

(* Neither the tasks, nor the entities, nor the tasks' channels: the reason is
   kept where it was. *)
LEMMA NoneEnds ==
  ASSUME UNCHANGED <<half, entity>>
  PROVE  NoEnd
  BY DEF NoEnd, Ended

(* A step that touches the packets of other streams only. *)
LEMMA Untouched ==
  ASSUME NoEnd, UNCHANGED <<pushed[From], backlog[From], wire[From]>>,
         inbound'[To] = inbound[To], received'[To] = received[To]
  PROVE  UNCHANGED Pipe!pipe
<1>1. CutIn' = CutIn /\ CutOut' = CutOut /\ Cut' = Cut
  BY CutStays
<1>2. OnWire' = OnWire /\ ToSend' = ToSend
  BY <1>1 DEF OnWire, ToSend
<1>3. InPipe' = InPipe
  BY <1>2 DEF InPipe, To
<1> QED BY <1>1, <1>3, Stutters DEF To
-----------------------------------------------------------------------------
(* aeronet_session_recv takes packets from the front of the pipe. *)
LEMMA ReceiveStep ==
  ASSUME TypeOK, TypeOK', NothingLeft, NEW a \in Apps, RecvEntity(a)
  PROVE  Pipe!Next \/ UNCHANGED Pipe!pipe
<1>1. PICK e \in Ends, n \in Nat :
         /\ n \in 0 .. Len(inbound[e])
         /\ inbound' = [inbound EXCEPT ![e] = SubSeq(inbound[e], n + 1, Len(inbound[e]))]
         /\ received' = [received EXCEPT ![e] = received[e] \o SubSeq(inbound[e], 1, n)]
  BY ServingIs
<1>2. NoEnd /\ UNCHANGED <<pushed, backlog, wire>>
  BY NoneEnds DEF RecvEntity
<1>3. CutOut' = CutOut /\ Cut' = Cut
  BY <1>2, CutStays
<1>4. OnWire' = OnWire /\ ToSend' = ToSend
  BY <1>2, <1>3 DEF OnWire, ToSend
<1>5. inbound \in [Ends -> Seq(Packets)] /\ received \in [Ends -> Seq(Packets)]
  BY DEF TypeOK
<1>6. CASE e # To
  BY <1>1, <1>2, <1>5, <1>6, Direction, Untouched
<1>7. CASE e = To /\ n = 0
  <2>1. SubSeq(inbound[To], 1, 0) = <<>> /\ SubSeq(inbound[To], 0 + 1, Len(inbound[To])) = inbound[To]
    BY PartsAre, SubSeqEmpty, SubSeqFull DEF PartsShape
  <2>2. received[To] \o <<>> = received[To]
    BY PartsAre, ConcatEmptySeq DEF PartsShape
  <2>3. inbound'[To] = inbound[To] /\ received'[To] = received[To]
    BY <1>1, <1>5, <1>7, <2>1, <2>2, Direction
  <2> QED BY <1>2, <2>3, Untouched
<1>8. CASE e = To /\ n > 0
  <2> DEFINE q == inbound[To]
             behind == OnWire \o ToSend
             rest == SubSeq(q, n + 1, Len(q))
  <2>1. q \in Seq(Packets) /\ behind \in Seq(Packets) /\ InPipe = q \o behind
    BY PartsAre, ConcatProperties DEF PartsShape
  <2>2. /\ inbound'[To] = rest /\ received'[To] = received[To] \o SubSeq(q, 1, n)
        /\ n \in 0 .. Len(q) /\ n > 0
    BY <1>1, <1>5, <1>8, Direction
  <2>3. InPipe' = inbound'[To] \o (OnWire' \o ToSend')
    BY PartsNext DEF PartsShape, To
  <2>4. InPipe' = rest \o behind
    BY <1>4, <2>2, <2>3
  <2> HIDE DEF q, behind
  <2>5. /\ SubSeq(q \o behind, 1, n) = SubSeq(q, 1, n)
        /\ SubSeq(q \o behind, n + 1, Len(q \o behind)) = rest \o behind
        /\ n \in 1 .. Len(q \o behind)
    <3>1. q \in Seq(Packets) /\ behind \in Seq(Packets) /\ n \in 0 .. Len(q) /\ n > 0
      BY <2>1, <2>2
    <3> QED BY <3>1, ServeFront
  <2> HIDE DEF rest
  <2>6. /\ n \in 1 .. Len(InPipe) /\ InPipe' = SubSeq(InPipe, n + 1, Len(InPipe))
        /\ received'[To] = received[To] \o SubSeq(InPipe, 1, n)
    BY <2>1, <2>2, <2>4, <2>5
  <2>7. pushed'[From] = pushed[From]
    BY <1>2
  <2> QED BY <1>3, <2>6, <2>7, Delivers
<1> QED BY <1>6, <1>7, <1>8

(* aeronet_session_send moves packets within the pipe, and none into a cut one. *)
LEMMA SendStep ==
  ASSUME TypeOK, TypeOK', NEW a \in Apps, SessionSend(a)
  PROVE  UNCHANGED Pipe!pipe
<1>1. PICK n \in [Ends -> Nat] :
         /\ \A e \in Ends : /\ n[e] \in 0 .. Len(backlog[e])
                            /\ n[e] > 0 => e \in Live(a) /\ ~Ended(e, "send")
         /\ wire' = [e \in Ends |-> wire[e] \o SubSeq(backlog[e], 1, n[e])]
         /\ backlog' = [e \in Ends |-> SubSeq(backlog[e], n[e] + 1, Len(backlog[e]))]
  BY SendingIs
<1>2. NoEnd /\ UNCHANGED <<pushed, inbound, received>>
  BY NoneEnds DEF SessionSend
<1>3. CutIn' = CutIn /\ CutOut' = CutOut /\ Cut' = Cut
  BY <1>2, CutStays
<1> DEFINE w == wire[From]
           b == backlog[From]
           k == n[From]
           first == SubSeq(b, 1, k)
           rest == SubSeq(b, k + 1, Len(b))
<1>4. /\ w \in Seq(Packets) /\ b \in Seq(Packets) /\ k \in 0 .. Len(b)
      /\ wire'[From] = w \o first /\ backlog'[From] = rest
      /\ k > 0 => entity[From] = "live" /\ ~Ended(From, "send")
  <2>1. k > 0 => From \in Live(a) /\ ~Ended(From, "send")
    BY <1>1, Direction
  <2>2. From \in Live(a) => entity[From] = "live"
    BY LiveAre
  <2> QED BY <1>1, <2>1, <2>2, PartsAre, Direction DEF PartsShape
<1>5. CASE ~Cut
  <2>1. OnWire = w /\ ToSend = b /\ OnWire' = w \o first /\ ToSend' = rest
    BY <1>3, <1>4, <1>5 DEF OnWire, ToSend, Cut
  <2>2. (w \o first) \o rest = w \o b
    <3> HIDE DEF w, b, k
    <3>1. first \in Seq(Packets) /\ rest \in Seq(Packets) /\ first \o rest = b
      BY <1>4, FirstItems, RestItems, SplitQueue
    <3> HIDE DEF first, rest
    <3>2. (w \o first) \o rest = w \o (first \o rest)
      <4>1. w \in Seq(Packets) /\ first \in Seq(Packets) /\ rest \in Seq(Packets)
        BY <1>4, <3>1
      <4> QED BY <4>1, ConcatAssociative, SMTT(30)
    <3> QED BY <3>1, <3>2
  <2>3. InPipe = inbound[To] \o (w \o b) /\ InPipe' = inbound'[To] \o ((w \o first) \o rest)
    <3>1. InPipe = inbound[To] \o (OnWire \o ToSend) /\ InPipe' = inbound'[To] \o (OnWire' \o ToSend')
      BY PartsAre, PartsNext DEF PartsShape, To
    <3> QED BY <2>1, <3>1
  <2>4. InPipe' = InPipe
    BY <1>2, <2>2, <2>3
  <2> QED BY <1>2, <1>3, <2>4, Stutters
<1>6. CASE Cut
  <2>1. ToSend = <<>> /\ ToSend' = <<>>
    BY <1>3, <1>6 DEF ToSend
  <2>2. OnWire' = OnWire
    <3>1. CASE CutOut
      BY <1>3, <3>1 DEF OnWire
    <3>2. CASE ~CutOut
      <4>1. k = 0
        BY <1>4, <1>6, <3>2 DEF Cut, CutIn
      <4>2. first = <<>> /\ w \o <<>> = w
        BY <1>4, <4>1, SubSeqEmpty, ConcatEmptySeq
      <4> QED BY <1>3, <1>4, <3>2, <4>2 DEF OnWire
    <3> QED BY <3>1, <3>2
  <2>3. InPipe' = InPipe
    BY <1>2, <2>1, <2>2 DEF InPipe, To
  <2> QED BY <1>2, <1>3, <2>3, Stutters
<1> QED BY <1>5, <1>6
-----------------------------------------------------------------------------
(* What an application pushes goes behind all that is in the pipe. *)
LEMMA PushStep ==
  ASSUME TypeOK, TypeOK', NEW e \in Ends, Push(e)
  PROVE  Pipe!Next \/ UNCHANGED Pipe!pipe
<1>1. /\ UNCHANGED <<half, entity, wire, inbound, received>>
      /\ pushed' = [pushed EXCEPT ![e] = pushed[e] + 1]
      /\ backlog' = [backlog EXCEPT ![e] = Append(backlog[e], <<e, pushed[e] + 1>>)]
  BY DEF Push, frame, stream
<1>2. NoEnd
  BY <1>1, NoneEnds
<1>3. CASE e # From
  <2>1. UNCHANGED <<pushed[From], backlog[From], wire[From]>>
    BY <1>1, <1>3, Direction DEF TypeOK
  <2> QED BY <1>1, <1>2, <2>1, Untouched DEF To
<1>4. CASE e = From
  <2> DEFINE x == <<From, pushed[From] + 1>>
             front == inbound[To] \o OnWire
             b == backlog[From]
  <2>1. CutOut' = CutOut /\ Cut' = Cut /\ OnWire' = OnWire
    BY <1>1, <1>2, CutStays DEF OnWire
  <2>2. pushed'[From] = pushed[From] + 1 /\ backlog'[From] = Append(b, x)
    BY <1>1, <1>4, Direction DEF TypeOK
  <2>3. InPipe' = front \o ToSend' /\ InPipe = front \o ToSend
    BY <1>1, <2>1 DEF InPipe, To
  <2>4. InPipe' = IF Cut THEN InPipe ELSE Append(InPipe, x)
    <3>1. CASE Cut
      BY <2>1, <2>3, <3>1 DEF ToSend
    <3>2. CASE ~Cut
      <4>1. ToSend = b /\ ToSend' = Append(b, x)
        BY <2>1, <2>2, <3>2 DEF ToSend
      <4>2. front \in Seq(Packets) /\ b \in Seq(Packets) /\ x \in Packets
        <5>1. front \in Seq(Packets) /\ b \in Seq(Packets)
          BY PartsAre, ConcatProperties DEF PartsShape
        <5>2. pushed[From] \in Nat /\ pushed'[From] <= MaxPackets[From]
          BY Direction DEF TypeOK
        <5>3. pushed[From] + 1 \in 1 .. MaxPackets[From]
          BY <2>2, <5>2, Direction, EndsAre
        <5> QED BY <5>1, <5>3, Direction, PacketIs
      <4> HIDE DEF front, b, x
      <4>3. front \o Append(b, x) = Append(front \o b, x)
        BY <4>2, ConcatAppend
      <4> QED BY <2>3, <3>2, <4>1, <4>3
    <3> QED BY <3>1, <3>2
  <2>5. received'[To] = received[To]
    BY <1>1
  <2> QED BY <2>1, <2>2, <2>4, <2>5, Offers
<1> QED BY <1>3, <1>4

(* A despawn at the end of a schedule cuts the pipe before the wire or behind
   it, or concerns other streams. *)
LEMMA ScheduleStep ==
  ASSUME TypeOK, TypeOK', CommandsFit, NEW a \in Apps, NextSchedule(a)
  PROVE  Pipe!Next \/ UNCHANGED Pipe!pipe
<1> DEFINE Gone == {e \in Ends : <<"despawn", e>> \in commands[a]}
<1>1. /\ UNCHANGED <<half, wire, pushed, received>>
      /\ entity' = [e \in Ends |-> IF e \in Gone THEN "gone"
                                   ELSE IF <<"insert", e>> \in commands[a] THEN "live"
                                   ELSE entity[e]]
      /\ backlog' = [e \in Ends |-> IF e \in Gone THEN <<>> ELSE backlog[e]]
      /\ inbound' = [e \in Ends |-> IF e \in Gone THEN <<>> ELSE inbound[e]]
  BY DEF NextSchedule
<1>2. \A e \in Ends : <<"insert", e>> \in commands[a] => entity[e] # "gone"
  BY DEF CommandsFit
<1> HIDE DEF Gone
<1>3. \A e \in Ends : entity'[e] = "gone" <=> (e \in Gone \/ entity[e] = "gone")
  BY <1>1, <1>2
<1>4. /\ CutIn' <=> (CutIn \/ From \in Gone)
      /\ CutOut' <=> (CutOut \/ To \in Gone)
  <2>1. /\ entity'[From] = "gone" <=> (From \in Gone \/ entity[From] = "gone")
        /\ entity'[To] = "gone" <=> (To \in Gone \/ entity[To] = "gone")
    BY <1>3, Direction
  <2>2. Ended(From, "send")' = Ended(From, "send") /\ Ended(To, "rec")' = Ended(To, "rec")
    BY <1>1 DEF Ended, To
  <2> QED BY <2>1, <2>2 DEF CutIn, CutOut, To
<1>5. UNCHANGED <<pushed[From], received[To]>>
  BY <1>1 DEF To
<1>6. InPipe = (inbound[To] \o OnWire) \o ToSend /\ InPipe' = (inbound'[To] \o OnWire') \o ToSend'
      /\ InPipe \in Seq(Packets) /\ <<>> \in Seq(Packets)
  BY PartsAre DEF InPipe, To, PartsShape
<1>7. CASE To \in Gone
  <2>1. inbound'[To] = <<>> /\ CutOut' /\ Cut'
    BY <1>1, <1>4, <1>7, Direction DEF Cut
  <2>2. OnWire' = <<>> /\ ToSend' = <<>>
    BY <2>1 DEF OnWire, ToSend
  <2>3. InPipe' = <<>>
    BY <1>6, <2>1, <2>2, ConcatEmptySeq
  <2>4. InPipe' = SubSeq(InPipe, 1, 0) /\ 0 \in 0 .. Len(InPipe)
    BY <1>6, <2>3, SubSeqEmpty, LenProperties
  <2> QED BY <1>5, <2>1, <2>4, Cuts
<1>8. CASE To \notin Gone /\ From \in Gone
  <2> DEFINE front == inbound[To] \o OnWire
  <2>1. inbound'[To] = inbound[To] /\ (CutOut' <=> CutOut) /\ Cut'
    BY <1>1, <1>4, <1>8, Direction DEF Cut
  <2>2. OnWire' = OnWire /\ ToSend' = <<>>
    BY <1>1, <2>1 DEF OnWire, ToSend
  <2>3. front \in Seq(Packets) /\ ToSend \in Seq(Packets)
    BY PartsAre, ConcatProperties DEF PartsShape
  <2>4. InPipe = front \o ToSend /\ InPipe' = front \o <<>>
    BY <1>6, <2>1, <2>2
  <2> HIDE DEF front
  <2>5. front \o <<>> = front /\ SubSeq(front \o ToSend, 1, Len(front)) = front
    BY <2>3, ConcatEmptySeq, FrontAndBack
  <2>6. Len(front) \in 0 .. Len(front \o ToSend)
    BY <2>3, ConcatProperties, LenProperties
  <2>7. InPipe' = SubSeq(InPipe, 1, Len(front)) /\ Len(front) \in 0 .. Len(InPipe)
    BY <2>4, <2>5, <2>6
  <2> QED BY <1>5, <2>1, <2>7, Cuts
<1>9. CASE To \notin Gone /\ From \notin Gone
  <2>1. (CutIn' <=> CutIn) /\ (CutOut' <=> CutOut)
    BY <1>4, <1>9
  <2>2. CutOut' = CutOut /\ Cut' = Cut
    BY <2>1 DEF CutIn, CutOut, Cut, Ended
  <2>3. inbound'[To] = inbound[To] /\ backlog'[From] = backlog[From] /\ wire'[From] = wire[From]
    BY <1>1, <1>9, Direction
  <2>4. OnWire' = OnWire /\ ToSend' = ToSend
    BY <2>2, <2>3 DEF OnWire, ToSend
  <2>5. InPipe' = InPipe
    BY <1>6, <2>3, <2>4
  <2> QED BY <1>5, <2>2, <2>5, Stutters
<1> QED BY <1>7, <1>8, <1>9
-----------------------------------------------------------------------------
(* Three queues, and the first item of the second taken out. *)
LEMMA WithoutItem ==
  ASSUME NEW S, NEW q \in Seq(S), NEW x \in S, NEW t \in Seq(S), NEW s \in Seq(S)
  PROVE  LET all == (q \o (<<x>> \o t)) \o s
         IN  /\ SubSeq(all, 1, Len(q)) \o SubSeq(all, Len(q) + 2, Len(all)) = (q \o t) \o s
             /\ Len(q) + 1 \in 1 .. Len(all)
<1>1. ASSUME NEW r \in Seq(S)
      PROVE  LET all == q \o (<<x>> \o r)
             IN  /\ Append(q, x) \o r = all
                 /\ SubSeq(all, 1, Len(q)) \o SubSeq(all, Len(q) + 2, Len(all)) = q \o r
                 /\ Len(q) + 1 \in 1 .. Len(all)
  BY ItemBetween
<1> DEFINE h == <<x>>
           xt == h \o t
           rest == t \o s
<1>2. h \in Seq(S)
  OBVIOUS
<1>3. xt \in Seq(S)
  BY <1>2, ConcatProperties
<1>4. rest \in Seq(S)
  BY ConcatProperties
<1>5. xt \o s = h \o rest
  <2> HIDE DEF h
  <2> QED BY <1>2, ConcatAssociative, SMTT(30)
<1>6. (q \o t) \o s = q \o rest
  BY ConcatAssociative
<1>7. (q \o xt) \o s = q \o (xt \o s)
  <2> HIDE DEF xt
  <2> QED BY <1>3, ConcatAssociative, SMTT(30)
<1> DEFINE all == q \o (h \o rest)
<1>8. /\ SubSeq(all, 1, Len(q)) \o SubSeq(all, Len(q) + 2, Len(all)) = q \o rest
      /\ Len(q) + 1 \in 1 .. Len(all)
  <2> HIDE DEF rest
  <2> QED BY <1>1, <1>4
<1>9. (q \o xt) \o s = all
  BY <1>5, <1>7
<1> HIDE DEF all, rest
<1> QED BY <1>6, <1>8, <1>9 DEF xt, h

(* A packet that arrives moves within the pipe, or is given back by a channel
   that is full. *)
LEMMA CarryStep ==
  ASSUME TypeOK, TypeOK', NEW e \in Ends, Carry(e)
  PROVE  Pipe!Next \/ UNCHANGED Pipe!pipe
<1>1. /\ wire[e] # <<>> /\ wire' = [wire EXCEPT ![e] = Tail(wire[e])]
      /\ inbound' = [inbound EXCEPT ![Peer[e]] =
                       IF NoRoom(Peer[e]) THEN inbound[Peer[e]] ELSE Append(inbound[Peer[e]], Head(wire[e]))]
      /\ UNCHANGED <<half, entity, pushed, backlog, received>>
  BY DEF Carry, Arriving, session
<1>2. NoEnd
  BY <1>1, NoneEnds
<1>3. CASE e # From
  <2>1. wire'[From] = wire[From] /\ inbound'[To] = inbound[To]
    BY <1>1, <1>3, Direction DEF TypeOK
  <2> QED BY <1>1, <1>2, <2>1, Untouched DEF To
<1>4. CASE e = From
  <2> DEFINE q == inbound[To]
             w == wire[From]
             s == ToSend
             h == Head(w)
             t == Tail(w)
  <2>1. CutOut' = CutOut /\ Cut' = Cut
    BY <1>2, CutStays
  <2>2. ToSend' = s /\ UNCHANGED <<pushed[From], received[To]>>
    BY <1>1, <2>1 DEF ToSend, To
  <2>3. /\ w # <<>> /\ wire'[From] = t
        /\ inbound'[To] = IF NoRoom(To) THEN q ELSE Append(q, h)
    BY <1>1, <1>4, Direction DEF TypeOK
  <2>4. InPipe = (q \o OnWire) \o s /\ InPipe' = (inbound'[To] \o OnWire') \o s
    BY <2>2 DEF InPipe, To
  <2>5. /\ q \in Seq(Packets) /\ w \in Seq(Packets) /\ s \in Seq(Packets)
        /\ h \in Packets /\ t \in Seq(Packets) /\ w = <<h>> \o t
    BY <2>3, PartsAre, HeadThenTail DEF PartsShape
  <2>6. CASE CutOut
    <3>1. NoRoom(To) /\ OnWire = <<>> /\ OnWire' = <<>>
      BY <2>1, <2>6 DEF CutOut, NoRoom, OnWire
    <3>2. InPipe' = InPipe
      BY <2>3, <2>4, <3>1
    <3> QED BY <2>1, <2>2, <3>2, Stutters
  <2>7. CASE ~CutOut
    <3>1. OnWire = w /\ OnWire' = t
      BY <2>1, <2>3, <2>7 DEF OnWire
    <3>2. CASE ~NoRoom(To)
      <4>1. Append(q, h) \o t = q \o w
        BY <2>3, <2>5, MoveHead
      <4>2. InPipe' = InPipe
        BY <2>3, <2>4, <3>1, <3>2, <4>1
      <4> QED BY <2>1, <2>2, <4>2, Stutters
    <3>3. CASE NoRoom(To)
      <4>1. Len(q) = InboundSize
        BY <2>7, <3>3 DEF NoRoom, CutOut
      <4>2. InPipe = (q \o w) \o s /\ InPipe' = (q \o t) \o s
        BY <2>3, <2>4, <3>1, <3>3
      <4> HIDE DEF q, w, s, h, t
      <4> DEFINE all == (q \o (<<h>> \o t)) \o s
      <4>3. /\ SubSeq(all, 1, Len(q)) \o SubSeq(all, Len(q) + 2, Len(all)) = (q \o t) \o s
            /\ Len(q) + 1 \in 1 .. Len(all)
        <5>1. q \in Seq(Packets) /\ s \in Seq(Packets) /\ h \in Packets /\ t \in Seq(Packets)
          BY <2>5
        <5> QED BY <5>1, WithoutItem
      <4>4. InPipe = all
        BY <2>5, <4>2
      <4> HIDE DEF all
      <4>7. /\ InPipe' = SubSeq(InPipe, 1, Len(q)) \o SubSeq(InPipe, Len(q) + 2, Len(InPipe))
            /\ Len(q) + 1 \in 1 .. Len(InPipe)
        BY <4>2, <4>3, <4>4
      <4>8. Len(q) \in Nat /\ Len(q) >= InboundSize
        BY <4>1, EndsAre
      <4> QED BY <2>1, <2>2, <4>7, <4>8, Drops
    <3> QED BY <3>2, <3>3
  <2> QED BY <2>6, <2>7
<1> QED BY <1>3, <1>4

(* An end elsewhere takes the packet that arrives. *)
LEMMA CarryElsewhereStep ==
  ASSUME TypeOK, TypeOK', ElsewhereUntouched, NEW e \in Ends, CarryElsewhere(e)
  PROVE  Pipe!Next \/ UNCHANGED Pipe!pipe
<1>1. /\ Peer[e] \notin Local /\ wire[e] # <<>> /\ wire' = [wire EXCEPT ![e] = Tail(wire[e])]
      /\ received' = [received EXCEPT ![Peer[e]] =
                        IF Ended(Peer[e], "rec") THEN received[Peer[e]]
                        ELSE Append(received[Peer[e]], Head(wire[e]))]
      /\ UNCHANGED <<half, entity, pushed, backlog, inbound>>
  BY DEF CarryElsewhere, Arriving
<1>2. NoEnd
  BY <1>1, NoneEnds
<1>3. CASE e # From
  <2>1. wire'[From] = wire[From] /\ received'[To] = received[To]
    BY <1>1, <1>3, Direction DEF TypeOK
  <2> QED BY <1>1, <1>2, <2>1, Untouched DEF To
<1>4. CASE e = From
  <2> DEFINE w == wire[From]
             s == ToSend
             r == received[To]
             h == Head(w)
             t == Tail(w)
  <2>1. CutOut' = CutOut /\ Cut' = Cut
    BY <1>2, CutStays
  <2>2. ToSend' = s /\ pushed'[From] = pushed[From]
    BY <1>1, <2>1 DEF ToSend
  <2>3. /\ w # <<>> /\ wire'[From] = t
        /\ received'[To] = IF Ended(To, "rec") THEN r ELSE Append(r, h)
    BY <1>1, <1>4, Direction DEF TypeOK
  <2>4. Home[To] = Elsewhere /\ entity[To] # "gone" /\ inbound[To] = <<>> /\ inbound'[To] = <<>>
    BY <1>1, <1>4, Direction, EndsAre DEF ElsewhereUntouched, To
  <2>5. /\ w \in Seq(Packets) /\ s \in Seq(Packets) /\ r \in Seq(Packets) /\ OnWire \in Seq(Packets)
        /\ h \in Packets /\ t \in Seq(Packets) /\ t \o s \in Seq(Packets)
        /\ OnWire \o s \in Seq(Packets) /\ OnWire' \in Seq(Packets) /\ OnWire' \o s \in Seq(Packets)
    <3>1. /\ w \in Seq(Packets) /\ s \in Seq(Packets) /\ r \in Seq(Packets) /\ OnWire \in Seq(Packets)
          /\ OnWire' \in Seq(Packets)
      BY PartsAre, PartsNext DEF PartsShape
    <3>2. h \in Packets /\ t \in Seq(Packets)
      BY <2>3, <3>1, HeadTailProperties
    <3> QED BY <3>1, <3>2, ConcatProperties
  <2>6. InPipe = OnWire \o s /\ InPipe' = OnWire' \o s
    <3>1. InPipe = <<>> \o (OnWire \o s) /\ InPipe' = <<>> \o (OnWire' \o s)
      BY <2>2, <2>4, PartsAre, PartsNext DEF PartsShape, To
    <3> QED BY <2>5, <3>1, ConcatEmptySeq
  <2>7. CASE CutOut
    <3>1. Ended(To, "rec") /\ OnWire = <<>> /\ OnWire' = <<>>
      BY <2>1, <2>4, <2>7 DEF CutOut, OnWire
    <3>2. InPipe' = InPipe /\ received'[To] = received[To]
      BY <2>3, <2>6, <3>1
    <3> QED BY <2>1, <2>2, <3>2, Stutters DEF To
  <2>8. CASE ~CutOut
    <3>1. OnWire = w /\ OnWire' = t /\ ~Ended(To, "rec")
      BY <2>1, <2>3, <2>8 DEF OnWire, CutOut
    <3>2. InPipe = w \o s /\ InPipe' = t \o s /\ received'[To] = Append(r, h)
      BY <2>3, <2>6, <3>1
    <3> HIDE DEF w, s, h, t, r
    <3>3. /\ SubSeq(w \o s, 1, 1) = <<h>> /\ SubSeq(w \o s, 2, Len(w \o s)) = t \o s
          /\ 1 \in DOMAIN (w \o s)
      BY <2>3, <2>5, HeadOff DEF h, t
    <3>4. Append(r, h) = r \o <<h>>
      BY <2>5, AppendIsConcat
    <3>5. /\ received'[To] = r \o SubSeq(InPipe, 1, 1)
          /\ InPipe' = SubSeq(InPipe, 1 + 1, Len(InPipe)) /\ 1 \in DOMAIN InPipe
      <4>1. received'[To] = r \o SubSeq(InPipe, 1, 1) /\ 1 \in DOMAIN InPipe
        BY <3>2, <3>3, <3>4
      <4>2. InPipe' = SubSeq(InPipe, 2, Len(InPipe))
        BY <3>2, <3>3
      <4>3. 1 + 1 = 2
        OBVIOUS
      <4> QED BY <4>1, <4>2, <4>3
    <3>6. 1 \in 1 .. Len(InPipe)
      BY <3>5, PartsAre, LenProperties DEF PartsShape
    <3>7. received'[To] = received[To] \o SubSeq(InPipe, 1, 1)
      BY <3>5 DEF r
    <3> QED BY <2>1, <2>2, <3>5, <3>6, <3>7, Delivers
  <2> QED BY <2>7, <2>8
<1> QED BY <1>3, <1>4
-----------------------------------------------------------------------------
(* Four queues, of which the two in the middle were one. *)
LEMMA FourQueues ==
  ASSUME NEW a \in Seq(Packets), NEW b \in Seq(Packets), NEW c \in Seq(Packets), NEW d \in Seq(Packets)
  PROVE  (a \o (b \o c)) \o d = (a \o b) \o (c \o d)
<1>1. a \o b \in Seq(Packets) /\ c \o d \in Seq(Packets)
  BY ConcatProperties
<1>2. (a \o b) \o c = a \o (b \o c)
  BY ConcatAssociative, SMTT(30)
<1>3. ((a \o b) \o c) \o d = (a \o b) \o (c \o d)
  <2> DEFINE ab == a \o b
  <2>1. ab \in Seq(Packets)
    BY <1>1
  <2> HIDE DEF ab
  <2>2. (ab \o c) \o d = ab \o (c \o d)
    BY <2>1, ConcatAssociative, SMTT(30)
  <2> QED BY <2>2 DEF ab
<1> QED BY <1>1, <1>2, <1>3

(* A send task that ends cuts the pipe somewhere on the wire, and a receive task
   behind its inbound channel. *)
LEMMA EndStep ==
  ASSUME TypeOK, TypeOK', NEW e \in Ends, NEW h \in Halves, TaskEnds(e, h)
  PROVE  Pipe!Next \/ UNCHANGED Pipe!pipe
<1>1. /\ half' = [half EXCEPT ![e][h] = "finished"]
      /\ UNCHANGED <<entity, pushed, backlog, inbound, received>>
      /\ h = "send" => \E n \in 0 .. Len(wire[e]) : wire' = [wire EXCEPT ![e] = SubSeq(wire[e], 1, n)]
      /\ h # "send" => wire' = [wire EXCEPT ![Peer[e]] = <<>>]
  BY DEF TaskEnds, frame, session
<1>2. \A x \in Ends, k \in Halves : (x # e \/ k # h) => (Ended(x, k)' <=> Ended(x, k))
  <2>1. half \in [Ends -> [Halves -> {"none", "running", "finished", "cached"}]]
    BY DEF TypeOK
  <2>2. \A x \in Ends, k \in Halves : (x # e \/ k # h) => half'[x][k] = half[x][k]
    BY <1>1, <2>1
  <2> QED BY <2>2 DEF Ended
<1>3. Ended(e, h)'
  <2>1. half \in [Ends -> [Halves -> {"none", "running", "finished", "cached"}]]
    BY DEF TypeOK
  <2>2. half'[e][h] = "finished"
    BY <1>1, <2>1
  <2> QED BY <2>2 DEF Ended
<1>4. /\ UNCHANGED <<pushed[From], received[To]>>
      /\ inbound'[To] = inbound[To] /\ backlog'[From] = backlog[From]
      /\ entity'[From] = entity[From] /\ entity'[To] = entity[To]
      /\ "send" \in Halves /\ "rec" \in Halves /\ "send" # "rec" /\ (h = "send" \/ h = "rec")
  BY <1>1 DEF To, Halves
<1> DEFINE q == inbound[To]
           w == wire[From]
           s == ToSend
<1>5. /\ q \in Seq(Packets) /\ w \in Seq(Packets) /\ s \in Seq(Packets) /\ OnWire \in Seq(Packets)
      /\ InPipe = q \o (OnWire \o s) /\ InPipe' = (q \o OnWire') \o ToSend'
      /\ InPipe = (q \o OnWire) \o s
  BY <1>4, PartsAre DEF PartsShape, InPipe, To
<1>6. CASE e = From /\ h = "send"
  <2>1. PICK n \in 0 .. Len(w) : wire'[From] = SubSeq(w, 1, n)
    BY <1>1, <1>6, Direction DEF TypeOK
  <2>2. CutIn' /\ Cut' /\ ToSend' = <<>>
    BY <1>3, <1>6 DEF CutIn, Cut, ToSend
  <2>3. (CutOut' <=> CutOut)
    <3>1. Ended(To, "rec")' <=> Ended(To, "rec")
      BY <1>2, <1>4, <1>6, Direction, SMTT(30) DEF To
    <3> QED BY <1>4, <3>1 DEF CutOut, To
  <2>4. CASE CutOut
    <3>1. OnWire = <<>> /\ OnWire' = <<>> /\ s = <<>>
      BY <2>3, <2>4 DEF OnWire, ToSend, Cut
    <3>2. InPipe' = InPipe
      BY <1>5, <2>2, <3>1
    <3>3. SubSeq(InPipe, 1, Len(InPipe)) = InPipe /\ Len(InPipe) \in 0 .. Len(InPipe)
      <4>1. InPipe \in Seq(Packets)
        BY PartsAre DEF PartsShape
      <4>2. Len(InPipe) \in Nat
        BY <4>1, LenProperties
      <4>3. SubSeq(InPipe, 1, Len(InPipe)) = InPipe
        BY <4>1, SubSeqFull
      <4> QED BY <4>2, <4>3
    <3> QED BY <1>4, <2>2, <3>2, <3>3, Cuts
  <2>5. CASE ~CutOut
    <3> DEFINE f == SubSeq(w, 1, n)
               r == SubSeq(w, n + 1, Len(w))
               front == q \o f
               back == r \o s
    <3>1. OnWire = w /\ OnWire' = f
      BY <2>1, <2>3, <2>5 DEF OnWire
    <3>2. InPipe = (q \o w) \o s /\ InPipe' = front \o <<>>
      BY <1>5, <2>2, <3>1
    <3> HIDE DEF q, w, s
    <3>3. f \in Seq(Packets) /\ r \in Seq(Packets) /\ f \o r = w
      BY <1>5, FirstItems, RestItems, SplitQueue
    <3> HIDE DEF f, r
    <3>4. (q \o (f \o r)) \o s = front \o back /\ front \in Seq(Packets) /\ back \in Seq(Packets)
      <4>1. q \in Seq(Packets) /\ s \in Seq(Packets) /\ f \in Seq(Packets) /\ r \in Seq(Packets)
        BY <1>5, <3>3
      <4>2. front \in Seq(Packets) /\ back \in Seq(Packets)
        BY <4>1, ConcatProperties
      <4>3. (q \o (f \o r)) \o s = (q \o f) \o (r \o s)
        BY <4>1, FourQueues, SMTT(60)
      <4> QED BY <4>2, <4>3
    <3> HIDE DEF front, back
    <3>5. InPipe = front \o back /\ InPipe' = front
      BY <3>2, <3>3, <3>4, ConcatEmptySeq
    <3>6. SubSeq(front \o back, 1, Len(front)) = front
      BY <3>4, FrontAndBack
    <3>7. Len(front) \in 0 .. Len(front \o back)
      BY <3>4, ConcatProperties, LenProperties
    <3>8. InPipe' = SubSeq(InPipe, 1, Len(front)) /\ Len(front) \in 0 .. Len(InPipe)
      BY <3>5, <3>6, <3>7
    <3> QED BY <1>4, <2>2, <3>8, Cuts
  <2> QED BY <2>4, <2>5
<1>7. CASE e = To /\ h = "rec"
  <2>1. CutOut' /\ Cut'
    BY <1>3, <1>7 DEF CutOut, Cut, To
  <2>2. OnWire' = <<>> /\ ToSend' = <<>>
    BY <2>1 DEF OnWire, ToSend
  <2> DEFINE behind == OnWire \o s
  <2>3. behind \in Seq(Packets)
    BY <1>5, ConcatProperties
  <2>4. InPipe = q \o behind /\ InPipe' = (q \o <<>>) \o <<>>
    BY <1>5, <2>2
  <2> HIDE DEF behind, q
  <2>5. q \o <<>> = q /\ SubSeq(q \o behind, 1, Len(q)) = q
    BY <1>5, <2>3, ConcatEmptySeq, FrontAndBack
  <2>6. Len(q) \in 0 .. Len(q \o behind)
    <3>1. q \in Seq(Packets)
      BY <1>5
    <3> QED BY <2>3, <3>1, ConcatProperties, LenProperties
  <2>7. InPipe' = SubSeq(InPipe, 1, Len(q)) /\ Len(q) \in 0 .. Len(InPipe)
    BY <2>4, <2>5, <2>6
  <2> QED BY <1>4, <2>1, <2>7, Cuts
<1>8. CASE ~(e = From /\ h = "send") /\ ~(e = To /\ h = "rec")
  <2>1. /\ Ended(From, "send")' <=> Ended(From, "send")
        /\ Ended(To, "rec")' <=> Ended(To, "rec")
    BY <1>2, <1>4, <1>8, Direction DEF To
  <2>2. (CutIn' <=> CutIn) /\ (CutOut' <=> CutOut)
    BY <1>4, <2>1 DEF CutIn, CutOut, To
  <2>3. Cut' = Cut
    BY <2>2 DEF CutIn, CutOut, Cut, Ended
  <2>4. wire'[From] = w
    <3>1. CASE h = "send"
      <4>1. e # From
        BY <1>8, <3>1
      <4>2. PICK n \in 0 .. Len(wire[e]) : wire' = [wire EXCEPT ![e] = SubSeq(wire[e], 1, n)]
        BY <1>1, <3>1
      <4> QED BY <4>1, <4>2, Direction DEF TypeOK
    <3>2. CASE h = "rec"
      <4>1. Peer[e] # From
        BY <1>8, <3>2, Direction
      <4> QED BY <1>1, <1>4, <3>2, <4>1, Direction DEF TypeOK
    <3> QED BY <1>4, <3>1, <3>2
  <2>5. OnWire' = OnWire /\ ToSend' = s
    BY <1>4, <2>2, <2>3, <2>4 DEF OnWire, ToSend
  <2>6. InPipe' = InPipe
    BY <1>5, <2>5
  <2> QED BY <1>4, <2>3, <2>6, Stutters
<1> QED BY <1>6, <1>7, <1>8

(* What an end elsewhere sends is put on the wire at once: it has no session. *)
LEMMA SendElsewhereStep ==
  ASSUME TypeOK, TypeOK', ElsewhereUntouched, NEW e \in Ends, SendElsewhere(e)
  PROVE  Pipe!Next \/ UNCHANGED Pipe!pipe
<1>1. /\ Home[e] = Elsewhere /\ half[e]["send"] = "running"
      /\ pushed' = [pushed EXCEPT ![e] = pushed[e] + 1]
      /\ wire' = [wire EXCEPT ![e] = Append(wire[e], <<e, pushed[e] + 1>>)]
      /\ UNCHANGED <<half, entity, backlog, inbound, received>>
  BY DEF SendElsewhere
<1>2. NoEnd
  BY <1>1, NoneEnds
<1>3. CASE e # From
  <2>1. wire'[From] = wire[From] /\ pushed'[From] = pushed[From]
    BY <1>1, <1>3, Direction DEF TypeOK
  <2> QED BY <1>1, <1>2, <2>1, Untouched DEF To
<1>4. CASE e = From
  <2> DEFINE q == inbound[To]
             w == wire[From]
             x == <<From, pushed[From] + 1>>
  <2>1. (CutOut' = CutOut) /\ (Cut' = Cut)
    BY <1>2, CutStays
  <2>2. backlog[From] = <<>> /\ Cut = CutOut
    <3>1. entity[From] # "gone" /\ backlog[From] = <<>> /\ ~Ended(From, "send")
      BY <1>1, <1>4, Direction DEF ElsewhereUntouched, Ended
    <3>2. CutOut \in BOOLEAN /\ ~CutIn
      BY <3>1 DEF CutIn, CutOut, Ended
    <3> QED BY <3>1, <3>2 DEF Cut
  <2>3. ToSend = <<>> /\ ToSend' = <<>>
    BY <1>1, <2>2 DEF ToSend
  <2>4. pushed'[From] = pushed[From] + 1 /\ wire'[From] = Append(w, x) /\ received'[To] = received[To]
    BY <1>1, <1>4, Direction, ZenonT(40) DEF TypeOK, To
  <2>5. q \in Seq(Packets) /\ w \in Seq(Packets) /\ x \in Packets
    <3>1. pushed[From] \in Nat /\ pushed'[From] <= MaxPackets[From]
      BY Direction DEF TypeOK
    <3>2. pushed[From] + 1 \in 1 .. MaxPackets[From]
      BY <2>4, <3>1, Direction, EndsAre
    <3> QED BY <3>2, PartsAre, PacketIs, Direction DEF PartsShape
  <2>6. InPipe = q \o OnWire /\ InPipe' = q \o OnWire'
    <3> DEFINE front == q \o OnWire
               next == q \o OnWire'
    <3>1. InPipe = front \o <<>> /\ InPipe' = next \o <<>>
      BY <1>1, <2>3 DEF InPipe, To
    <3>2. front \in Seq(Packets) /\ next \in Seq(Packets)
      BY <2>5, PartsAre, PartsNext, ConcatProperties DEF PartsShape
    <3> HIDE DEF front, next
    <3>3. front \o <<>> = front /\ next \o <<>> = next
      BY <3>2, ConcatEmptySeq
    <3>4. InPipe = front /\ InPipe' = next
      BY <3>1, <3>3
    <3> QED BY <3>4 DEF front, next
  <2>7. InPipe' = IF Cut THEN InPipe ELSE Append(InPipe, x)
    <3>1. CASE Cut
      <4>1. OnWire = <<>> /\ OnWire' = <<>>
        BY <2>1, <2>2, <3>1 DEF OnWire
      <4> QED BY <2>6, <3>1, <4>1
    <3>2. CASE ~Cut
      <4>1. OnWire = w /\ OnWire' = Append(w, x)
        BY <2>1, <2>2, <2>4, <3>2 DEF OnWire
      <4> HIDE DEF q, w, x
      <4>2. q \o Append(w, x) = Append(q \o w, x)
        BY <2>5, ConcatAppend
      <4> QED BY <2>6, <3>2, <4>1, <4>2
    <3> QED BY <3>1, <3>2
  <2> QED BY <2>1, <2>4, <2>7, Offers
<1> QED BY <1>3, <1>4
-----------------------------------------------------------------------------
(* Every step is a step of the pipe or none: an application offers, the other
   end is given packets, a full channel drops, and an end cuts. *)
LEMMA PipeStep ==
  ASSUME IInv, [Next]_vars
  PROVE  Pipe!Next \/ UNCHANGED Pipe!pipe
<1> USE DEF frame, stream, session
<1>0. TypeOK /\ TypeOK' /\ CommandsFit /\ NothingLeft /\ ElsewhereUntouched
  BY TypeStep DEF IInv
<1>1. ASSUME NEW a \in Apps, StartRecv(a) PROVE Pipe!Next \/ UNCHANGED Pipe!pipe
  <2>1. UNCHANGED <<half, entity, pushed, backlog, wire, inbound, received>>
    BY <1>1 DEF StartRecv
  <2> QED BY <2>1, NoneEnds, Untouched DEF To
<1>2. ASSUME NEW a \in Apps, RecvEntity(a) PROVE Pipe!Next \/ UNCHANGED Pipe!pipe
  BY <1>0, <1>2, ReceiveStep
<1>3. ASSUME NEW a \in Apps, SessionSend(a) PROVE Pipe!Next \/ UNCHANGED Pipe!pipe
  BY <1>0, <1>3, SendStep
<1>4. ASSUME NEW a \in Apps, Attempts(a) PROVE Pipe!Next \/ UNCHANGED Pipe!pipe
  <2>1. UNCHANGED <<half, entity, pushed, backlog, wire, inbound, received>>
    BY <1>4 DEF Attempts
  <2> QED BY <2>1, NoneEnds, Untouched DEF To
<1>5. ASSUME NEW a \in Apps, RecDisconnections(a) PROVE Pipe!Next \/ UNCHANGED Pipe!pipe
  <2>1. Cache(a, "rec") /\ UNCHANGED <<entity, pushed, backlog, wire, inbound, received>>
    BY <1>5 DEF RecDisconnections, HandleDisconnections
  <2>2. NoEnd
    BY <1>0, <2>1, CacheKeepsEnd DEF NoEnd, Halves
  <2> QED BY <2>1, <2>2, Untouched DEF To
<1>6. ASSUME NEW a \in Apps, SendDisconnections(a) PROVE Pipe!Next \/ UNCHANGED Pipe!pipe
  <2>1. Cache(a, "send") /\ UNCHANGED <<entity, pushed, backlog, wire, inbound, received>>
    BY <1>6 DEF SendDisconnections, HandleDisconnections
  <2>2. NoEnd
    BY <1>0, <2>1, CacheKeepsEnd DEF NoEnd, Halves
  <2> QED BY <2>1, <2>2, Untouched DEF To
<1>7. ASSUME NEW a \in Apps, ApplicationDone(a) PROVE Pipe!Next \/ UNCHANGED Pipe!pipe
  <2>1. UNCHANGED <<half, entity, pushed, backlog, wire, inbound, received>>
    BY <1>7 DEF ApplicationDone
  <2> QED BY <2>1, NoneEnds, Untouched DEF To
<1>8. ASSUME NEW a \in Apps, FireSend(a) PROVE Pipe!Next \/ UNCHANGED Pipe!pipe
  <2>1. Cache(a, "rec") /\ UNCHANGED <<entity, pushed, backlog, wire, inbound, received>>
    BY <1>8 DEF FireSend, Fire
  <2>2. NoEnd
    BY <1>0, <2>1, CacheKeepsEnd DEF NoEnd, Halves
  <2> QED BY <2>1, <2>2, Untouched DEF To
<1>9. ASSUME NEW a \in Apps, FireRec(a) PROVE Pipe!Next \/ UNCHANGED Pipe!pipe
  <2>1. Cache(a, "send") /\ UNCHANGED <<entity, pushed, backlog, wire, inbound, received>>
    BY <1>9 DEF FireRec, Fire
  <2>2. NoEnd
    BY <1>0, <2>1, CacheKeepsEnd DEF NoEnd, Halves
  <2> QED BY <2>1, <2>2, Untouched DEF To
<1>10. ASSUME NEW a \in Apps, NextSchedule(a) PROVE Pipe!Next \/ UNCHANGED Pipe!pipe
  BY <1>0, <1>10, ScheduleStep
<1>11. ASSUME NEW e \in Ends, Push(e) PROVE Pipe!Next \/ UNCHANGED Pipe!pipe
  BY <1>0, <1>11, PushStep
<1>12. ASSUME NEW e \in Ends, Consume(e) PROVE Pipe!Next \/ UNCHANGED Pipe!pipe
  <2>1. UNCHANGED <<half, entity, pushed, backlog, wire, inbound, received>>
    BY <1>12 DEF Consume
  <2> QED BY <2>1, NoneEnds, Untouched DEF To
<1>13. ASSUME NEW e \in Ends, Disconnect(e) PROVE Pipe!Next \/ UNCHANGED Pipe!pipe
  <2>1. UNCHANGED <<half, entity, pushed, backlog, wire, inbound, received>>
    BY <1>13 DEF Disconnect
  <2> QED BY <2>1, NoneEnds, Untouched DEF To
<1>14. ASSUME NEW e \in Ends, Despawn(e) PROVE Pipe!Next \/ UNCHANGED Pipe!pipe
  <2>1. UNCHANGED <<half, entity, pushed, backlog, wire, inbound, received>>
    BY <1>14 DEF Despawn
  <2> QED BY <2>1, NoneEnds, Untouched DEF To
<1>15. ASSUME NEW e \in Ends, TasksStart(e) PROVE Pipe!Next \/ UNCHANGED Pipe!pipe
  <2>1. /\ half' = [half EXCEPT ![e] = [h \in Halves |-> "running"]]
        /\ \A h \in Halves : half[e][h] = "none"
        /\ entity' = IF Home[e] = Elsewhere THEN [entity EXCEPT ![e] = "live"] ELSE entity
        /\ UNCHANGED <<pushed, backlog, wire, inbound, received>>
    BY <1>15 DEF TasksStart
  <2>2. Home[e] = Elsewhere => entity[e] # "gone"
    BY <1>0 DEF ElsewhereUntouched
  <2>3. \A x \in Ends : entity'[x] = "gone" <=> entity[x] = "gone"
    BY <1>0, <2>1, <2>2 DEF TypeOK
  <2>4. \A x \in Ends, h \in Halves : Ended(x, h)' <=> Ended(x, h)
    BY <1>0, <2>1 DEF Ended, TypeOK
  <2>5. NoEnd
    BY <2>3, <2>4 DEF NoEnd
  <2> QED BY <2>1, <2>5, Untouched DEF To
<1>16. ASSUME NEW e \in Ends, Carry(e) PROVE Pipe!Next \/ UNCHANGED Pipe!pipe
  BY <1>0, <1>16, CarryStep
<1>17. ASSUME NEW e \in Ends, CarryElsewhere(e) PROVE Pipe!Next \/ UNCHANGED Pipe!pipe
  BY <1>0, <1>17, CarryElsewhereStep
<1>18. ASSUME NEW e \in Ends, SendElsewhere(e) PROVE Pipe!Next \/ UNCHANGED Pipe!pipe
  BY <1>0, <1>18, SendElsewhereStep
<1>19. ASSUME NEW e \in Ends, NEW h \in Halves, TaskEnds(e, h) PROVE Pipe!Next \/ UNCHANGED Pipe!pipe
  BY <1>0, <1>19, EndStep
<1>20. CASE UNCHANGED vars
  <2>1. UNCHANGED <<half, entity, pushed, backlog, wire, inbound, received>>
    BY <1>20 DEF vars
  <2> QED BY <2>1, NoneEnds, Untouched DEF To
<1> QED BY <1>1, <1>2, <1>3, <1>4, <1>5, <1>6, <1>7, <1>8, <1>9, <1>10, <1>11, <1>12,
           <1>13, <1>14, <1>15, <1>16, <1>17, <1>18, <1>19, <1>20
        DEF Next, Frame, User, Network, EndsByItself, EndsWhenTold

(* End to end, for each stream among any number of them: what one application
   pushes into its session comes out of the other's in order, each packet at
   most once and none of another entity's; a packet goes missing only behind an
   inbound channel that is full, or from the end when the stream is cut. *)
THEOREM ImplementsPipe == Spec => EndToEnd
<1>1. Init => Pipe!Init
  <2> SUFFICES ASSUME Init PROVE Pipe!Init
    OBVIOUS
  <2>1. /\ pushed[From] = 0 /\ received[To] = <<>> /\ inbound[To] = <<>>
        /\ wire[From] = <<>> /\ backlog[From] = <<>>
        /\ entity[From] = "attempt" /\ entity[To] = "attempt"
        /\ half[From]["send"] = "none" /\ half[To]["rec"] = "none"
    BY Direction DEF Init, Halves
  <2>2. Cut = FALSE
    BY <2>1 DEF Cut, CutIn, CutOut, Ended
  <2>3. InPipe = <<>>
    <3>1. OnWire = <<>> /\ ToSend = <<>> /\ <<>> \in Seq(Packets)
      BY <2>1 DEF OnWire, ToSend
    <3>2. <<>> \o <<>> = <<>>
      BY <3>1, ConcatEmptySeq
    <3> QED BY <2>1, <3>1, <3>2 DEF InPipe
  <2>4. Numbers(<<>>) = <<>>
    <3>1. <<>> \in Seq(Packets) /\ Len(<<>>) = 0
      BY EmptySeq
    <3>2. Numbers(<<>>) \in Seq(Nat) /\ Len(Numbers(<<>>)) = 0
      BY <3>1, NumbersAre
    <3> QED BY <3>2, EmptySeq
  <2> QED BY <2>1, <2>2, <2>3, <2>4 DEF Pipe!Init
<1>2. IInv /\ [Next]_vars => [Pipe!Next]_(Pipe!pipe)
  BY PipeStep
<1> QED BY Invariance, <1>1, <1>2, PTL DEF Spec, EndToEnd, Pipe!Spec
-----------------------------------------------------------------------------
(* What PacketPipeProofs shows of every pipe holds of a direction's. *)
P == INSTANCE PacketPipeProofs WITH
  Capacity <- InboundSize, offered <- pushed[From], queue <- Numbers(InPipe),
  delivered <- Numbers(received[To]), cut <- Cut

(* The pipe of the refinement is one of those the theorems are about. *)
LEMMA SamePipe == EndToEnd => P!Spec
<1>1. Pipe!Init => P!Init
  BY DEF Pipe!Init, P!Init
<1>2. [Pipe!Next]_(Pipe!pipe) => [P!Next]_(P!pipe)
  BY DEF Pipe!Next, P!Next, Pipe!pipe, P!pipe, Pipe!Offer, P!Offer, Pipe!Deliver, P!Deliver,
         Pipe!Drop, P!Drop, Pipe!Cut, P!Cut, Pipe!RemoveAt, P!RemoveAt
<1> QED BY <1>1, <1>2, PTL DEF EndToEnd, Pipe!Spec, P!Spec

(* The packets that a session was given: all of its own peer, in the order in
   which that pushed them. *)
OwnInOrder ==
  LET got == received[To]
  IN  /\ \A i \in 1 .. Len(got) : got[i][1] = From /\ got[i][2] \in 1 .. pushed[From]
      /\ \A i, j \in 1 .. Len(got) : i < j => got[i][2] < got[j][2]

(* No session is ever given a packet of another entity's stream, though one
   buffer goes around all of them in a frame, and none is given one twice or
   out of order: every packet in it was pushed at the other end, which is any. *)
THEOREM NoForeignPacket == Spec => []OwnInOrder
<1>1. Spec => []TypeOK
  BY TypeCorrect
<1>2. P!Spec => []P!Out
  <2>1. InboundSize \in Nat
    BY ConstantsAssumption DEF ConstantsAssumption
  <2> QED BY <2>1, P!ComesOut
<1>3. ASSUME TypeOK, P!Out PROVE OwnInOrder
  <2> DEFINE got == received[To]
             nums == Numbers(got)
  <2>1. got \in Seq(Packets) /\ To \in Ends
    BY <1>3, Direction DEF TypeOK
  <2>2. pushed[From] \in Nat /\ nums \in Seq(1 .. pushed[From]) /\ P!Rising(nums)
    BY <1>3 DEF P!Out
  <2>3. Len(nums) = Len(got) /\ Len(got) \in Nat /\ DOMAIN got = 1 .. Len(got)
    BY <2>1, NumbersAre, LenProperties
  <2>4. \A i \in 1 .. Len(got) : nums[i] = IF got[i][1] = From THEN got[i][2] ELSE 0
    BY <2>3 DEF Numbers
  <2> HIDE DEF nums, got
  <2>5. ASSUME NEW i \in 1 .. Len(got)
        PROVE  nums[i] = got[i][2] /\ got[i][1] = From /\ got[i][2] \in 1 .. pushed[From]
    <3>1. nums[i] \in 1 .. pushed[From]
      BY <2>2, <2>3, ElementOfSeq
    <3> QED BY <2>2, <2>4, <3>1
  <2>6. ASSUME NEW i \in 1 .. Len(got), NEW j \in 1 .. Len(got), i < j
        PROVE  got[i][2] < got[j][2]
    BY <2>2, <2>3, <2>5, <2>6 DEF P!Rising
  <2> QED BY <2>5, <2>6 DEF OwnInOrder, got
<1> QED BY <1>1, <1>2, <1>3, ImplementsPipe, SamePipe, PTL
=============================================================================
