----------------------------- MODULE QueueLemmas -----------------------------
(***************************************************************************)
(* Lemmas about sequences used as queues, which pass their first items on  *)
(* to the queue in front of them.  The proofs about the streams rest on    *)
(* them: every channel, batch and backlog of the code is such a queue.     *)
(***************************************************************************)
EXTENDS Naturals, Sequences, SequenceTheorems, TLAPS

(* An item put behind two queues is put behind the second. *)
LEMMA ConcatAppend ==
  ASSUME NEW S, NEW a \in Seq(S), NEW b \in Seq(S), NEW x \in S
  PROVE  a \o Append(b, x) = Append(a \o b, x)
<1>1. <<x>> \in Seq(S) /\ a \o b \in Seq(S)
  BY ConcatProperties
<1>2. Append(b, x) = b \o <<x>> /\ Append(a \o b, x) = (a \o b) \o <<x>>
  BY <1>1, AppendIsConcat
<1> QED BY <1>1, <1>2, ConcatAssociative

(* The head of a queue moves to the end of the one in front. *)
LEMMA MoveHead ==
  ASSUME NEW S, NEW a \in Seq(S), NEW b \in Seq(S), b # <<>>
  PROVE  Append(a, Head(b)) \o Tail(b) = a \o b
<1>1. Head(b) \in S /\ Tail(b) \in Seq(S) /\ <<Head(b)>> \in Seq(S)
  BY HeadTailProperties
<1>2. Len(b) \in Nat \ {0}
  BY EmptySeq
<1>3. b = <<Head(b)>> \o Tail(b)
  <2>1. b = SubSeq(b, 1, Len(b)) /\ Tail(b) = SubSeq(b, 2, Len(b))
    BY SubSeqFull, TailIsSubSeq
  <2>2. SubSeq(b, 1, Len(b)) = <<b[1]>> \o SubSeq(b, 1 + 1, Len(b))
    BY <1>2, SubSeqRecursiveFirst
  <2> QED BY <2>1, <2>2, <1>2
<1>4. Append(a, Head(b)) = a \o <<Head(b)>>
  BY <1>1, AppendIsConcat
<1>5. (a \o <<Head(b)>>) \o Tail(b) = a \o (<<Head(b)>> \o Tail(b))
  BY <1>1, ConcatAssociative
<1> QED BY <1>3, <1>4, <1>5

(* The first k items of a queue. *)
LEMMA FirstItems ==
  ASSUME NEW S, NEW q \in Seq(S), NEW k \in 0 .. Len(q)
  PROVE  /\ SubSeq(q, 1, k) \in Seq(S) /\ Len(SubSeq(q, 1, k)) = k
         /\ \A i \in 1 .. k : SubSeq(q, 1, k)[i] = q[i]
<1>1. Len(q) \in Nat
  BY LenProperties
<1>2. 1 \in Int /\ k \in Int /\ \A i \in 1 .. k : q[i] \in S
  BY <1>1, ElementOfSeq
<1>3. /\ SubSeq(q, 1, k) \in Seq(S)
      /\ Len(SubSeq(q, 1, k)) = IF 1 <= k THEN k - 1 + 1 ELSE 0
      /\ \A i \in 1 .. k - 1 + 1 : SubSeq(q, 1, k)[i] = q[1 + i - 1]
  BY <1>2, SubSeqProperties
<1> DEFINE front == SubSeq(q, 1, k)
<1> HIDE DEF front
<1>4. /\ front \in Seq(S) /\ Len(front) = IF 1 <= k THEN k - 1 + 1 ELSE 0
      /\ \A i \in 1 .. k - 1 + 1 : front[i] = q[1 + i - 1]
  BY <1>3 DEF front
<1>5. front \in Seq(S) /\ Len(front) = k /\ \A i \in 1 .. k : front[i] = q[i]
  BY <1>1, <1>4
<1> QED BY <1>5 DEF front

(* What is left of a queue without its first k items. *)
LEMMA RestItems ==
  ASSUME NEW S, NEW q \in Seq(S), NEW k \in 0 .. Len(q)
  PROVE  /\ SubSeq(q, k + 1, Len(q)) \in Seq(S) /\ Len(SubSeq(q, k + 1, Len(q))) = Len(q) - k
         /\ \A i \in 1 .. Len(q) - k : SubSeq(q, k + 1, Len(q))[i] = q[k + i]
<1>1. Len(q) \in Nat
  BY LenProperties
<1>2. k + 1 \in Int /\ Len(q) \in Int /\ \A i \in k + 1 .. Len(q) : q[i] \in S
  BY <1>1, ElementOfSeq
<1>3. /\ SubSeq(q, k + 1, Len(q)) \in Seq(S)
      /\ Len(SubSeq(q, k + 1, Len(q))) = IF k + 1 <= Len(q) THEN Len(q) - (k + 1) + 1 ELSE 0
      /\ \A i \in 1 .. Len(q) - (k + 1) + 1 : SubSeq(q, k + 1, Len(q))[i] = q[(k + 1) + i - 1]
  BY <1>2, SubSeqProperties
<1> DEFINE rest == SubSeq(q, k + 1, Len(q))
<1> HIDE DEF rest
<1>4. /\ rest \in Seq(S) /\ Len(rest) = IF k + 1 <= Len(q) THEN Len(q) - (k + 1) + 1 ELSE 0
      /\ \A i \in 1 .. Len(q) - (k + 1) + 1 : rest[i] = q[(k + 1) + i - 1]
  BY <1>3 DEF rest
<1>5. rest \in Seq(S) /\ Len(rest) = Len(q) - k /\ \A i \in 1 .. Len(q) - k : rest[i] = q[k + i]
  BY <1>1, <1>4
<1> QED BY <1>5 DEF rest

(* A queue is its first items and the rest. *)
LEMMA SplitQueue ==
  ASSUME NEW S, NEW q \in Seq(S), NEW k \in 0 .. Len(q)
  PROVE  SubSeq(q, 1, k) \o SubSeq(q, k + 1, Len(q)) = q
<1>1. Len(q) \in Nat
  BY LenProperties
<1>2. 1 \in 1 .. Len(q) + 1 /\ k \in 1 - 1 .. Len(q) /\ Len(q) \in k .. Len(q)
  BY <1>1
<1>3. SubSeq(q, 1, k) \o SubSeq(q, k + 1, Len(q)) = SubSeq(q, 1, Len(q))
  BY <1>2, ConcatAdjacentSubSeq
<1> QED BY <1>3, SubSeqFull

(* The next item of a queue of which k items were passed on is passed on. *)
LEMMA PassNext ==
  ASSUME NEW S, NEW a \in Seq(S), NEW q \in Seq(S), NEW k \in Nat, k < Len(q)
  PROVE  Append(a, q[k + 1]) \o SubSeq(q, k + 2, Len(q)) = a \o SubSeq(q, k + 1, Len(q))
<1> DEFINE next == q[k + 1]
           rest == SubSeq(q, k + 2, Len(q))
<1>1. Len(q) \in Nat /\ k + 1 \in 1 .. Len(q) /\ next \in S /\ k + 1 + 1 = k + 2
  BY LenProperties, ElementOfSeq
<1>2. SubSeq(q, k + 1, Len(q)) = <<next>> \o rest
  <2>1. Len(q) \in k + 1 .. Len(q)
    BY <1>1
  <2>2. SubSeq(q, k + 1, Len(q)) = <<q[k + 1]>> \o SubSeq(q, k + 1 + 1, Len(q))
    BY <1>1, <2>1, SubSeqRecursiveFirst
  <2> QED BY <1>1, <2>2
<1>3. rest \in Seq(S)
  BY <1>1, RestItems
<1> HIDE DEF next, rest
<1>4. <<next>> \in Seq(S) /\ Append(a, next) = a \o <<next>>
  BY <1>1, AppendIsConcat
<1>5. (a \o <<next>>) \o rest = a \o (<<next>> \o rest)
  BY <1>3, <1>4, ConcatAssociative
<1>6. Append(a, next) \o rest = a \o SubSeq(q, k + 1, Len(q))
  BY <1>2, <1>4, <1>5
<1> QED BY <1>6 DEF next, rest

(* An item put behind a queue is behind what is left of it. *)
LEMMA AppendRest ==
  ASSUME NEW S, NEW q \in Seq(S), NEW x \in S, NEW k \in 0 .. Len(q)
  PROVE  SubSeq(Append(q, x), k + 1, Len(Append(q, x))) = Append(SubSeq(q, k + 1, Len(q)), x)
<1> DEFINE new == Append(q, x)
           old == SubSeq(q, k + 1, Len(q))
           rest == SubSeq(new, k + 1, Len(new))
           longer == Append(old, x)
<1>1. Len(q) \in Nat
  BY LenProperties
<1>2. /\ new \in Seq(S) /\ Len(new) = Len(q) + 1 /\ new[Len(q) + 1] = x
      /\ \A i \in 1 .. Len(q) : new[i] = q[i]
  BY AppendProperties
<1>3. old \in Seq(S) /\ Len(old) = Len(q) - k /\ \A i \in 1 .. Len(q) - k : old[i] = q[k + i]
  BY RestItems
<1> HIDE DEF new, old
<1>4. /\ rest \in Seq(S) /\ Len(rest) = Len(new) - k
      /\ \A i \in 1 .. Len(new) - k : rest[i] = new[k + i]
  <2>1. k \in 0 .. Len(new)
    BY <1>1, <1>2
  <2> QED BY <1>2, <2>1, RestItems
<1>5. /\ longer \in Seq(S) /\ Len(longer) = Len(old) + 1 /\ longer[Len(old) + 1] = x
      /\ \A i \in 1 .. Len(old) : longer[i] = old[i]
  BY <1>3, AppendProperties
<1> HIDE DEF rest, longer
<1>6. Len(rest) = Len(longer) /\ \A i \in 1 .. Len(rest) : rest[i] = longer[i]
  <2>1. Len(rest) = Len(longer) /\ Len(rest) = Len(q) - k + 1
    BY <1>1, <1>2, <1>3, <1>4, <1>5
  <2>2. ASSUME NEW i \in 1 .. Len(q) - k PROVE rest[i] = longer[i]
    <3>1. k + i \in 1 .. Len(q) /\ i \in 1 .. Len(new) - k /\ i \in 1 .. Len(old)
      BY <1>1, <1>2, <1>3
    <3> QED BY <1>2, <1>3, <1>4, <1>5, <3>1
  <2>3. rest[Len(q) - k + 1] = longer[Len(q) - k + 1]
    <3>1. Len(q) - k + 1 \in 1 .. Len(new) - k /\ k + (Len(q) - k + 1) = Len(q) + 1
      BY <1>1, <1>2
    <3> QED BY <1>2, <1>3, <1>4, <1>5, <3>1
  <2>4. \A i \in 1 .. Len(rest) : i \in 1 .. Len(q) - k \/ i = Len(q) - k + 1
    BY <1>1, <2>1
  <2> QED BY <2>1, <2>2, <2>3, <2>4
<1>7. rest = longer
  BY <1>4, <1>5, <1>6, SeqEqual
<1> QED BY <1>7 DEF new, old, rest, longer

(* The first items of two queues are the first queue, and what is behind them
   is the second. *)
LEMMA FrontAndBack ==
  ASSUME NEW S, NEW a \in Seq(S), NEW b \in Seq(S)
  PROVE  /\ SubSeq(a \o b, 1, Len(a)) = a
         /\ SubSeq(a \o b, Len(a) + 1, Len(a \o b)) = b
<1> DEFINE ab == a \o b
           front == SubSeq(ab, 1, Len(a))
           back == SubSeq(ab, Len(a) + 1, Len(ab))
<1>1. /\ Len(a) \in Nat /\ Len(b) \in Nat
      /\ ab \in Seq(S) /\ Len(ab) = Len(a) + Len(b)
      /\ \A i \in 1 .. Len(a) + Len(b) : ab[i] = IF i <= Len(a) THEN a[i] ELSE b[i - Len(a)]
  BY LenProperties, ConcatProperties
<1> HIDE DEF ab
<1>2. Len(a) \in 0 .. Len(ab)
  BY <1>1
<1>3. front \in Seq(S) /\ Len(front) = Len(a) /\ \A i \in 1 .. Len(a) : front[i] = ab[i]
  BY <1>1, <1>2, FirstItems
<1>4. /\ back \in Seq(S) /\ Len(back) = Len(ab) - Len(a)
      /\ \A i \in 1 .. Len(ab) - Len(a) : back[i] = ab[Len(a) + i]
  BY <1>1, <1>2, RestItems
<1> HIDE DEF front, back
<1>5. front = a
  <2>1. \A i \in 1 .. Len(a) : front[i] = a[i]
    BY <1>1, <1>3
  <2> QED BY <1>3, <2>1, SeqEqual
<1>6. back = b
  <2>1. Len(back) = Len(b) /\ \A i \in 1 .. Len(b) : back[i] = b[i]
    <3>1. Len(back) = Len(b)
      BY <1>1, <1>4
    <3>2. ASSUME NEW i \in 1 .. Len(b) PROVE back[i] = b[i]
      <4>1. /\ i \in 1 .. Len(ab) - Len(a) /\ Len(a) + i \in 1 .. Len(a) + Len(b)
            /\ ~(Len(a) + i <= Len(a)) /\ (Len(a) + i) - Len(a) = i
        BY <1>1
      <4> QED BY <1>1, <1>4, <4>1
    <3> QED BY <3>1, <3>2
  <2> QED BY <1>4, <2>1, SeqEqual
<1> QED BY <1>5, <1>6 DEF ab, front, back

(* The head of the first of two queues is the head of both. *)
LEMMA HeadOff ==
  ASSUME NEW S, NEW a \in Seq(S), NEW b \in Seq(S), a # <<>>
  PROVE  /\ SubSeq(a \o b, 1, 1) = <<Head(a)>>
         /\ SubSeq(a \o b, 2, Len(a \o b)) = Tail(a) \o b
         /\ Head(a) \in S /\ Tail(a) \in Seq(S) /\ 1 \in DOMAIN (a \o b)
<1>1. Head(a) \in S /\ Tail(a) \in Seq(S)
  BY HeadTailProperties
<1> DEFINE h == <<Head(a)>>
           t == Tail(a)
<1>2. h \in Seq(S) /\ Len(h) = 1 /\ t \in Seq(S) /\ <<>> \in Seq(S)
  BY <1>1
<1>3. Append(<<>>, Head(a)) \o t = <<>> \o a
  BY <1>2, MoveHead
<1>4. Append(<<>>, Head(a)) = h /\ <<>> \o a = a
  BY <1>1, ConcatEmptySeq
<1>5. a = h \o t
  BY <1>3, <1>4
<1> HIDE DEF h, t
<1>6. a \o b = h \o (t \o b) /\ t \o b \in Seq(S) /\ a \o b \in Seq(S)
  <2>1. h \in Seq(S) /\ t \in Seq(S)
    BY <1>2
  <2>2. (h \o t) \o b = h \o (t \o b)
    BY <2>1, ConcatAssociative
  <2>3. t \o b \in Seq(S)
    BY <2>1, ConcatProperties
  <2>4. a \o b \in Seq(S)
    BY ConcatProperties
  <2> QED BY <1>5, <2>2, <2>3, <2>4
<1>7. /\ SubSeq(a \o b, 1, Len(h)) = h
      /\ SubSeq(a \o b, Len(h) + 1, Len(a \o b)) = t \o b
  <2> DEFINE tb == t \o b
  <2>1. tb \in Seq(S) /\ a \o b = h \o tb
    BY <1>6
  <2> HIDE DEF tb
  <2>2. SubSeq(h \o tb, 1, Len(h)) = h /\ SubSeq(h \o tb, Len(h) + 1, Len(h \o tb)) = tb
    BY <1>2, <2>1, FrontAndBack
  <2>3. SubSeq(a \o b, 1, Len(h)) = h /\ SubSeq(a \o b, Len(h) + 1, Len(a \o b)) = tb
    BY <2>1, <2>2
  <2> QED BY <2>3 DEF tb
<1>8. 1 \in DOMAIN (a \o b)
  <2>1. Len(a \o b) = Len(a) + Len(b) /\ Len(a) \in Nat \ {0} /\ Len(b) \in Nat
    BY ConcatProperties, EmptySeq, LenProperties
  <2>2. DOMAIN (a \o b) = 1 .. Len(a \o b)
    BY <1>6, LenProperties
  <2> QED BY <2>1, <2>2
<1>9. Len(h) + 1 = 2
  BY <1>2
<1>10. SubSeq(a \o b, 1, 1) = h /\ SubSeq(a \o b, 2, Len(a \o b)) = t \o b
  BY <1>2, <1>7, <1>9
<1> QED BY <1>1, <1>8, <1>10 DEF h, t

(* The first n packets in the order of their numbers. *)
Numbered(n) == [i \in 1 .. n |-> i]

(* The next packet goes behind the ones before it. *)
LEMMA NumberNext ==
  ASSUME NEW n \in Nat
  PROVE  /\ Numbered(n) \in Seq(Nat) /\ Len(Numbered(n)) = n
         /\ Append(Numbered(n), n + 1) = Numbered(n + 1)
<1>1. \A m \in Nat : Numbered(m) \in Seq(Nat) /\ Len(Numbered(m)) = m
  BY DEF Numbered
<1> DEFINE s == Numbered(n)
           t == Append(s, n + 1)
           u == Numbered(n + 1)
<1>2. s \in Seq(Nat) /\ Len(s) = n /\ u \in Seq(Nat) /\ Len(u) = n + 1 /\ n + 1 \in Nat
  BY <1>1
<1>3. (\A i \in 1 .. n : s[i] = i) /\ (\A i \in 1 .. n + 1 : u[i] = i)
  BY DEF Numbered
<1> HIDE DEF s, u
<1>4. /\ t \in Seq(Nat) /\ Len(t) = Len(s) + 1 /\ t[Len(s) + 1] = n + 1
      /\ \A i \in 1 .. Len(s) : t[i] = s[i]
  BY <1>2, AppendProperties
<1> HIDE DEF t
<1>5. \A i \in 1 .. n + 1 : t[i] = u[i]
  BY <1>2, <1>3, <1>4
<1>6. t = u
  BY <1>2, <1>4, <1>5, SeqEqual
<1> QED BY <1>2, <1>6 DEF s, t, u

(* A sequence that starts like the numbered packets is the first of them. *)
LEMMA NumberedFront ==
  ASSUME NEW s \in Seq(Nat), \A i \in 1 .. Len(s) : s[i] = i
  PROVE  s = Numbered(Len(s))
<1>1. Len(s) \in Nat
  BY LenProperties
<1> DEFINE t == Numbered(Len(s))
<1>2. t \in Seq(Nat) /\ Len(t) = Len(s)
  BY <1>1, NumberNext
<1>3. \A i \in 1 .. Len(s) : t[i] = i
  BY DEF Numbered
<1> HIDE DEF t
<1>4. \A i \in 1 .. Len(s) : s[i] = t[i]
  BY <1>3
<1>5. s = t
  BY <1>2, <1>4, SeqEqual
<1> QED BY <1>5 DEF t

(* An item between two queues is the last of the first, or the first of the
   second; without it, the two queues are what is left. *)
LEMMA ItemBetween ==
  ASSUME NEW S, NEW a \in Seq(S), NEW x \in S, NEW b \in Seq(S)
  PROVE  LET q == a \o (<<x>> \o b)
         IN  /\ Append(a, x) \o b = q
             /\ SubSeq(q, 1, Len(a)) \o SubSeq(q, Len(a) + 2, Len(q)) = a \o b
             /\ Len(a) + 1 \in 1 .. Len(q)
<1> DEFINE h == <<x>>
           hb == h \o b
           ax == Append(a, x)
           q == a \o hb
<1>1. h \in Seq(S)
  OBVIOUS
<1>2. hb \in Seq(S) /\ Len(hb) = Len(h) + Len(b)
  BY <1>1, ConcatProperties
<1>3. Len(h) = 1 /\ Len(a) \in Nat /\ Len(b) \in Nat /\ Len(hb) = 1 + Len(b)
  BY <1>2, LenProperties
<1>4. ax = a \o h
  BY AppendIsConcat
<1>5. ax \in Seq(S) /\ Len(ax) = Len(a) + 1
  BY AppendProperties
<1> HIDE DEF h, ax
<1>6. (a \o h) \o b = a \o (h \o b)
  BY <1>1, ConcatAssociative
<1>7. ax \o b = q
  BY <1>4, <1>6
<1> HIDE DEF hb
<1>8. Len(q) = Len(a) + Len(hb) /\ SubSeq(q, 1, Len(a)) = a
  <2>1. hb \in Seq(S)
    BY <1>2
  <2>2. Len(q) = Len(a) + Len(hb)
    BY <2>1, ConcatProperties
  <2>3. SubSeq(q, 1, Len(a)) = a
    BY <2>1, FrontAndBack
  <2> QED BY <2>2, <2>3
<1>9. SubSeq(ax \o b, Len(ax) + 1, Len(ax \o b)) = b
  BY <1>5, FrontAndBack
<1> HIDE DEF q
<1>10. Len(ax) + 1 = Len(a) + 2 /\ Len(a) + 1 \in 1 .. Len(q)
  BY <1>3, <1>5, <1>8
<1>11. SubSeq(q, Len(a) + 2, Len(q)) = b
  BY <1>7, <1>9, <1>10
<1>12. /\ ax \o b = q
       /\ SubSeq(q, 1, Len(a)) \o SubSeq(q, Len(a) + 2, Len(q)) = a \o b
       /\ Len(a) + 1 \in 1 .. Len(q)
  BY <1>7, <1>8, <1>10, <1>11
<1> QED BY <1>12 DEF h, hb, ax, q

(* n packets in the order of their numbers, the first of them behind m. *)
Consecutive(m, n) == [i \in 1 .. n |-> m + i]

(* They are packets below the last of them. *)
LEMMA ConsecutiveType ==
  ASSUME NEW m \in Nat, NEW n \in Nat, NEW k \in Nat, m + n <= k
  PROVE  Consecutive(m, n) \in Seq(1 .. k) /\ Len(Consecutive(m, n)) = n
  BY DEF Consecutive

(* What follows the first packets is what follows all of them but these. *)
LEMMA ConsecutiveSplits ==
  ASSUME NEW m \in Nat, NEW n \in Nat, NEW k \in Nat
  PROVE  Consecutive(m, n) \o Consecutive(m + n, k) = Consecutive(m, n + k)
<1> DEFINE s == Consecutive(m, n)
           t == Consecutive(m + n, k)
           u == Consecutive(m, n + k)
           st == s \o t
<1>1. ASSUME NEW a \in Nat, NEW b \in Nat
      PROVE  Consecutive(a, b) \in Seq(Nat) /\ Len(Consecutive(a, b)) = b
             /\ \A i \in 1 .. b : Consecutive(a, b)[i] = a + i
  BY DEF Consecutive
<1>2. /\ s \in Seq(Nat) /\ Len(s) = n /\ \A i \in 1 .. n : s[i] = m + i
      /\ t \in Seq(Nat) /\ Len(t) = k /\ \A i \in 1 .. k : t[i] = (m + n) + i
      /\ u \in Seq(Nat) /\ Len(u) = n + k /\ \A i \in 1 .. n + k : u[i] = m + i
  <2>1. m + n \in Nat /\ n + k \in Nat
    OBVIOUS
  <2> HIDE DEF Consecutive
  <2> QED BY <1>1, <2>1
<1> HIDE DEF s, t, u
<1>3. /\ st \in Seq(Nat) /\ Len(st) = Len(s) + Len(t)
      /\ \A i \in 1 .. Len(s) + Len(t) : st[i] = IF i <= Len(s) THEN s[i] ELSE t[i - Len(s)]
  BY <1>2, ConcatProperties
<1> HIDE DEF st
<1>4. ASSUME NEW i \in 1 .. n + k PROVE st[i] = u[i]
  <2>1. CASE i <= n
    BY <1>2, <1>3, <2>1
  <2>2. CASE i > n
    <3>1. i - n \in 1 .. k /\ (m + n) + (i - n) = m + i /\ ~(i <= n)
      BY <2>2
    <3> QED BY <1>2, <1>3, <3>1
  <2> QED BY <2>1, <2>2
<1>5. st = u
  BY <1>2, <1>3, <1>4, SeqEqual
<1> QED BY <1>5 DEF s, t, u, st

(* The first and the last of the packets that follow. *)
LEMMA ConsecutiveEnds ==
  ASSUME NEW m \in Nat, NEW k \in Nat
  PROVE  /\ <<m + 1>> \o Consecutive(m + 1, k) = Consecutive(m, 1 + k)
         /\ Append(Consecutive(m, k), m + k + 1) = Consecutive(m, k + 1)
<1>1. ASSUME NEW a \in Nat PROVE Consecutive(a, 1) = <<a + 1>>
  <2>1. /\ Consecutive(a, 1) \in Seq(Nat) /\ Len(Consecutive(a, 1)) = 1 /\ Consecutive(a, 1)[1] = a + 1
        /\ <<a + 1>> \in Seq(Nat) /\ Len(<<a + 1>>) = 1 /\ <<a + 1>>[1] = a + 1
    BY DEF Consecutive
  <2>2. \A i \in 1 .. 1 : Consecutive(a, 1)[i] = <<a + 1>>[i]
    BY <2>1
  <2> QED BY <2>1, <2>2, SeqEqual
<1>2. Consecutive(m, 1) \o Consecutive(m + 1, k) = Consecutive(m, 1 + k)
  BY ConsecutiveSplits
<1>3. Consecutive(m, k) \o Consecutive(m + k, 1) = Consecutive(m, k + 1)
  BY ConsecutiveSplits
<1>4. Consecutive(m, k) \in Seq(Nat)
  BY DEF Consecutive
<1>5. Append(Consecutive(m, k), m + k + 1) = Consecutive(m, k) \o <<m + k + 1>>
  BY <1>4, AppendIsConcat
<1>6. Consecutive(m + k, 1) = <<m + k + 1>>
  BY <1>1
<1> QED BY <1>1, <1>2, <1>3, <1>5, <1>6

(* A queue is its head and its tail. *)
LEMMA HeadThenTail ==
  ASSUME NEW S, NEW q \in Seq(S), q # <<>>
  PROVE  Head(q) \in S /\ Tail(q) \in Seq(S) /\ q = <<Head(q)>> \o Tail(q)
<1>1. Head(q) \in S /\ Tail(q) \in Seq(S) /\ <<>> \in Seq(S)
  BY HeadTailProperties
<1>2. Append(<<>>, Head(q)) \o Tail(q) = <<>> \o q
  BY <1>1, MoveHead
<1>3. Append(<<>>, Head(q)) = <<Head(q)>> /\ <<>> \o q = q
  BY <1>1, ConcatEmptySeq
<1> QED BY <1>1, <1>2, <1>3

(* What is taken from the first of two queues is taken from both. *)
LEMMA ServeFront ==
  ASSUME NEW S, NEW a \in Seq(S), NEW b \in Seq(S), NEW k \in 0 .. Len(a), k > 0
  PROVE  /\ SubSeq(a \o b, 1, k) = SubSeq(a, 1, k)
         /\ SubSeq(a \o b, k + 1, Len(a \o b)) = SubSeq(a, k + 1, Len(a)) \o b
         /\ k \in 1 .. Len(a \o b)
<1> DEFINE f == SubSeq(a, 1, k)
           r == SubSeq(a, k + 1, Len(a))
           rb == r \o b
           q == a \o b
<1>1. f \in Seq(S) /\ Len(f) = k
  BY FirstItems
<1>2. r \in Seq(S)
  BY RestItems
<1>3. f \o r = a
  BY SplitQueue
<1> HIDE DEF f, r
<1>4. (f \o r) \o b = f \o (r \o b)
  <2>1. f \in Seq(S) /\ r \in Seq(S) /\ b \in Seq(S)
    BY <1>1, <1>2
  <2> QED BY <2>1, ConcatAssociative, SMTT(30)
<1>5. rb \in Seq(S)
  BY <1>2, ConcatProperties
<1> HIDE DEF rb
<1>6. SubSeq(f \o rb, 1, Len(f)) = f /\ SubSeq(f \o rb, Len(f) + 1, Len(f \o rb)) = rb
  BY <1>1, <1>5, FrontAndBack
<1>7. q = f \o rb
  BY <1>3, <1>4 DEF rb
<1>8. k \in 1 .. Len(q)
  <2>1. Len(q) = Len(a) + Len(b) /\ Len(a) \in Nat /\ Len(b) \in Nat
    BY ConcatProperties, LenProperties
  <2> QED BY <2>1
<1> HIDE DEF q
<1>9. SubSeq(q, 1, k) = f /\ SubSeq(q, k + 1, Len(q)) = rb
  BY <1>1, <1>6, <1>7
<1> QED BY <1>8, <1>9 DEF f, r, rb, q
=============================================================================
