--------------------------- MODULE AppFrameProofs ----------------------------
(***************************************************************************)
(* Proofs about AppFrame, for any number of apps, entities and packets and *)
(* any size of the channels: the end of a half of a stream is announced at *)
(* most once, whichever of the systems asks for the reason first.  AppPipe *)
(* needs the same invariant for what becomes of the packets.               *)
(***************************************************************************)
EXTENDS AppFrame, QueueLemmas, FiniteSetTheorems

(* A command is for an entity of the app; one that is to get its stream is still
   an attempt, so that no entity comes back after it went. *)
CommandsFit ==
  \A a \in Apps, e \in Ends :
    /\ <<"insert", e>> \in commands[a] => Home[e] = a /\ entity[e] = "attempt"
    /\ <<"despawn", e>> \in commands[a] => Home[e] = a

(* The buffer that the entities share is empty whenever one of them is served:
   a session is given all that was read for it. *)
NothingLeft == \A a \in Apps : buffer[a] = <<>>

(* What Bevy and the plugins do to an entity happens to none elsewhere. *)
ElsewhereUntouched ==
  \A e \in Ends : Home[e] = Elsewhere =>
    /\ entity[e] # "gone" /\ inbound[e] = <<>> /\ backlog[e] = <<>>
    /\ \A h \in Halves : events[e][h] = 0

(* The systems of PostUpdate that announce the end of a half, and of Update that
   despawn its entity. *)
Announcer(h) == IF h = "send" THEN "FireRec" ELSE "FireSend"
Handler(h) == IF h = "send" THEN "SendDisconnections" ELSE "RecDisconnections"

(* Between the announcement and the end of the next Update: the system that
   announced does not run again before the handler does, and what the handler
   queued despawns the entity. *)
Doomed(e, h) ==
  LET a == Home[e] IN
    \/ schedule[a] = "PostUpdate" /\ Announcer(h) \notin todo[a]
    \/ schedule[a] = "PreUpdate"
    \/ schedule[a] = "Update" /\ (Handler(h) \in todo[a] \/ <<"despawn", e>> \in commands[a])

(* An announcement was the only one, of a half that ended; its entity is gone,
   or will be before the next. *)
Announcements ==
  \A e \in Ends, h \in Halves :
    events[e][h] > 0 =>
      /\ events[e][h] = 1 /\ Ended(e, h)
      /\ entity[e] = "gone" \/ (entity[e] = "live" /\ Doomed(e, h))

(* The inductive invariant. *)
IInv == TypeOK /\ CommandsFit /\ NothingLeft /\ ElsewhereUntouched /\ Announcements
-----------------------------------------------------------------------------
(* Every end belongs to an app or to none, and its peer has it for a peer. *)
LEMMA EndsAre ==
  /\ IsFiniteSet(Ends) /\ Elsewhere \notin Apps
  /\ \A e \in Ends : /\ Home[e] \in Apps \cup {Elsewhere} /\ (e \in Local <=> Home[e] \in Apps)
                     /\ Peer[e] \in Ends /\ Peer[Peer[e]] = e /\ MaxPackets[e] \in Nat
  /\ OutboundSize \in Nat \ {0} /\ InboundSize \in Nat \ {0} /\ TransferLimit \in Nat \ {0}
  BY ConstantsAssumption DEF ConstantsAssumption, Local

(* The packets of an end. *)
LEMMA PacketIs ==
  ASSUME NEW e \in Ends, NEW n \in 1 .. MaxPackets[e]
  PROVE  <<e, n>> \in Packets
  BY DEF Packets

(* The schedules in turn, and the systems of each. *)
LEMMA SystemsAre ==
  /\ DOMAIN Systems = {"PreUpdate", "Update", "PostUpdate"}
  /\ Systems["PreUpdate"] = {"SessionRecv", "SessionSend"}
  /\ Systems["Update"] = {"Attempts", "RecDisconnections", "SendDisconnections", "Application"}
  /\ Systems["PostUpdate"] = {"FireSend", "FireRec", "Application"}
  /\ Following["PreUpdate"] = "Update" /\ Following["Update"] = "PostUpdate"
  /\ Following["PostUpdate"] = "PreUpdate"
  BY DEF Systems, Following

(* The entities are visited in an order that is a sequence of them. *)
LEMMA OrderType ==
  ASSUME NEW S, S \subseteq Ends, NEW order \in SetToSeqs(S)
  PROVE  order \in Seq(Ends)
<1>1. Cardinality(S) \in Nat
  BY EndsAre, FS_Subset, FS_CardinalityType
<1> DEFINE n == Cardinality(S)
<1>2. order \in [1 .. n -> S]
  BY DEF SetToSeqs
<1> HIDE DEF n
<1>3. order \in [1 .. n -> Ends] /\ n \in Nat
  BY <1>1, <1>2 DEF n
<1> QED BY <1>3

(* A system that runs is one of the schedule's. *)
LEMMA RunningIs ==
  ASSUME TypeOK, NEW a \in Apps, NEW s, Runs(a, s)
  PROVE  /\ s \in todo[a] /\ s \in Systems[schedule[a]] /\ schedule[a] \in DOMAIN Systems
         /\ todo' = [todo EXCEPT ![a] = todo[a] \ {s}] /\ todo'[a] = todo[a] \ {s}
         /\ \A b \in Apps : b # a => todo'[b] = todo[b]
  BY DEF TypeOK, Runs

(* The systems of a schedule are systems. *)
LEMMA SystemRange == \A s \in DOMAIN Systems : Systems[s] \subseteq UNION Range(Systems)
<1>1. \A s \in DOMAIN Systems : Systems[s] \in Range(Systems)
  BY DEF Range
<1> QED BY <1>1
-----------------------------------------------------------------------------
(* The parts of TypeOK that a step of an app's systems disturbs. *)
TodoOK == /\ schedule \in [Apps -> DOMAIN Systems]
          /\ todo \in [Apps -> SUBSET UNION Range(Systems)]
          /\ \A a \in Apps : todo[a] \subseteq Systems[schedule[a]]

(* Running a system takes it out of those of the schedule. *)
LEMMA RunsKeepsType ==
  ASSUME TypeOK, NEW a \in Apps, NEW s, Runs(a, s), UNCHANGED schedule
  PROVE  TodoOK'
<1>1. TodoOK
  BY DEF TypeOK, TodoOK
<1>2. todo' = [todo EXCEPT ![a] = todo[a] \ {s}]
  BY RunningIs
<1> QED BY <1>1, <1>2 DEF TodoOK

(* What is queued are commands. *)
LEMMA QueueKeepsType ==
  ASSUME TypeOK, NEW a \in Apps, NEW what \in {"insert", "despawn"}, NEW S, S \subseteq Ends,
         Queue(a, what, S)
  PROVE  commands' \in [Apps -> SUBSET ({"insert", "despawn"} \X Ends)]
<1>1. {what} \X S \subseteq {"insert", "despawn"} \X Ends
  OBVIOUS
<1> QED BY <1>1 DEF Queue, TypeOK

(* Keeping a reason leaves a half in one of its states. *)
LEMMA CacheKeepsType ==
  ASSUME TypeOK, NEW a \in Apps, NEW h \in Halves, Cache(a, h)
  PROVE  half' \in [Ends -> [Halves -> {"none", "running", "finished", "cached"}]]
  BY DEF Cache, TypeOK

(* The entities that the systems of an app see. *)
LEMMA LiveAre ==
  ASSUME NEW a \in Apps
  PROVE  /\ Live(a) \subseteq Ends
         /\ \A e \in Live(a) : Home[e] = a /\ entity[e] = "live"
  BY DEF Live

(* What serving an entity leaves: a first part of its channel goes to its
   session, and nothing stays in the buffer. *)
LEMMA ServingIs ==
  ASSUME TypeOK, NothingLeft, NEW a \in Apps, RecvEntity(a)
  PROVE  \E e \in Ends, n \in Nat :
           /\ visit[a] # <<>> /\ e = Head(visit[a]) /\ n \in 0 .. Len(inbound[e])
           /\ n > 0 \/ Ended(e, "rec")
           /\ inbound' = [inbound EXCEPT ![e] = SubSeq(inbound[e], n + 1, Len(inbound[e]))]
           /\ received' = [received EXCEPT ![e] = received[e] \o SubSeq(inbound[e], 1, n)]
           /\ unread' = [unread EXCEPT ![e] = unread[e] \/ n > 0]
           /\ buffer' = [buffer EXCEPT ![a] = <<>>]
           /\ visit' = [visit EXCEPT ![a] = Tail(visit[a])]
<1> DEFINE e == Head(visit[a])
           n == Smaller(TransferLimit, Len(inbound[e]))
           packets == buffer[a] \o SubSeq(inbound[e], 1, n)
<1>1. visit[a] # <<>> /\ visit[a] \in Seq(Ends)
  BY DEF RecvEntity, TypeOK
<1>2. e \in Ends
  BY <1>1, HeadTailProperties
<1>3. inbound[e] \in Seq(Packets) /\ Len(inbound[e]) \in Nat
  BY <1>2, LenProperties DEF TypeOK
<1>4. n \in 0 .. Len(inbound[e]) /\ n \in Nat
  BY <1>3, EndsAre DEF Smaller
<1>5. /\ n > 0 \/ Ended(e, "rec")
      /\ inbound' = [inbound EXCEPT ![e] = SubSeq(@, n + 1, Len(@))]
      /\ received' = [received EXCEPT ![e] = @ \o SubSeq(packets, 1, n)]
      /\ unread' = [unread EXCEPT ![e] = @ \/ n > 0]
      /\ buffer' = [buffer EXCEPT ![a] = IF Len(visit[a]) = 1 THEN <<>> ELSE LeftInBuffer(e, packets, n)]
      /\ visit' = [visit EXCEPT ![a] = Tail(@)]
  BY DEF RecvEntity
<1>6. packets = SubSeq(inbound[e], 1, n) /\ packets \in Seq(Packets) /\ Len(packets) = n
  <2> DEFINE front == SubSeq(inbound[e], 1, n)
  <2>1. front \in Seq(Packets) /\ Len(front) = n
    BY <1>3, <1>4, FirstItems
  <2> HIDE DEF front, n, e
  <2>2. buffer[a] = <<>>
    BY DEF NothingLeft
  <2>3. <<>> \o front = front
    BY <2>1, ConcatEmptySeq
  <2> QED BY <2>1, <2>2, <2>3 DEF front
<1> HIDE DEF packets, n, e
<1>7. SubSeq(packets, 1, n) = packets
  BY <1>6, SubSeqFull
<1>8. SubSeq(packets, n + 1, Len(packets)) = <<>>
  BY <1>4, <1>6, SubSeqEmpty
<1>9. LeftInBuffer(e, packets, n) = <<>>
  BY <1>8 DEF LeftInBuffer
<1>10. buffer' = [buffer EXCEPT ![a] = <<>>]
  BY <1>5, <1>9
<1>11. received' = [received EXCEPT ![e] = received[e] \o SubSeq(inbound[e], 1, n)]
  BY <1>5, <1>6, <1>7
<1> WITNESS e \in Ends, n \in Nat
<1> QED BY <1>1, <1>4, <1>5, <1>10, <1>11 DEF e

(* What sending from the sessions does: of each session a first part goes to the
   channel, if its entity has a task to send it. *)
LEMMA SendingIs ==
  ASSUME TypeOK, NEW a \in Apps, SessionSend(a)
  PROVE  \E n \in [Ends -> Nat] :
           /\ \A e \in Ends : /\ n[e] \in 0 .. Len(backlog[e])
                              /\ n[e] > 0 => e \in Live(a) /\ ~Ended(e, "send")
           /\ wire' = [e \in Ends |-> wire[e] \o SubSeq(backlog[e], 1, n[e])]
           /\ backlog' = [e \in Ends |-> SubSeq(backlog[e], n[e] + 1, Len(backlog[e]))]
<1>1. PICK n \in [Ends -> UNION {0 .. Len(backlog[e]) : e \in Ends}] :
        /\ \A e \in Ends : n[e] \in (IF e \in Live(a) THEN Drained(e) ELSE {0})
        /\ wire' = [e \in Ends |-> wire[e] \o SubSeq(backlog[e], 1, n[e])]
        /\ backlog' = [e \in Ends |-> SubSeq(backlog[e], n[e] + 1, Len(backlog[e]))]
  BY DEF SessionSend
<1>2. ASSUME NEW e \in Ends
      PROVE  /\ n[e] \in 0 .. Len(backlog[e]) /\ n[e] \in Nat
             /\ n[e] > 0 => e \in Live(a) /\ ~Ended(e, "send")
  <2>1. Len(backlog[e]) \in Nat /\ 0 \in 0 .. Len(backlog[e])
    BY LenProperties DEF TypeOK
  <2>2. n[e] \in (IF e \in Live(a) THEN Drained(e) ELSE {0})
    BY <1>1
  <2>3. Drained(e) \subseteq 0 .. Len(backlog[e]) /\ (Ended(e, "send") => Drained(e) = {0})
    BY <2>1 DEF Drained
  <2> QED BY <2>1, <2>2, <2>3
<1>3. n \in [Ends -> Nat]
  BY <1>1, <1>2
<1> QED BY <1>1, <1>2, <1>3

(* The sessions and channels after a part of each went on are sequences still. *)
LEMMA PartsType ==
  ASSUME NEW s \in Seq(Packets), NEW q \in Seq(Packets), NEW n \in 0 .. Len(q)
  PROVE  /\ s \o SubSeq(q, 1, n) \in Seq(Packets)
         /\ SubSeq(q, 1, n) \in Seq(Packets) /\ Len(SubSeq(q, 1, n)) = n
         /\ SubSeq(q, n + 1, Len(q)) \in Seq(Packets) /\ Len(SubSeq(q, n + 1, Len(q))) = Len(q) - n
<1>1. SubSeq(q, 1, n) \in Seq(Packets) /\ Len(SubSeq(q, 1, n)) = n
  BY FirstItems
<1>2. SubSeq(q, n + 1, Len(q)) \in Seq(Packets) /\ Len(SubSeq(q, n + 1, Len(q))) = Len(q) - n
  BY RestItems
<1>3. s \o SubSeq(q, 1, n) \in Seq(Packets)
  BY <1>1, ConcatProperties
<1> QED BY <1>1, <1>2, <1>3

(* Every step keeps every variable in its type. *)
LEMMA TypeStep ==
  ASSUME TypeOK, NothingLeft, [Next]_vars
  PROVE  TypeOK'
<1> USE DEF frame, stream, session
<1>1. ASSUME NEW a \in Apps, StartRecv(a) PROVE TypeOK'
  <2>1. TodoOK'
    BY <1>1, RunsKeepsType DEF StartRecv
  <2>2. PICK order \in SetToSeqs(Live(a)) : visit' = [visit EXCEPT ![a] = order]
    BY <1>1 DEF StartRecv
  <2>3. visit' \in [Apps -> Seq(Ends)]
    BY <2>2, LiveAre, OrderType DEF TypeOK
  <2> QED BY <1>1, <2>1, <2>3 DEF StartRecv, TodoOK, TypeOK
<1>2. ASSUME NEW a \in Apps, RecvEntity(a) PROVE TypeOK'
  <2>1. PICK e \in Ends, n \in Nat :
           /\ visit[a] # <<>> /\ n \in 0 .. Len(inbound[e])
           /\ inbound' = [inbound EXCEPT ![e] = SubSeq(inbound[e], n + 1, Len(inbound[e]))]
           /\ received' = [received EXCEPT ![e] = received[e] \o SubSeq(inbound[e], 1, n)]
           /\ unread' = [unread EXCEPT ![e] = unread[e] \/ n > 0]
           /\ buffer' = [buffer EXCEPT ![a] = <<>>]
           /\ visit' = [visit EXCEPT ![a] = Tail(visit[a])]
    BY <1>2, ServingIs
  <2>2. /\ inbound \in [Ends -> Seq(Packets)] /\ received \in [Ends -> Seq(Packets)]
        /\ Len(inbound[e]) \in Nat /\ Len(inbound[e]) <= InboundSize /\ InboundSize \in Nat
    BY LenProperties, EndsAre DEF TypeOK
  <2>3. /\ received[e] \o SubSeq(inbound[e], 1, n) \in Seq(Packets)
        /\ SubSeq(inbound[e], n + 1, Len(inbound[e])) \in Seq(Packets)
        /\ Len(SubSeq(inbound[e], n + 1, Len(inbound[e]))) <= InboundSize
    <3>1. Len(SubSeq(inbound[e], n + 1, Len(inbound[e]))) = Len(inbound[e]) - n
      BY <2>1, <2>2, PartsType
    <3>2. Len(inbound[e]) - n <= InboundSize
      BY <2>1, <2>2
    <3> QED BY <2>1, <2>2, <3>1, <3>2, PartsType
  <2>4. received' \in [Ends -> Seq(Packets)] /\ inbound' \in [Ends -> Seq(Packets)]
        /\ \A x \in Ends : Len(inbound'[x]) <= InboundSize
    BY <2>1, <2>2, <2>3 DEF TypeOK
  <2>5. Tail(visit[a]) \in Seq(Ends)
    BY <2>1, HeadTailProperties DEF TypeOK
  <2>6. visit' \in [Apps -> Seq(Ends)]
    BY <2>1, <2>5 DEF TypeOK
  <2>7. buffer' \in [Apps -> Seq(Packets)]
    BY <2>1, EmptySeq DEF TypeOK
  <2>8. unread' \in [Ends -> BOOLEAN]
    BY <2>1 DEF TypeOK
  <2>9. UNCHANGED <<schedule, todo, commands, entity, half, wire, asked, pushed, backlog, events>>
    BY <1>2 DEF RecvEntity
  <2> QED BY <2>4, <2>6, <2>7, <2>8, <2>9 DEF TypeOK
<1>3. ASSUME NEW a \in Apps, SessionSend(a) PROVE TypeOK'
  <2>1. TodoOK'
    BY <1>3, RunsKeepsType DEF SessionSend
  <2>2. wire' \in [Ends -> Seq(Packets)] /\ backlog' \in [Ends -> Seq(Packets)]
    <3>1. PICK n \in [Ends -> Nat] :
             /\ \A e \in Ends : n[e] \in 0 .. Len(backlog[e])
             /\ wire' = [e \in Ends |-> wire[e] \o SubSeq(backlog[e], 1, n[e])]
             /\ backlog' = [e \in Ends |-> SubSeq(backlog[e], n[e] + 1, Len(backlog[e]))]
      BY <1>3, SendingIs
    <3>2. \A e \in Ends : /\ wire[e] \o SubSeq(backlog[e], 1, n[e]) \in Seq(Packets)
                          /\ SubSeq(backlog[e], n[e] + 1, Len(backlog[e])) \in Seq(Packets)
      BY <3>1, PartsType DEF TypeOK
    <3> QED BY <3>1, <3>2
  <2> QED BY <1>3, <2>1, <2>2 DEF SessionSend, TodoOK, TypeOK
<1>4. ASSUME NEW a \in Apps, Attempts(a) PROVE TypeOK'
  <2>1. TodoOK'
    BY <1>4, RunsKeepsType DEF Attempts
  <2>2. commands' \in [Apps -> SUBSET ({"insert", "despawn"} \X Ends)]
    <3> DEFINE S == {e \in Ends : Home[e] = a /\ entity[e] = "attempt" /\ \A h \in Halves : half[e][h] # "none"}
    <3>1. Queue(a, "insert", S) /\ S \subseteq Ends
      BY <1>4 DEF Attempts
    <3> HIDE DEF S
    <3> QED BY <3>1, QueueKeepsType
  <2> QED BY <1>4, <2>1, <2>2 DEF Attempts, TodoOK, TypeOK
<1>5. ASSUME NEW a \in Apps, RecDisconnections(a) PROVE TypeOK'
  <2>1. TodoOK'
    BY <1>5, RunsKeepsType DEF RecDisconnections
  <2>2. commands' \in [Apps -> SUBSET ({"insert", "despawn"} \X Ends)]
    <3> DEFINE S == {e \in Live(a) : Reason(e, "rec")}
    <3>1. Queue(a, "despawn", S) /\ S \subseteq Ends
      BY <1>5, LiveAre DEF RecDisconnections, HandleDisconnections
    <3> HIDE DEF S
    <3> QED BY <3>1, QueueKeepsType
  <2>3. half' \in [Ends -> [Halves -> {"none", "running", "finished", "cached"}]]
    BY <1>5, CacheKeepsType DEF RecDisconnections, HandleDisconnections, Halves
  <2> QED BY <1>5, <2>1, <2>2, <2>3 DEF RecDisconnections, TodoOK, TypeOK
<1>6. ASSUME NEW a \in Apps, SendDisconnections(a) PROVE TypeOK'
  <2>1. TodoOK'
    BY <1>6, RunsKeepsType DEF SendDisconnections
  <2>2. commands' \in [Apps -> SUBSET ({"insert", "despawn"} \X Ends)]
    <3> DEFINE S == {e \in Live(a) : Reason(e, "send")}
    <3>1. Queue(a, "despawn", S) /\ S \subseteq Ends
      BY <1>6, LiveAre DEF SendDisconnections, HandleDisconnections
    <3> HIDE DEF S
    <3> QED BY <3>1, QueueKeepsType
  <2>3. half' \in [Ends -> [Halves -> {"none", "running", "finished", "cached"}]]
    BY <1>6, CacheKeepsType DEF SendDisconnections, HandleDisconnections, Halves
  <2> QED BY <1>6, <2>1, <2>2, <2>3 DEF SendDisconnections, TodoOK, TypeOK
<1>7. ASSUME NEW a \in Apps, ApplicationDone(a) PROVE TypeOK'
  <2>1. TodoOK'
    BY <1>7, RunsKeepsType DEF ApplicationDone
  <2> QED BY <1>7, <2>1 DEF ApplicationDone, TodoOK, TypeOK
<1>8. ASSUME NEW a \in Apps, FireSend(a) PROVE TypeOK'
  <2>1. TodoOK'
    BY <1>8, RunsKeepsType DEF FireSend, Fire
  <2>2. half' \in [Ends -> [Halves -> {"none", "running", "finished", "cached"}]]
    BY <1>8, CacheKeepsType DEF FireSend, Fire, Halves
  <2>3. events' \in [Ends -> [Halves -> Nat]]
    BY <1>8 DEF FireSend, Fire, TypeOK, Halves
  <2> QED BY <1>8, <2>1, <2>2, <2>3 DEF FireSend, Fire, TodoOK, TypeOK
<1>9. ASSUME NEW a \in Apps, FireRec(a) PROVE TypeOK'
  <2>1. TodoOK'
    BY <1>9, RunsKeepsType DEF FireRec, Fire
  <2>2. half' \in [Ends -> [Halves -> {"none", "running", "finished", "cached"}]]
    BY <1>9, CacheKeepsType DEF FireRec, Fire, Halves
  <2>3. events' \in [Ends -> [Halves -> Nat]]
    BY <1>9 DEF FireRec, Fire, TypeOK, Halves
  <2> QED BY <1>9, <2>1, <2>2, <2>3 DEF FireRec, Fire, TodoOK, TypeOK
<1>10. ASSUME NEW a \in Apps, NextSchedule(a) PROVE TypeOK'
  <2>1. TodoOK'
    <3>1. schedule' = [schedule EXCEPT ![a] = Following[schedule[a]]]
          /\ todo' = [todo EXCEPT ![a] = Systems[Following[schedule[a]]]]
      BY <1>10 DEF NextSchedule
    <3>2. Following[schedule[a]] \in DOMAIN Systems
      BY SystemsAre, ZenonT(40) DEF TypeOK
    <3> QED BY <3>1, <3>2, SystemRange DEF TodoOK, TypeOK
  <2>2. <<>> \in Seq(Packets) /\ Len(<<>>) = 0 /\ 0 <= InboundSize
    BY EndsAre
  <2>3. /\ entity' \in [Ends -> {"attempt", "live", "gone"}] /\ unread' \in [Ends -> BOOLEAN]
        /\ backlog' \in [Ends -> Seq(Packets)] /\ inbound' \in [Ends -> Seq(Packets)]
        /\ \A e \in Ends : Len(inbound'[e]) <= InboundSize
    BY <1>10, <2>2 DEF NextSchedule, TypeOK
  <2>4. commands' \in [Apps -> SUBSET ({"insert", "despawn"} \X Ends)]
    BY <1>10 DEF NextSchedule, TypeOK
  <2> QED BY <1>10, <2>1, <2>3, <2>4 DEF NextSchedule, TodoOK, TypeOK
<1>11. ASSUME NEW e \in Ends, Push(e) PROVE TypeOK'
  <2>1. pushed[e] \in Nat /\ pushed[e] + 1 \in 1 .. MaxPackets[e]
    BY <1>11, EndsAre DEF Push, TypeOK
  <2>2. Append(backlog[e], <<e, pushed[e] + 1>>) \in Seq(Packets)
    BY <2>1, PacketIs DEF TypeOK
  <2>3. backlog' \in [Ends -> Seq(Packets)]
    BY <1>11, <2>2 DEF Push, TypeOK
  <2>4. pushed' \in [Ends -> Nat] /\ \A x \in Ends : pushed'[x] <= MaxPackets[x]
    BY <1>11, <2>1 DEF Push, TypeOK
  <2> QED BY <1>11, <2>3, <2>4, SMTT(30) DEF Push, TypeOK
<1>12. ASSUME NEW e \in Ends, Consume(e) PROVE TypeOK'
  BY <1>12 DEF Consume, TypeOK
<1>13. ASSUME NEW e \in Ends, Disconnect(e) PROVE TypeOK'
  BY <1>13 DEF Disconnect, TypeOK
<1>14. ASSUME NEW e \in Ends, Despawn(e) PROVE TypeOK'
  <2>1. Home[e] \in Apps
    BY <1>14, EndsAre DEF Despawn, Applying
  <2>2. commands' \in [Apps -> SUBSET ({"insert", "despawn"} \X Ends)]
    BY <1>14, <2>1, QueueKeepsType DEF Despawn
  <2> QED BY <1>14, <2>2 DEF Despawn, TypeOK
<1>15. ASSUME NEW e \in Ends, TasksStart(e) PROVE TypeOK'
  <2>1. half' \in [Ends -> [Halves -> {"none", "running", "finished", "cached"}]]
    BY <1>15 DEF TasksStart, TypeOK
  <2>2. entity' \in [Ends -> {"attempt", "live", "gone"}]
    BY <1>15 DEF TasksStart, TypeOK
  <2> QED BY <1>15, <2>1, <2>2 DEF TasksStart, TypeOK
<1>16. ASSUME NEW e \in Ends, Carry(e) PROVE TypeOK'
  <2> DEFINE p == Peer[e]
  <2>1. p \in Ends /\ wire[e] \in Seq(Packets) /\ wire[e] # <<>> /\ inbound[p] \in Seq(Packets)
        /\ Len(inbound[p]) \in Nat /\ InboundSize \in Nat /\ Len(inbound[p]) <= InboundSize
    BY <1>16, EndsAre, LenProperties DEF Carry, Arriving, TypeOK
  <2>2. Head(wire[e]) \in Packets /\ Tail(wire[e]) \in Seq(Packets)
    BY <2>1, HeadTailProperties
  <2>3. wire' \in [Ends -> Seq(Packets)]
    BY <1>16, <2>2 DEF Carry, Arriving, TypeOK
  <2>4. inbound' = [inbound EXCEPT ![p] = IF NoRoom(p) THEN inbound[p] ELSE Append(inbound[p], Head(wire[e]))]
    BY <1>16 DEF Carry
  <2> HIDE DEF p
  <2>5. inbound' \in [Ends -> Seq(Packets)] /\ \A x \in Ends : Len(inbound'[x]) <= InboundSize
    <3>1. CASE NoRoom(p)
      BY <2>1, <2>4, <3>1 DEF TypeOK
    <3>2. CASE ~NoRoom(p)
      <4>1. /\ Append(inbound[p], Head(wire[e])) \in Seq(Packets)
            /\ Len(Append(inbound[p], Head(wire[e]))) = Len(inbound[p]) + 1
        BY <2>1, <2>2, AppendProperties
      <4>2. Len(inbound[p]) + 1 <= InboundSize
        BY <2>1, <3>2 DEF NoRoom
      <4>3. inbound' = [inbound EXCEPT ![p] = Append(inbound[p], Head(wire[e]))]
        BY <2>4, <3>2
      <4> QED BY <2>1, <4>1, <4>2, <4>3 DEF TypeOK
    <3> QED BY <3>1, <3>2
  <2> QED BY <1>16, <2>3, <2>5 DEF Carry, TypeOK
<1>17. ASSUME NEW e \in Ends, CarryElsewhere(e) PROVE TypeOK'
  <2> DEFINE p == Peer[e]
  <2>1. p \in Ends /\ wire[e] \in Seq(Packets) /\ wire[e] # <<>> /\ received[p] \in Seq(Packets)
    BY <1>17, EndsAre DEF CarryElsewhere, Arriving, TypeOK
  <2>2. Head(wire[e]) \in Packets /\ Tail(wire[e]) \in Seq(Packets)
    BY <2>1, HeadTailProperties
  <2>3. wire' \in [Ends -> Seq(Packets)]
    BY <1>17, <2>2 DEF CarryElsewhere, Arriving, TypeOK
  <2>4. Append(received[p], Head(wire[e])) \in Seq(Packets)
    BY <2>1, <2>2, AppendProperties
  <2>5. received' \in [Ends -> Seq(Packets)]
    BY <1>17, <2>1, <2>4 DEF CarryElsewhere, TypeOK
  <2> QED BY <1>17, <2>3, <2>5 DEF CarryElsewhere, TypeOK
<1>18. ASSUME NEW e \in Ends, SendElsewhere(e) PROVE TypeOK'
  <2>1. pushed[e] \in Nat /\ pushed[e] + 1 \in 1 .. MaxPackets[e]
    BY <1>18, EndsAre DEF SendElsewhere, TypeOK
  <2>2. Append(wire[e], <<e, pushed[e] + 1>>) \in Seq(Packets)
    BY <2>1, PacketIs DEF TypeOK
  <2>3. wire' \in [Ends -> Seq(Packets)]
    BY <1>18, <2>2 DEF SendElsewhere, TypeOK
  <2>4. pushed' \in [Ends -> Nat] /\ \A x \in Ends : pushed'[x] <= MaxPackets[x]
    BY <1>18, <2>1, SMTT(30) DEF SendElsewhere, TypeOK
  <2> QED BY <1>18, <2>3, <2>4 DEF SendElsewhere, TypeOK
<1>19. ASSUME NEW e \in Ends, NEW h \in Halves, TaskEnds(e, h) PROVE TypeOK'
  <2>1. half' \in [Ends -> [Halves -> {"none", "running", "finished", "cached"}]]
    BY <1>19 DEF TaskEnds, TypeOK
  <2>2. wire' \in [Ends -> Seq(Packets)]
    <3>1. CASE h = "send"
      <4>1. PICK n \in 0 .. Len(wire[e]) : wire' = [wire EXCEPT ![e] = SubSeq(wire[e], 1, n)]
        BY <1>19, <3>1 DEF TaskEnds
      <4>2. SubSeq(wire[e], 1, n) \in Seq(Packets)
        BY FirstItems DEF TypeOK
      <4> QED BY <4>1, <4>2 DEF TypeOK
    <3>2. CASE h # "send"
      <4>1. wire' = [wire EXCEPT ![Peer[e]] = <<>>]
        BY <1>19, <3>2 DEF TaskEnds
      <4> QED BY <4>1, EmptySeq DEF TypeOK
    <3> QED BY <3>1, <3>2
  <2> QED BY <1>19, <2>1, <2>2, SMTT(30) DEF TaskEnds, TypeOK
<1>20. CASE UNCHANGED vars
  BY <1>20 DEF vars, TypeOK
<1> QED BY <1>1, <1>2, <1>3, <1>4, <1>5, <1>6, <1>7, <1>8, <1>9, <1>10, <1>11, <1>12,
           <1>13, <1>14, <1>15, <1>16, <1>17, <1>18, <1>19, <1>20
        DEF Next, Frame, User, Network, EndsByItself, EndsWhenTold
-----------------------------------------------------------------------------
(* The handlers and the application queue commands for the app's own entities,
   and the end of a schedule clears the queue. *)
LEMMA QueueFits ==
  ASSUME TypeOK, CommandsFit, NEW a \in Apps, NEW what \in {"insert", "despawn"},
         NEW S, Queue(a, what, S), UNCHANGED entity,
         \A e \in S : Home[e] = a /\ (what = "insert" => entity[e] = "attempt")
  PROVE  CommandsFit'
<1>1. commands' = [commands EXCEPT ![a] = commands[a] \cup ({what} \X S)]
  BY DEF Queue
<1>2. ASSUME NEW b \in Apps, NEW e \in Ends, NEW w \in {"insert", "despawn"}, <<w, e>> \in commands'[b]
      PROVE  <<w, e>> \in commands[b] \/ (b = a /\ w = what /\ e \in S)
  BY <1>1, <1>2 DEF TypeOK
<1> QED BY <1>2 DEF CommandsFit

(* Attempts are queued as attempts, and remain so until their command is applied:
   only the end of the schedule, which applies it, changes an entity of an app. *)
LEMMA CommandsStep ==
  ASSUME TypeOK, CommandsFit, ElsewhereUntouched, [Next]_vars
  PROVE  CommandsFit'
<1> USE DEF frame, stream, session
<1>1. ASSUME NEW a \in Apps, StartRecv(a) PROVE CommandsFit'
  BY <1>1 DEF StartRecv, CommandsFit
<1>2. ASSUME NEW a \in Apps, RecvEntity(a) PROVE CommandsFit'
  BY <1>2 DEF RecvEntity, CommandsFit
<1>3. ASSUME NEW a \in Apps, SessionSend(a) PROVE CommandsFit'
  BY <1>3 DEF SessionSend, CommandsFit
<1>4. ASSUME NEW a \in Apps, Attempts(a) PROVE CommandsFit'
  <2> DEFINE S == {e \in Ends : Home[e] = a /\ entity[e] = "attempt" /\ \A h \in Halves : half[e][h] # "none"}
  <2>1. Queue(a, "insert", S) /\ UNCHANGED entity
    BY <1>4 DEF Attempts
  <2>2. \A e \in S : Home[e] = a /\ entity[e] = "attempt"
    OBVIOUS
  <2> HIDE DEF S
  <2> QED BY <2>1, <2>2, QueueFits
<1>5. ASSUME NEW a \in Apps, RecDisconnections(a) PROVE CommandsFit'
  <2> DEFINE S == {e \in Live(a) : Reason(e, "rec")}
  <2>1. Queue(a, "despawn", S) /\ UNCHANGED entity
    BY <1>5 DEF RecDisconnections, HandleDisconnections
  <2>2. \A e \in S : Home[e] = a
    BY LiveAre
  <2> HIDE DEF S
  <2> QED BY <2>1, <2>2, QueueFits
<1>6. ASSUME NEW a \in Apps, SendDisconnections(a) PROVE CommandsFit'
  <2> DEFINE S == {e \in Live(a) : Reason(e, "send")}
  <2>1. Queue(a, "despawn", S) /\ UNCHANGED entity
    BY <1>6 DEF SendDisconnections, HandleDisconnections
  <2>2. \A e \in S : Home[e] = a
    BY LiveAre
  <2> HIDE DEF S
  <2> QED BY <2>1, <2>2, QueueFits
<1>7. ASSUME NEW a \in Apps, ApplicationDone(a) PROVE CommandsFit'
  BY <1>7 DEF ApplicationDone, CommandsFit
<1>8. ASSUME NEW a \in Apps, FireSend(a) PROVE CommandsFit'
  BY <1>8 DEF FireSend, Fire, CommandsFit
<1>9. ASSUME NEW a \in Apps, FireRec(a) PROVE CommandsFit'
  BY <1>9 DEF FireRec, Fire, CommandsFit
<1>10. ASSUME NEW a \in Apps, NextSchedule(a) PROVE CommandsFit'
  <2>1. commands' = [commands EXCEPT ![a] = {}]
    BY <1>10 DEF NextSchedule
  <2>2. ASSUME NEW e \in Ends, Home[e] # a PROVE entity'[e] = entity[e]
    <3>1. <<"despawn", e>> \notin commands[a] /\ <<"insert", e>> \notin commands[a]
      BY <2>2 DEF CommandsFit
    <3> QED BY <1>10, <3>1 DEF NextSchedule
  <2>3. ASSUME NEW b \in Apps, NEW e \in Ends, NEW w \in {"insert", "despawn"}, <<w, e>> \in commands'[b]
        PROVE  b # a /\ <<w, e>> \in commands[b]
    BY <2>1, <2>3 DEF TypeOK
  <2> QED BY <2>2, <2>3 DEF CommandsFit
<1>11. ASSUME NEW e \in Ends, Push(e) PROVE CommandsFit'
  BY <1>11 DEF Push, CommandsFit
<1>12. ASSUME NEW e \in Ends, Consume(e) PROVE CommandsFit'
  BY <1>12 DEF Consume, CommandsFit
<1>13. ASSUME NEW e \in Ends, Disconnect(e) PROVE CommandsFit'
  BY <1>13 DEF Disconnect, CommandsFit
<1>14. ASSUME NEW e \in Ends, Despawn(e) PROVE CommandsFit'
  <2>1. Home[e] \in Apps
    BY <1>14, EndsAre DEF Despawn, Applying
  <2>2. Queue(Home[e], "despawn", {e}) /\ UNCHANGED entity
    BY <1>14 DEF Despawn
  <2> QED BY <2>1, <2>2, QueueFits
<1>15. ASSUME NEW e \in Ends, TasksStart(e) PROVE CommandsFit'
  <2>1. UNCHANGED commands
    BY <1>15 DEF TasksStart
  <2>2. \A x \in Ends : Home[x] \in Apps => entity'[x] = entity[x]
    BY <1>15, EndsAre DEF TasksStart, TypeOK
  <2> QED BY <2>1, <2>2 DEF CommandsFit
<1>16. ASSUME NEW e \in Ends, Carry(e) PROVE CommandsFit'
  BY <1>16 DEF Carry, CommandsFit
<1>17. ASSUME NEW e \in Ends, CarryElsewhere(e) PROVE CommandsFit'
  BY <1>17 DEF CarryElsewhere, CommandsFit
<1>18. ASSUME NEW e \in Ends, SendElsewhere(e) PROVE CommandsFit'
  BY <1>18 DEF SendElsewhere, CommandsFit
<1>19. ASSUME NEW e \in Ends, NEW h \in Halves, TaskEnds(e, h) PROVE CommandsFit'
  BY <1>19 DEF TaskEnds, CommandsFit
<1>20. CASE UNCHANGED vars
  BY <1>20 DEF vars, CommandsFit
<1> QED BY <1>1, <1>2, <1>3, <1>4, <1>5, <1>6, <1>7, <1>8, <1>9, <1>10, <1>11, <1>12,
           <1>13, <1>14, <1>15, <1>16, <1>17, <1>18, <1>19, <1>20
        DEF Next, Frame, User, Network, EndsByItself, EndsWhenTold

(* Serving an entity is all that uses the buffer, and it leaves nothing there. *)
LEMMA BufferStep ==
  ASSUME TypeOK, NothingLeft, [Next]_vars
  PROVE  NothingLeft'
<1> USE DEF frame, stream, session
<1>1. ASSUME NEW a \in Apps, StartRecv(a) PROVE NothingLeft'
  BY <1>1 DEF StartRecv, NothingLeft
<1>2. ASSUME NEW a \in Apps, RecvEntity(a) PROVE NothingLeft'
  <2>1. buffer' = [buffer EXCEPT ![a] = <<>>]
    BY <1>2, ServingIs
  <2> QED BY <2>1 DEF NothingLeft, TypeOK
<1>3. ASSUME NEW a \in Apps, SessionSend(a) PROVE NothingLeft'
  BY <1>3 DEF SessionSend, NothingLeft
<1>4. ASSUME NEW a \in Apps, Attempts(a) PROVE NothingLeft'
  BY <1>4 DEF Attempts, NothingLeft
<1>5. ASSUME NEW a \in Apps, RecDisconnections(a) PROVE NothingLeft'
  BY <1>5 DEF RecDisconnections, NothingLeft
<1>6. ASSUME NEW a \in Apps, SendDisconnections(a) PROVE NothingLeft'
  BY <1>6 DEF SendDisconnections, NothingLeft
<1>7. ASSUME NEW a \in Apps, ApplicationDone(a) PROVE NothingLeft'
  BY <1>7 DEF ApplicationDone, NothingLeft
<1>8. ASSUME NEW a \in Apps, FireSend(a) PROVE NothingLeft'
  BY <1>8 DEF FireSend, Fire, NothingLeft
<1>9. ASSUME NEW a \in Apps, FireRec(a) PROVE NothingLeft'
  BY <1>9 DEF FireRec, Fire, NothingLeft
<1>10. ASSUME NEW a \in Apps, NextSchedule(a) PROVE NothingLeft'
  BY <1>10 DEF NextSchedule, NothingLeft
<1>11. ASSUME NEW e \in Ends, Push(e) PROVE NothingLeft'
  BY <1>11 DEF Push, NothingLeft
<1>12. ASSUME NEW e \in Ends, Consume(e) PROVE NothingLeft'
  BY <1>12 DEF Consume, NothingLeft
<1>13. ASSUME NEW e \in Ends, Disconnect(e) PROVE NothingLeft'
  BY <1>13 DEF Disconnect, NothingLeft
<1>14. ASSUME NEW e \in Ends, Despawn(e) PROVE NothingLeft'
  BY <1>14 DEF Despawn, NothingLeft
<1>15. ASSUME NEW e \in Ends, TasksStart(e) PROVE NothingLeft'
  BY <1>15 DEF TasksStart, NothingLeft
<1>16. ASSUME NEW e \in Ends, Carry(e) PROVE NothingLeft'
  BY <1>16 DEF Carry, NothingLeft
<1>17. ASSUME NEW e \in Ends, CarryElsewhere(e) PROVE NothingLeft'
  BY <1>17 DEF CarryElsewhere, NothingLeft
<1>18. ASSUME NEW e \in Ends, SendElsewhere(e) PROVE NothingLeft'
  BY <1>18 DEF SendElsewhere, NothingLeft
<1>19. ASSUME NEW e \in Ends, NEW h \in Halves, TaskEnds(e, h) PROVE NothingLeft'
  BY <1>19 DEF TaskEnds, NothingLeft
<1>20. CASE UNCHANGED vars
  BY <1>20 DEF vars, NothingLeft
<1> QED BY <1>1, <1>2, <1>3, <1>4, <1>5, <1>6, <1>7, <1>8, <1>9, <1>10, <1>11, <1>12,
           <1>13, <1>14, <1>15, <1>16, <1>17, <1>18, <1>19, <1>20
        DEF Next, Frame, User, Network, EndsByItself, EndsWhenTold

(* Systems see the entities of their app, and applications those of an app. *)
LEMMA ElsewhereStep ==
  ASSUME TypeOK, CommandsFit, NothingLeft, ElsewhereUntouched, [Next]_vars
  PROVE  ElsewhereUntouched'
<1> USE DEF frame, stream, session
<1>1. ASSUME NEW a \in Apps, StartRecv(a) PROVE ElsewhereUntouched'
  BY <1>1 DEF StartRecv, ElsewhereUntouched
<1>2. ASSUME NEW a \in Apps, RecvEntity(a) PROVE ElsewhereUntouched'
  <2>1. PICK e \in Ends, n \in Nat :
           /\ n \in 0 .. Len(inbound[e])
           /\ inbound' = [inbound EXCEPT ![e] = SubSeq(inbound[e], n + 1, Len(inbound[e]))]
    BY <1>2, ServingIs
  <2>2. UNCHANGED <<entity, backlog, events>>
    BY <1>2 DEF RecvEntity
  <2>3. ASSUME NEW x \in Ends, inbound[x] = <<>> PROVE inbound'[x] = <<>>
    <3>1. CASE x = e
      <4>1. Len(inbound[e]) = 0 /\ n = 0
        BY <2>1, <2>3, <3>1, EmptySeq
      <4>2. SubSeq(inbound[e], n + 1, Len(inbound[e])) = <<>>
        BY <4>1, SubSeqEmpty
      <4> QED BY <2>1, <3>1, <4>2 DEF TypeOK
    <3>2. CASE x # e
      BY <2>1, <2>3, <3>2 DEF TypeOK
    <3> QED BY <3>1, <3>2
  <2> QED BY <2>2, <2>3 DEF ElsewhereUntouched
<1>3. ASSUME NEW a \in Apps, SessionSend(a) PROVE ElsewhereUntouched'
  <2>1. PICK n \in [Ends -> Nat] :
             /\ \A e \in Ends : n[e] \in 0 .. Len(backlog[e])
             /\ backlog' = [e \in Ends |-> SubSeq(backlog[e], n[e] + 1, Len(backlog[e]))]
    BY <1>3, SendingIs
  <2>2. UNCHANGED <<entity, inbound, events>>
    BY <1>3 DEF SessionSend
  <2>3. ASSUME NEW x \in Ends, backlog[x] = <<>> PROVE backlog'[x] = <<>>
    <3>1. Len(backlog[x]) = 0 /\ n[x] = 0
      BY <2>1, <2>3, EmptySeq
    <3>2. SubSeq(backlog[x], n[x] + 1, Len(backlog[x])) = <<>>
      BY <3>1, SubSeqEmpty
    <3> QED BY <2>1, <3>2
  <2> QED BY <2>2, <2>3 DEF ElsewhereUntouched
<1>4. ASSUME NEW a \in Apps, Attempts(a) PROVE ElsewhereUntouched'
  BY <1>4 DEF Attempts, ElsewhereUntouched
<1>5. ASSUME NEW a \in Apps, RecDisconnections(a) PROVE ElsewhereUntouched'
  BY <1>5 DEF RecDisconnections, ElsewhereUntouched
<1>6. ASSUME NEW a \in Apps, SendDisconnections(a) PROVE ElsewhereUntouched'
  BY <1>6 DEF SendDisconnections, ElsewhereUntouched
<1>7. ASSUME NEW a \in Apps, ApplicationDone(a) PROVE ElsewhereUntouched'
  BY <1>7 DEF ApplicationDone, ElsewhereUntouched
<1>8. ASSUME NEW a \in Apps, FireSend(a) PROVE ElsewhereUntouched'
  <2>1. \A e \in Ends : Home[e] = Elsewhere => e \notin Live(a)
    BY LiveAre, EndsAre
  <2>2. \A e \in Ends : Home[e] = Elsewhere => events'[e] = events[e]
    BY <1>8, <2>1 DEF FireSend, Fire
  <2> QED BY <1>8, <2>2 DEF FireSend, Fire, ElsewhereUntouched
<1>9. ASSUME NEW a \in Apps, FireRec(a) PROVE ElsewhereUntouched'
  <2>1. \A e \in Ends : Home[e] = Elsewhere => e \notin Live(a)
    BY LiveAre, EndsAre
  <2>2. \A e \in Ends : Home[e] = Elsewhere => events'[e] = events[e]
    BY <1>9, <2>1 DEF FireRec, Fire
  <2> QED BY <1>9, <2>2 DEF FireRec, Fire, ElsewhereUntouched
<1>10. ASSUME NEW a \in Apps, NextSchedule(a) PROVE ElsewhereUntouched'
  <2>1. ASSUME NEW e \in Ends, Home[e] = Elsewhere
        PROVE  entity'[e] = entity[e] /\ inbound'[e] = inbound[e] /\ backlog'[e] = backlog[e]
    <3>1. <<"despawn", e>> \notin commands[a] /\ <<"insert", e>> \notin commands[a]
      BY <2>1, EndsAre DEF CommandsFit
    <3> QED BY <1>10, <3>1 DEF NextSchedule
  <2>2. UNCHANGED events
    BY <1>10 DEF NextSchedule
  <2> QED BY <2>1, <2>2 DEF ElsewhereUntouched
<1>11. ASSUME NEW e \in Ends, Push(e) PROVE ElsewhereUntouched'
  <2>1. \A x \in Ends : Home[x] = Elsewhere => backlog'[x] = backlog[x]
    BY <1>11, EndsAre DEF Push, Applying, TypeOK
  <2> QED BY <1>11, <2>1 DEF Push, ElsewhereUntouched
<1>12. ASSUME NEW e \in Ends, Consume(e) PROVE ElsewhereUntouched'
  BY <1>12 DEF Consume, ElsewhereUntouched
<1>13. ASSUME NEW e \in Ends, Disconnect(e) PROVE ElsewhereUntouched'
  BY <1>13 DEF Disconnect, ElsewhereUntouched
<1>14. ASSUME NEW e \in Ends, Despawn(e) PROVE ElsewhereUntouched'
  BY <1>14 DEF Despawn, ElsewhereUntouched
<1>15. ASSUME NEW e \in Ends, TasksStart(e) PROVE ElsewhereUntouched'
  <2>1. UNCHANGED <<inbound, backlog, events>>
    BY <1>15 DEF TasksStart
  <2>2. \A x \in Ends : entity[x] # "gone" => entity'[x] # "gone"
    BY <1>15 DEF TasksStart, TypeOK
  <2> QED BY <2>1, <2>2 DEF ElsewhereUntouched
<1>16. ASSUME NEW e \in Ends, Carry(e) PROVE ElsewhereUntouched'
  <2>1. UNCHANGED <<entity, backlog, events>>
    BY <1>16 DEF Carry
  <2>2. \A x \in Ends : Home[x] = Elsewhere => inbound'[x] = inbound[x]
    BY <1>16, EndsAre, ZenonT(40) DEF Carry, TypeOK
  <2> QED BY <2>1, <2>2 DEF ElsewhereUntouched
<1>17. ASSUME NEW e \in Ends, CarryElsewhere(e) PROVE ElsewhereUntouched'
  BY <1>17 DEF CarryElsewhere, ElsewhereUntouched
<1>18. ASSUME NEW e \in Ends, SendElsewhere(e) PROVE ElsewhereUntouched'
  BY <1>18 DEF SendElsewhere, ElsewhereUntouched
<1>19. ASSUME NEW e \in Ends, NEW h \in Halves, TaskEnds(e, h) PROVE ElsewhereUntouched'
  BY <1>19 DEF TaskEnds, ElsewhereUntouched
<1>20. CASE UNCHANGED vars
  BY <1>20 DEF vars, ElsewhereUntouched
<1> QED BY <1>1, <1>2, <1>3, <1>4, <1>5, <1>6, <1>7, <1>8, <1>9, <1>10, <1>11, <1>12,
           <1>13, <1>14, <1>15, <1>16, <1>17, <1>18, <1>19, <1>20
        DEF Next, Frame, User, Network, EndsByItself, EndsWhenTold
-----------------------------------------------------------------------------
(* An entity's doom is sealed: neither a system other than the handler that is
   to queue its despawn, nor a command that is added, changes it. *)
LEMMA DoomStays ==
  ASSUME NEW e \in Ends, NEW h \in Halves, Doomed(e, h), UNCHANGED schedule,
         todo'[Home[e]] \subseteq todo[Home[e]],
         Handler(h) \in todo[Home[e]] => Handler(h) \in todo'[Home[e]],
         commands[Home[e]] \subseteq commands'[Home[e]]
  PROVE  Doomed(e, h)'
  BY DEF Doomed, Handler, Announcer

(* Whoever asks, a half that ended has ended. *)
LEMMA CacheKeepsEnd ==
  ASSUME TypeOK, NEW a \in Apps, NEW k \in Halves, Cache(a, k)
  PROVE  \A e \in Ends, h \in Halves : Ended(e, h)' <=> Ended(e, h)
  BY DEF Cache, Ended, TypeOK

(* A step that announces nothing, changes no entity and leaves the doomed ones
   doomed keeps the announcements. *)
LEMMA NoNews ==
  ASSUME Announcements, UNCHANGED <<entity, events>>,
         \A e \in Ends, h \in Halves : Ended(e, h) => Ended(e, h)',
         \A e \in Ends, h \in Halves :
            events[e][h] > 0 /\ entity[e] = "live" /\ Doomed(e, h) => Doomed(e, h)'
  PROVE  Announcements'
  BY DEF Announcements

(* A system that announces no end of a half and handles none keeps the doomed
   doomed. *)
LEMMA SystemRuns ==
  ASSUME TypeOK, ElsewhereUntouched, Announcements, NEW a \in Apps, NEW s, Runs(a, s),
         \A h \in Halves : s # Handler(h),
         UNCHANGED <<schedule, entity, events>>,
         \A e \in Ends, h \in Halves : Ended(e, h) => Ended(e, h)',
         \A b \in Apps : commands[b] \subseteq commands'[b]
  PROVE  Announcements'
<1>1. ASSUME NEW e \in Ends, NEW h \in Halves, events[e][h] > 0, Doomed(e, h) PROVE Doomed(e, h)'
  <2>1. Home[e] \in Apps
    <3>1. events[e][h] # 0
      BY <1>1 DEF TypeOK
    <3> QED BY <3>1, EndsAre DEF ElsewhereUntouched
  <2>2. /\ todo'[Home[e]] \subseteq todo[Home[e]] /\ commands[Home[e]] \subseteq commands'[Home[e]]
        /\ Handler(h) \in todo[Home[e]] => Handler(h) \in todo'[Home[e]]
    BY <2>1, RunningIs
  <2> QED BY <1>1, <2>2, DoomStays
<1> QED BY <1>1, NoNews

(* An announcement is the first one, and seals the doom of a live entity. *)
LEMMA Announces ==
  ASSUME TypeOK, ElsewhereUntouched, Announcements, NEW a \in Apps, NEW k \in Halves,
         Runs(a, Announcer(k)), Fire(a, k)
  PROVE  Announcements'
<1>1. /\ UNCHANGED <<schedule, entity, commands>>
      /\ events' = [e \in Ends |->
                      IF e \in Live(a) /\ Ended(e, k) THEN [events[e] EXCEPT ![k] = @ + 1] ELSE events[e]]
  BY DEF Fire, Reason
<1>2. \A e \in Ends, h \in Halves : Ended(e, h)' <=> Ended(e, h)
  BY CacheKeepsEnd DEF Fire
<1>3. schedule[a] = "PostUpdate" /\ Announcer(k) \in todo[a] /\ Announcer(k) \notin todo'[a]
  BY RunningIs, SystemsAre DEF Announcer
<1>4. ASSUME NEW e \in Ends, NEW h \in Halves, events'[e][h] > 0
      PROVE  /\ events'[e][h] = 1 /\ Ended(e, h)'
             /\ entity'[e] = "gone" \/ (entity'[e] = "live" /\ Doomed(e, h)')
  <2>1. events[e] \in [Halves -> Nat] /\ events[e][h] \in Nat
    BY DEF TypeOK
  <2>2. CASE e \in Live(a) /\ Ended(e, k) /\ h = k
    <3>1. Home[e] = a /\ entity[e] = "live"
      BY <2>2, LiveAre
    <3>2. ~Doomed(e, k)
      BY <1>3, <3>1 DEF Doomed
    <3>3. events[e][k] = 0
      BY <2>1, <2>2, <3>1, <3>2 DEF Announcements
    <3>4. events'[e][k] = 1
      BY <1>1, <2>1, <2>2, <3>3
    <3>5. Doomed(e, k)'
      BY <1>1, <1>3, <3>1 DEF Doomed
    <3> QED BY <1>1, <1>2, <2>2, <3>1, <3>4, <3>5
  <2>3. CASE ~(e \in Live(a) /\ Ended(e, k) /\ h = k)
    <3>1. events'[e][h] = events[e][h]
      BY <1>1, <2>1, <2>3
    <3>2. events[e][h] = 1 /\ Ended(e, h) /\ (entity[e] = "gone" \/ (entity[e] = "live" /\ Doomed(e, h)))
      BY <1>4, <3>1 DEF Announcements
    <3>3. Doomed(e, h) => Doomed(e, h)'
      <4>1. Home[e] \in Apps
        BY <3>2, EndsAre DEF ElsewhereUntouched
      <4>2. Announcer(k) # Handler(h)
        BY DEF Announcer, Handler
      <4>3. /\ todo'[Home[e]] \subseteq todo[Home[e]] /\ commands[Home[e]] \subseteq commands'[Home[e]]
            /\ Handler(h) \in todo[Home[e]] => Handler(h) \in todo'[Home[e]]
        BY <1>1, <4>1, <4>2, RunningIs
      <4> QED BY <1>1, <4>3, DoomStays
    <3> QED BY <1>1, <1>2, <3>1, <3>2, <3>3
  <2> QED BY <2>2, <2>3
<1> QED BY <1>4 DEF Announcements

(* A handler queues the despawn of the entities whose half ended. *)
LEMMA Handles ==
  ASSUME TypeOK, ElsewhereUntouched, Announcements, NEW a \in Apps, NEW k \in Halves,
         Runs(a, Handler(k)), HandleDisconnections(a, k), UNCHANGED <<schedule, entity, events>>
  PROVE  Announcements'
<1>1. commands' = [commands EXCEPT ![a] = commands[a] \cup ({"despawn"} \X {e \in Live(a) : Ended(e, k)})]
  BY DEF HandleDisconnections, Queue, Reason
<1>2. \A e \in Ends, h \in Halves : Ended(e, h) => Ended(e, h)'
  BY CacheKeepsEnd DEF HandleDisconnections
<1>3. \A b \in Apps : commands[b] \subseteq commands'[b]
  BY <1>1 DEF TypeOK
<1>4. ASSUME NEW e \in Ends, NEW h \in Halves, events[e][h] > 0, entity[e] = "live", Doomed(e, h)
      PROVE  Doomed(e, h)'
  <2>1. Home[e] \in Apps
    <3>1. events[e][h] # 0
      BY <1>4 DEF TypeOK
    <3> QED BY <3>1, EndsAre DEF ElsewhereUntouched
  <2>2. CASE Home[e] = a /\ h = k
    <3>1. schedule[a] = "Update"
      BY RunningIs, SystemsAre DEF Handler
    <3>2. e \in Live(a) /\ Ended(e, k)
      BY <1>4, <2>2 DEF Live, Announcements
    <3>3. <<"despawn", e>> \in commands'[a]
      BY <1>1, <3>2 DEF TypeOK
    <3> QED BY <2>2, <3>1, <3>3 DEF Doomed
  <2>3. CASE ~(Home[e] = a /\ h = k)
    <3>1. Handler(h) \in todo[Home[e]] => Handler(h) \in todo'[Home[e]]
      BY <2>1, <2>3, RunningIs DEF Handler, Halves
    <3>2. todo'[Home[e]] \subseteq todo[Home[e]]
      BY <2>1, RunningIs
    <3> QED BY <1>3, <1>4, <2>1, <3>1, <3>2, DoomStays
  <2> QED BY <2>2, <2>3
<1> QED BY <1>2, <1>4, NoNews

(* At the end of Update the doomed entities go, and none comes back. *)
LEMMA ScheduleEnds ==
  ASSUME TypeOK, CommandsFit, ElsewhereUntouched, Announcements, NEW a \in Apps, NextSchedule(a)
  PROVE  Announcements'
<1>1. /\ todo[a] = {} /\ UNCHANGED <<half, events>>
      /\ schedule' = [schedule EXCEPT ![a] = Following[schedule[a]]]
      /\ todo' = [todo EXCEPT ![a] = Systems[Following[schedule[a]]]]
      /\ commands' = [commands EXCEPT ![a] = {}]
      /\ entity' = [e \in Ends |-> IF <<"despawn", e>> \in commands[a] THEN "gone"
                                   ELSE IF <<"insert", e>> \in commands[a] THEN "live"
                                   ELSE entity[e]]
  BY DEF NextSchedule, stream
<1>2. ASSUME NEW e \in Ends, NEW h \in Halves, events'[e][h] > 0
      PROVE  /\ events'[e][h] = 1 /\ Ended(e, h)'
             /\ entity'[e] = "gone" \/ (entity'[e] = "live" /\ Doomed(e, h)')
  <2>1. events[e][h] = 1 /\ Ended(e, h) /\ (entity[e] = "gone" \/ (entity[e] = "live" /\ Doomed(e, h)))
    BY <1>1, <1>2 DEF Announcements
  <2>2. events'[e][h] = 1 /\ Ended(e, h)'
    BY <1>1, <2>1 DEF Ended
  <2>3. \A b \in Apps : <<"insert", e>> \notin commands[b]
    BY <2>1 DEF CommandsFit
  <2>4. CASE entity[e] = "gone" \/ <<"despawn", e>> \in commands[a]
    BY <1>1, <2>2, <2>3, <2>4
  <2>5. CASE entity[e] = "live" /\ <<"despawn", e>> \notin commands[a]
    <3>1. entity'[e] = "live" /\ Doomed(e, h)
      BY <1>1, <2>1, <2>3, <2>5
    <3>2. Home[e] \in Apps
      BY <2>1, EndsAre DEF ElsewhereUntouched
    <3>3. CASE Home[e] = a
      <4>1. schedule[a] \in {"PostUpdate", "PreUpdate"}
        BY <1>1, <2>5, <3>1, <3>3 DEF Doomed
      <4>2. CASE schedule[a] = "PostUpdate"
        <5>1. schedule'[a] = "PreUpdate"
          BY <1>1, <4>2, SystemsAre DEF TypeOK
        <5> QED BY <2>2, <3>1, <3>3, <5>1 DEF Doomed
      <4>3. CASE schedule[a] = "PreUpdate"
        <5>1. schedule'[a] = "Update" /\ todo'[a] = Systems["Update"]
          BY <1>1, <4>3, SystemsAre DEF TypeOK
        <5>2. Handler(h) \in todo'[a]
          BY <5>1, SystemsAre DEF Handler
        <5> QED BY <2>2, <3>1, <3>3, <5>1, <5>2 DEF Doomed
      <4> QED BY <4>1, <4>2, <4>3
    <3>4. CASE Home[e] # a
      <4>1. /\ schedule'[Home[e]] = schedule[Home[e]] /\ todo'[Home[e]] = todo[Home[e]]
            /\ commands'[Home[e]] = commands[Home[e]]
        BY <1>1, <3>2, <3>4 DEF TypeOK
      <4> QED BY <2>2, <3>1, <4>1 DEF Doomed
    <3> QED BY <3>3, <3>4
  <2> QED BY <2>1, <2>4, <2>5
<1> QED BY <1>2 DEF Announcements

(* What runs outside of the schedules' systems announces nothing. *)
LEMMA OutsideSystems ==
  ASSUME Announcements, UNCHANGED <<schedule, todo, entity, events>>,
         \A e \in Ends : commands[Home[e]] \subseteq commands'[Home[e]],
         \A e \in Ends, h \in Halves : Ended(e, h) => Ended(e, h)'
  PROVE  Announcements'
<1>1. ASSUME NEW e \in Ends, NEW h \in Halves, Doomed(e, h) PROVE Doomed(e, h)'
  BY <1>1, DoomStays
<1> QED BY <1>1, NoNews

(* Every step keeps an announcement the first and, until the entity goes, the
   last. *)
LEMMA AnnouncementsStep ==
  ASSUME TypeOK, CommandsFit, NothingLeft, ElsewhereUntouched, Announcements, [Next]_vars
  PROVE  Announcements'
<1> USE DEF frame, stream, session
<1>0. \A h \in Halves : Handler(h) \in {"SendDisconnections", "RecDisconnections"}
  BY DEF Handler
<1>1. ASSUME NEW a \in Apps, StartRecv(a) PROVE Announcements'
  <2>1. Runs(a, "SessionRecv") /\ UNCHANGED <<schedule, entity, events, commands, half>>
    BY <1>1 DEF StartRecv
  <2>2. \A e \in Ends, h \in Halves : Ended(e, h) => Ended(e, h)'
    BY <2>1 DEF Ended
  <2> QED BY <1>0, <2>1, <2>2, SystemRuns
<1>2. ASSUME NEW a \in Apps, RecvEntity(a) PROVE Announcements'
  <2>1. UNCHANGED <<schedule, todo, entity, events, commands, half>>
    BY <1>2 DEF RecvEntity
  <2> QED BY <2>1, OutsideSystems DEF Ended
<1>3. ASSUME NEW a \in Apps, SessionSend(a) PROVE Announcements'
  <2>1. Runs(a, "SessionSend") /\ UNCHANGED <<schedule, entity, events, commands, half>>
    BY <1>3 DEF SessionSend
  <2>2. \A e \in Ends, h \in Halves : Ended(e, h) => Ended(e, h)'
    BY <2>1 DEF Ended
  <2> QED BY <1>0, <2>1, <2>2, SystemRuns
<1>4. ASSUME NEW a \in Apps, Attempts(a) PROVE Announcements'
  <2>1. Runs(a, "Attempts") /\ UNCHANGED <<schedule, entity, events, half>>
    BY <1>4 DEF Attempts
  <2>2. \A e \in Ends, h \in Halves : Ended(e, h) => Ended(e, h)'
    BY <2>1 DEF Ended
  <2>3. \A b \in Apps : commands[b] \subseteq commands'[b]
    BY <1>4 DEF Attempts, Queue, TypeOK
  <2> QED BY <1>0, <2>1, <2>2, <2>3, SystemRuns
<1>5. ASSUME NEW a \in Apps, RecDisconnections(a) PROVE Announcements'
  <2>1. /\ Runs(a, Handler("rec")) /\ HandleDisconnections(a, "rec")
        /\ UNCHANGED <<schedule, entity, events>> /\ "rec" \in Halves
    BY <1>5 DEF RecDisconnections, Handler, Halves
  <2> QED BY <2>1, Handles
<1>6. ASSUME NEW a \in Apps, SendDisconnections(a) PROVE Announcements'
  <2>1. /\ Runs(a, Handler("send")) /\ HandleDisconnections(a, "send")
        /\ UNCHANGED <<schedule, entity, events>> /\ "send" \in Halves
    BY <1>6 DEF SendDisconnections, Handler, Halves
  <2> QED BY <2>1, Handles
<1>7. ASSUME NEW a \in Apps, ApplicationDone(a) PROVE Announcements'
  <2>1. Runs(a, "Application") /\ UNCHANGED <<schedule, entity, events, commands, half>>
    BY <1>7 DEF ApplicationDone
  <2>2. \A e \in Ends, h \in Halves : Ended(e, h) => Ended(e, h)'
    BY <2>1 DEF Ended
  <2> QED BY <1>0, <2>1, <2>2, SystemRuns
<1>8. ASSUME NEW a \in Apps, FireSend(a) PROVE Announcements'
  <2>1. Runs(a, Announcer("rec")) /\ Fire(a, "rec") /\ "rec" \in Halves
    BY <1>8 DEF FireSend, Announcer, Halves
  <2> QED BY <2>1, Announces
<1>9. ASSUME NEW a \in Apps, FireRec(a) PROVE Announcements'
  <2>1. Runs(a, Announcer("send")) /\ Fire(a, "send") /\ "send" \in Halves
    BY <1>9 DEF FireRec, Announcer, Halves
  <2> QED BY <2>1, Announces
<1>10. ASSUME NEW a \in Apps, NextSchedule(a) PROVE Announcements'
  BY <1>10, ScheduleEnds
<1>11. ASSUME NEW e \in Ends, Push(e) PROVE Announcements'
  <2>1. UNCHANGED <<schedule, todo, entity, events, commands, half>>
    BY <1>11 DEF Push
  <2> QED BY <2>1, OutsideSystems DEF Ended
<1>12. ASSUME NEW e \in Ends, Consume(e) PROVE Announcements'
  <2>1. UNCHANGED <<schedule, todo, entity, events, commands, half>>
    BY <1>12 DEF Consume
  <2> QED BY <2>1, OutsideSystems DEF Ended
<1>13. ASSUME NEW e \in Ends, Disconnect(e) PROVE Announcements'
  <2>1. UNCHANGED <<schedule, todo, entity, events, commands, half>>
    BY <1>13 DEF Disconnect
  <2> QED BY <2>1, OutsideSystems DEF Ended
<1>14. ASSUME NEW e \in Ends, Despawn(e) PROVE Announcements'
  <2>1. UNCHANGED <<schedule, todo, entity, events, half>>
    BY <1>14 DEF Despawn
  <2>2. \A x \in Ends : commands[Home[x]] \subseteq commands'[Home[x]]
    <3>1. Home[e] \in Apps
      BY <1>14, EndsAre DEF Despawn, Applying
    <3>2. commands' = [commands EXCEPT ![Home[e]] = commands[Home[e]] \cup ({"despawn"} \X {e})]
      BY <1>14 DEF Despawn, Queue
    <3> QED BY <3>1, <3>2 DEF TypeOK
  <2> QED BY <2>1, <2>2, OutsideSystems DEF Ended
<1>15. ASSUME NEW e \in Ends, TasksStart(e) PROVE Announcements'
  <2>1. /\ UNCHANGED <<schedule, todo, commands, events>>
        /\ \A h \in Halves : half[e][h] = "none"
        /\ half' = [half EXCEPT ![e] = [h \in Halves |-> "running"]]
        /\ entity' = entity \/ (Home[e] = Elsewhere /\ entity' = [entity EXCEPT ![e] = "live"])
    BY <1>15 DEF TasksStart
  <2>2. ASSUME NEW x \in Ends, NEW h \in Halves, events[x][h] > 0
        PROVE  x # e /\ half'[x] = half[x] /\ entity'[x] = entity[x]
    <3>1. Ended(x, h)
      BY <2>2 DEF Announcements
    <3>2. x # e
      BY <2>1, <3>1 DEF Ended
    <3> QED BY <2>1, <3>2 DEF TypeOK
  <2>3. \A x \in Ends, h \in Halves : events[x][h] > 0 /\ Doomed(x, h) => Doomed(x, h)'
    BY <2>1 DEF Doomed
  <2> QED BY <2>1, <2>2, <2>3 DEF Announcements, Ended
<1>16. ASSUME NEW e \in Ends, Carry(e) PROVE Announcements'
  <2>1. UNCHANGED <<schedule, todo, entity, events, commands, half>>
    BY <1>16 DEF Carry
  <2> QED BY <2>1, OutsideSystems DEF Ended
<1>17. ASSUME NEW e \in Ends, CarryElsewhere(e) PROVE Announcements'
  <2>1. UNCHANGED <<schedule, todo, entity, events, commands, half>>
    BY <1>17 DEF CarryElsewhere
  <2> QED BY <2>1, OutsideSystems DEF Ended
<1>18. ASSUME NEW e \in Ends, SendElsewhere(e) PROVE Announcements'
  <2>1. UNCHANGED <<schedule, todo, entity, events, commands, half>>
    BY <1>18 DEF SendElsewhere
  <2> QED BY <2>1, OutsideSystems DEF Ended
<1>19. ASSUME NEW e \in Ends, NEW h \in Halves, TaskEnds(e, h) PROVE Announcements'
  <2>1. UNCHANGED <<schedule, todo, entity, events, commands>> /\ half' = [half EXCEPT ![e][h] = "finished"]
    BY <1>19 DEF TaskEnds
  <2>2. \A x \in Ends, k \in Halves : Ended(x, k) => Ended(x, k)'
    BY <2>1 DEF Ended, TypeOK
  <2> QED BY <2>1, <2>2, OutsideSystems
<1>20. CASE UNCHANGED vars
  <2>1. UNCHANGED <<schedule, todo, entity, events, commands, half>>
    BY <1>20 DEF vars
  <2> QED BY <2>1, OutsideSystems DEF Ended
<1> QED BY <1>1, <1>2, <1>3, <1>4, <1>5, <1>6, <1>7, <1>8, <1>9, <1>10, <1>11, <1>12,
           <1>13, <1>14, <1>15, <1>16, <1>17, <1>18, <1>19, <1>20
        DEF Next, Frame, User, Network, EndsByItself, EndsWhenTold
-----------------------------------------------------------------------------
(* At first every app is in its first Update, and every stream is yet to be. *)
LEMMA InitInvariant == Init => IInv
<1> SUFFICES ASSUME Init PROVE IInv
  OBVIOUS
<1>1. <<>> \in Seq(Packets) /\ <<>> \in Seq(Ends) /\ Len(<<>>) = 0
  BY EmptySeq
<1>2. "Update" \in DOMAIN Systems /\ Systems["Update"] \subseteq UNION Range(Systems)
  BY SystemsAre, SystemRange
<1>3. TypeOK
  <2>1. \A e \in Ends : 0 <= MaxPackets[e] /\ 0 <= InboundSize
    BY EndsAre
  <2> QED BY <1>1, <1>2, <2>1 DEF Init, TypeOK
<1>4. CommandsFit /\ NothingLeft
  BY DEF Init, CommandsFit, NothingLeft
<1>5. ElsewhereUntouched /\ Announcements
  BY DEF Init, ElsewhereUntouched, Announcements
<1> QED BY <1>3, <1>4, <1>5 DEF IInv

(* The inductive invariant holds in every reachable state. *)
THEOREM Invariance == Spec => []IInv
<1>1. IInv /\ [Next]_vars => IInv'
  BY TypeStep, CommandsStep, BufferStep, ElsewhereStep, AnnouncementsStep DEF IInv
<1> QED BY InitInvariant, <1>1, PTL DEF Spec

(* Every variable keeps its type: no inbound channel exceeds its size, and no
   system runs outside of its schedule. *)
THEOREM TypeCorrect == Spec => []TypeOK
<1>1. IInv => TypeOK
  BY DEF IInv
<1> QED BY Invariance, <1>1, PTL

(* The end of a half is announced at most once, and not before it ended, in any
   order of the systems and over any number of frames. *)
THEOREM OneAnnouncement == Spec => []AnnouncedOnce
<1>1. IInv => AnnouncedOnce
  <2> SUFFICES ASSUME IInv, NEW e \in Ends, NEW h \in Halves
               PROVE  events[e][h] <= (IF Ended(e, h) THEN 1 ELSE 0)
    BY DEF AnnouncedOnce
  <2>1. events[e][h] \in Nat
    BY DEF IInv, TypeOK
  <2>2. events[e][h] > 0 => events[e][h] = 1 /\ Ended(e, h)
    BY DEF IInv, Announcements
  <2> QED BY <2>1, <2>2
<1> QED BY Invariance, <1>1, PTL
=============================================================================
