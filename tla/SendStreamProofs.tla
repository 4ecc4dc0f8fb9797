-------------------------- MODULE SendStreamProofs --------------------------
(***************************************************************************)
(* Proofs about SendStream, for every number of packets and every size of  *)
(* the channels and of the batch: what a close loses is counted, the       *)
(* reason given for an end is the true one, and the stream implements      *)
(* PacketPipe.                                                             *)
(***************************************************************************)
EXTENDS SendStream, QueueLemmas

(* What the task's position says about its batch and its flag: the batch is
   empty outside of a write, and the flag is raised only on the way to the
   check that ends the loop.  The empty batch of a closed channel is written
   with the flag raised. *)
TaskShape ==
  /\ batch # <<>> => pc = "write"
  /\ pc \in {"select", "close", "flush"} => disconnect = "none"
  /\ pc = "write" => disconnect \in {"none", "MspcChannelClosed"}
  /\ pc = "finished" => disconnect # "none" /\ outbound = <<>>

(* A call keeps its component alive, and counts only while it drains. *)
CallShape ==
  /\ call # "none" => component = "live"
  /\ call # "Drain" => sent = 0

(* Packets on their way, in order.  A drain in progress has copied the first
   packets of the backlog. *)
InFlight == wire \o batch \o outbound \o Unsent

(* No write has failed, and none of the queues was thrown away. *)
Intact ==
  /\ component = "live" /\ pc # "finished" /\ stream # "dead"
  /\ disconnect \notin {"Reset", "InvalidStream"}

(* What the application pushed is on its way until a write fails, the task
   ends, or the component goes with its session. *)
Whereabouts == Intact => InFlight = Numbered(pushed)

(* The inductive invariant. *)
IInv == /\ TypeOK /\ TaskShape /\ CallShape
        /\ ReasonIsTrue /\ NoSendAfterFinish /\ Whereabouts
-----------------------------------------------------------------------------
(* The batch taken from the channel, and what stays there. *)
LEMMA Taking ==
  ASSUME TypeOK
  PROVE  /\ Taken \in 0 .. Len(outbound) /\ Len(outbound) \in Nat
         /\ SubSeq(outbound, 1, Taken) \in Seq(Packets)
         /\ SubSeq(outbound, Taken + 1, Len(outbound)) \in Seq(Packets)
         /\ Len(SubSeq(outbound, Taken + 1, Len(outbound))) <= OutboundSize
         /\ SubSeq(outbound, 1, Taken) \o SubSeq(outbound, Taken + 1, Len(outbound)) = outbound
<1>1. outbound \in Seq(Packets) /\ Len(outbound) \in Nat /\ Len(outbound) <= OutboundSize
  BY LenProperties DEF TypeOK
<1>2. Taken \in 0 .. Len(outbound)
  BY <1>1, SizesAssumption DEF Taken, SizesAssumption
<1> HIDE DEF Taken
<1>3. /\ SubSeq(outbound, Taken + 1, Len(outbound)) \in Seq(Packets)
      /\ Len(SubSeq(outbound, Taken + 1, Len(outbound))) = Len(outbound) - Taken
  BY <1>1, <1>2, RestItems
<1>4. Len(outbound) - Taken <= OutboundSize
  BY <1>1, <1>2, SizesAssumption DEF SizesAssumption
<1>5. SubSeq(outbound, 1, Taken) \in Seq(Packets)
  BY <1>1, <1>2, FirstItems
<1> QED BY <1>1, <1>2, <1>3, <1>4, <1>5, SplitQueue

(* The backlog without the packets that were sent. *)
LEMMA UnsentType ==
  ASSUME TypeOK
  PROVE  Unsent \in Seq(Packets) /\ Len(Unsent) \in Nat /\ Len(backlog) \in Nat
  BY RestItems, LenProperties DEF TypeOK, Unsent

(* Every step keeps every variable in its type. *)
LEMMA TypeStep ==
  ASSUME TypeOK, TaskShape, CallShape, [Next]_vars
  PROVE  TypeOK'
<1> USE DEF bevy, task, quic
<1>1. CASE Push
  <2>1. pushed + 1 \in Packets /\ pushed' \in 0 .. MaxPackets
    BY <1>1, SizesAssumption DEF Push, Packets, TypeOK, SizesAssumption
  <2>2. backlog' \in Seq(Packets) /\ sent' \in 0 .. Len(backlog')
    <3>1. Append(backlog, pushed + 1) \in Seq(Packets) /\ Len(Append(backlog, pushed + 1)) = Len(backlog) + 1
      BY <2>1, AppendProperties DEF TypeOK
    <3> QED BY <1>1, <3>1, UnsentType DEF Push, TypeOK
  <2> QED BY <1>1, <2>1, <2>2 DEF Push, TypeOK
<1>2. ASSUME NEW cmd \in {"Close", "Flush"}, StartControl(cmd) PROVE TypeOK'
  BY <1>2 DEF StartControl, TypeOK
<1>3. CASE Despawn
  <2>1. <<>> \in Seq(Packets) /\ Len(<<>>) = 0 /\ sent = 0
    BY <1>3, EmptySeq DEF Despawn, Idle, CallShape
  <2> QED BY <1>3, <2>1 DEF Despawn, TypeOK
<1>4. CASE DrainItem
  <2>1. backlog[sent + 1] \in Packets
    BY <1>4, UnsentType, ElementOfSeq DEF DrainItem, TypeOK
  <2>2. outbound' \in Seq(Packets) /\ Len(outbound') = Len(outbound) + 1
    BY <1>4, <2>1, AppendProperties DEF DrainItem, TypeOK
  <2>3. Len(outbound') <= OutboundSize
    BY <1>4, <2>2, Taking, SizesAssumption DEF DrainItem, CanSend, SizesAssumption
  <2>4. sent' \in 0 .. Len(backlog')
    BY <1>4, UnsentType DEF DrainItem, TypeOK
  <2> QED BY <1>4, <2>2, <2>3, <2>4 DEF DrainItem, TypeOK
<1>5. CASE FinishDrain
  BY <1>5, UnsentType DEF FinishDrain, TypeOK
<1>6. CASE SendControl
  <2>1. control \in Seq({"Close", "Flush"}) /\ Len(control) \in Nat /\ call \in {"Close", "Flush"}
    BY <1>6, LenProperties DEF SendControl, TypeOK
  <2>2. /\ Append(control, call) \in Seq({"Close", "Flush"})
        /\ Len(Append(control, call)) = Len(control) + 1
    BY <2>1, AppendProperties
  <2>3. control' \in Seq({"Close", "Flush"}) /\ Len(control') <= ControlSize
    <3>1. CASE control' = control
      BY <2>1, <3>1 DEF TypeOK
    <3>2. CASE Len(control) < ControlSize /\ control' = Append(control, call)
      BY <2>1, <2>2, <3>2, SizesAssumption DEF SizesAssumption
    <3> QED BY <1>6, <3>1, <3>2 DEF SendControl
  <2> QED BY <1>6, <2>3 DEF SendControl, TypeOK
<1>7. CASE StartDrain
  BY <1>7, UnsentType DEF StartDrain, TypeOK
<1>8. CASE TakeBatch
  BY <1>8, Taking DEF TakeBatch, TypeOK
<1>9. CASE OutboundClosed
  BY <1>9 DEF OutboundClosed, TypeOK, Reasons
<1>10. CASE TakeControl
  <2>1. control' \in Seq({"Close", "Flush"}) /\ Len(control') = Len(control) - 1 /\ Len(control) \in Nat
    BY <1>10, HeadTailProperties, LenProperties DEF TakeControl, TypeOK
  <2>2. Len(control') <= ControlSize
    BY <2>1, SizesAssumption DEF TypeOK, SizesAssumption
  <2> QED BY <1>10, <2>1, <2>2 DEF TakeControl, TypeOK
<1>11. CASE ControlClosed
  BY <1>11 DEF ControlClosed, TypeOK, Reasons
<1>12. CASE WritePacket
  <2>1. Head(batch) \in Packets /\ Tail(batch) \in Seq(Packets)
    BY <1>12, HeadTailProperties DEF WritePacket, TypeOK
  <2>2. Append(wire, Head(batch)) \in Seq(Packets)
    BY <2>1, AppendProperties DEF TypeOK
  <2> QED BY <1>12, <2>1, <2>2 DEF WritePacket, TypeOK
<1>13. CASE WriteDone
  BY <1>13 DEF WriteDone, TypeOK
<1>14. CASE WriteError
  <2>1. <<>> \in Seq(Packets) /\ ReasonOf(stream) \in Reasons \cup {"none"}
    BY DEF ReasonOf, TypeOK, Reasons
  <2> QED BY <1>14, <2>1 DEF WriteError, TypeOK
<1>15. CASE CloseSucceeds
  BY <1>15 DEF CloseSucceeds, TypeOK, Reasons
<1>16. CASE CloseFails
  BY <1>16 DEF CloseFails, TypeOK, Reasons
<1>17. CASE FlushDone
  BY <1>17 DEF FlushDone, TypeOK
<1>18. CASE Check
  <2>1. <<>> \in Seq(Packets) /\ <<>> \in Seq({"Close", "Flush"}) /\ Len(<<>>) = 0
    BY EmptySeq
  <2>2. 0 <= OutboundSize /\ 0 <= ControlSize
    BY SizesAssumption DEF SizesAssumption
  <2>3. CASE UNCHANGED <<outbound, control>>
    BY <1>18, <2>3 DEF Check, TypeOK
  <2>4. CASE outbound' = <<>> /\ control' = <<>>
    BY <1>18, <2>1, <2>2, <2>4 DEF Check, TypeOK
  <2> QED BY <1>18, <2>3, <2>4 DEF Check
<1>19. ASSUME NEW how \in {"reset", "invalid", "dead"}, StreamFails(how) PROVE TypeOK'
  BY <1>19 DEF StreamFails, TypeOK
<1>20. CASE UNCHANGED vars
  BY <1>20 DEF vars, TypeOK
<1> QED BY <1>1, <1>2, <1>3, <1>4, <1>5, <1>6, <1>7, <1>8, <1>9, <1>10, <1>11, <1>12, <1>13,
           <1>14, <1>15, <1>16, <1>17, <1>18, <1>19, <1>20
        DEF Next, User, Calls, Writing, SelectControl, SelectOutbound, TaskStep, HandleDisconnection

(* The shapes are kept: the flag is raised only on the way to the check, and a
   call ends before its component goes. *)
LEMMA ShapeStep ==
  ASSUME TypeOK, TaskShape, CallShape, [Next]_vars
  PROVE  TaskShape' /\ CallShape'
<1> USE DEF bevy, task, quic
<1>1. CASE Push
  BY <1>1 DEF Push, Idle, TaskShape, CallShape
<1>2. ASSUME NEW cmd \in {"Close", "Flush"}, StartControl(cmd) PROVE TaskShape' /\ CallShape'
  BY <1>2 DEF StartControl, Idle, TaskShape, CallShape
<1>3. CASE Despawn
  BY <1>3 DEF Despawn, Idle, TaskShape, CallShape
<1>4. CASE DrainItem
  BY <1>4 DEF DrainItem, CanSend, ReceiverAlive, TaskShape, CallShape
<1>5. CASE FinishDrain
  BY <1>5 DEF FinishDrain, TaskShape, CallShape
<1>6. CASE SendControl
  BY <1>6 DEF SendControl, TaskShape, CallShape
<1>7. CASE StartDrain
  BY <1>7 DEF StartDrain, Idle, TaskShape, CallShape
<1>8. CASE TakeBatch
  BY <1>8 DEF TakeBatch, TaskShape, CallShape
<1>9. CASE OutboundClosed
  BY <1>9 DEF OutboundClosed, TaskShape, CallShape
<1>10. CASE TakeControl
  BY <1>10 DEF TakeControl, TaskShape, CallShape
<1>11. CASE ControlClosed
  BY <1>11 DEF ControlClosed, TaskShape, CallShape
<1>12. CASE WritePacket
  BY <1>12 DEF WritePacket, TaskShape, CallShape
<1>13. CASE WriteDone
  BY <1>13 DEF WriteDone, TaskShape, CallShape
<1>14. CASE WriteError
  BY <1>14 DEF WriteError, ReasonOf, TypeOK, TaskShape, CallShape
<1>15. CASE CloseSucceeds
  BY <1>15 DEF CloseSucceeds, TaskShape, CallShape
<1>16. CASE CloseFails
  BY <1>16 DEF CloseFails, TaskShape, CallShape
<1>17. CASE FlushDone
  BY <1>17 DEF FlushDone, TaskShape, CallShape
<1>18. CASE Check
  BY <1>18 DEF Check, TaskShape, CallShape
<1>19. ASSUME NEW how \in {"reset", "invalid", "dead"}, StreamFails(how) PROVE TaskShape' /\ CallShape'
  BY <1>19 DEF StreamFails, TaskShape, CallShape
<1>20. CASE UNCHANGED vars
  BY <1>20 DEF vars, TaskShape, CallShape
<1> QED BY <1>1, <1>2, <1>3, <1>4, <1>5, <1>6, <1>7, <1>8, <1>9, <1>10, <1>11, <1>12, <1>13,
           <1>14, <1>15, <1>16, <1>17, <1>18, <1>19, <1>20
        DEF Next, User, Calls, Writing, SelectControl, SelectOutbound, TaskStep, HandleDisconnection

(* The reason stays true, and no write follows a stream that was finished: a
   stream that is closed was closed by the task, which then goes to the check
   with its flag raised. *)
LEMMA ReasonStep ==
  ASSUME TypeOK, TaskShape, ReasonIsTrue, NoSendAfterFinish, [Next]_vars
  PROVE  ReasonIsTrue' /\ NoSendAfterFinish'
<1> USE DEF bevy, task, quic
<1>1. CASE Push
  BY <1>1 DEF Push, ReasonIsTrue, NoSendAfterFinish
<1>2. ASSUME NEW cmd \in {"Close", "Flush"}, StartControl(cmd) PROVE ReasonIsTrue' /\ NoSendAfterFinish'
  BY <1>2 DEF StartControl, ReasonIsTrue, NoSendAfterFinish
<1>3. CASE Despawn
  BY <1>3 DEF Despawn, ReasonIsTrue, NoSendAfterFinish
<1>4. CASE DrainItem
  BY <1>4 DEF DrainItem, ReasonIsTrue, NoSendAfterFinish
<1>5. CASE FinishDrain
  BY <1>5 DEF FinishDrain, ReasonIsTrue, NoSendAfterFinish
<1>6. CASE SendControl
  BY <1>6 DEF SendControl, ReasonIsTrue, NoSendAfterFinish
<1>7. CASE StartDrain
  BY <1>7 DEF StartDrain, ReasonIsTrue, NoSendAfterFinish
<1>8. CASE TakeBatch
  BY <1>8 DEF TakeBatch, ReasonIsTrue, NoSendAfterFinish
<1>9. CASE OutboundClosed
  BY <1>9 DEF OutboundClosed, SendersGone, ReasonIsTrue, NoSendAfterFinish
<1>10. CASE TakeControl
  BY <1>10 DEF TakeControl, ReasonIsTrue, NoSendAfterFinish
<1>11. CASE ControlClosed
  BY <1>11 DEF ControlClosed, SendersGone, ReasonIsTrue, NoSendAfterFinish
<1>12. CASE WritePacket
  BY <1>12 DEF WritePacket, ReasonIsTrue, NoSendAfterFinish
<1>13. CASE WriteDone
  BY <1>13 DEF WriteDone, ReasonIsTrue, NoSendAfterFinish
<1>14. CASE WriteError
  BY <1>14 DEF WriteError, ReasonOf, TypeOK, TaskShape, ReasonIsTrue, NoSendAfterFinish
<1>15. CASE CloseSucceeds
  BY <1>15 DEF CloseSucceeds, ReasonIsTrue, NoSendAfterFinish
<1>16. CASE CloseFails
  BY <1>16 DEF CloseFails, ReasonIsTrue, NoSendAfterFinish
<1>17. CASE FlushDone
  BY <1>17 DEF FlushDone, ReasonIsTrue, NoSendAfterFinish
<1>18. CASE Check
  BY <1>18 DEF Check, ReasonIsTrue, NoSendAfterFinish
<1>19. ASSUME NEW how \in {"reset", "invalid", "dead"}, StreamFails(how) PROVE ReasonIsTrue' /\ NoSendAfterFinish'
  BY <1>19 DEF StreamFails, ReasonIsTrue, NoSendAfterFinish
<1>20. CASE UNCHANGED vars
  BY <1>20 DEF vars, ReasonIsTrue, NoSendAfterFinish
<1> QED BY <1>1, <1>2, <1>3, <1>4, <1>5, <1>6, <1>7, <1>8, <1>9, <1>10, <1>11, <1>12, <1>13,
           <1>14, <1>15, <1>16, <1>17, <1>18, <1>19, <1>20
        DEF Next, User, Calls, Writing, SelectControl, SelectOutbound, TaskStep, HandleDisconnection
-----------------------------------------------------------------------------
(* What the task has taken over from the session and not written yet. *)
Held == batch \o outbound

(* The task holds a queue of packets, with another behind it. *)
LEMMA HeldType ==
  ASSUME TypeOK
  PROVE  /\ Held \in Seq(Packets) /\ Held \o Unsent \in Seq(Packets)
         /\ batch \in Seq(Packets) /\ outbound \in Seq(Packets) /\ wire \in Seq(Packets)
<1>1. batch \in Seq(Packets) /\ outbound \in Seq(Packets) /\ wire \in Seq(Packets)
  BY DEF TypeOK
<1>2. Held \in Seq(Packets)
  BY <1>1, ConcatProperties DEF Held
<1> QED BY <1>1, <1>2, UnsentType, ConcatProperties

(* Taking a batch moves packets from the channel to the batch. *)
LEMMA TakeBatchKeeps ==
  ASSUME TypeOK, TaskShape, TakeBatch
  PROVE  Held' = Held
<1>1. batch = <<>> /\ batch' \o outbound' = outbound
  BY Taking DEF TakeBatch, TaskShape
<1>2. <<>> \o outbound = outbound
  BY HeldType, ConcatEmptySeq
<1> QED BY <1>1, <1>2 DEF Held

(* try_send moves a packet from the backlog to the channel. *)
LEMMA DrainItemKeeps ==
  ASSUME TypeOK, DrainItem
  PROVE  Held' \o Unsent' = Held \o Unsent
<1>1. /\ sent \in Nat /\ sent < Len(backlog) /\ backlog \in Seq(Packets)
      /\ backlog[sent + 1] \in Packets
  BY UnsentType, ElementOfSeq DEF DrainItem, TypeOK
<1> DEFINE p == backlog[sent + 1]
<1>2. batch \o Append(outbound, p) = Append(Held, p)
  BY <1>1, HeldType, ConcatAppend, SMTT(30) DEF Held
<1>3. Append(Held, p) \o SubSeq(backlog, sent + 2, Len(backlog)) = Held \o Unsent
  BY <1>1, HeldType, PassNext DEF Unsent
<1>4. Held' = batch \o Append(outbound, p) /\ Unsent' = SubSeq(backlog, sent + 1 + 1, Len(backlog))
  BY DEF DrainItem, Held, Unsent, task
<1>5. sent + 1 + 1 = sent + 2
  BY <1>1
<1> QED BY <1>2, <1>3, <1>4, <1>5

(* The end of a drain removes from the backlog what was sent. *)
LEMMA FinishDrainKeeps ==
  ASSUME TypeOK, FinishDrain
  PROVE  Held' = Held /\ Unsent' = Unsent
<1>1. backlog' = Unsent /\ sent' = 0 /\ UNCHANGED <<batch, outbound>>
  BY DEF FinishDrain, task
<1>2. Unsent' = SubSeq(Unsent, 1, Len(Unsent))
  BY <1>1 DEF Unsent
<1>3. SubSeq(Unsent, 1, Len(Unsent)) = Unsent
  BY UnsentType, SubSeqFull
<1> QED BY <1>1, <1>2, <1>3 DEF Held

(* A packet that is pushed goes behind all the others. *)
LEMMA PushAppends ==
  ASSUME TypeOK, Push
  PROVE  /\ pushed + 1 \in Packets /\ Held' = Held /\ Unsent' = Append(Unsent, pushed + 1)
         /\ Held' \o Unsent' = Append(Held \o Unsent, pushed + 1)
<1>1. pushed + 1 \in Packets
  BY SizesAssumption DEF Push, Packets, TypeOK, SizesAssumption
<1>2. backlog' = Append(backlog, pushed + 1) /\ UNCHANGED <<sent, batch, outbound>>
  BY DEF Push, task
<1>3. Unsent' = Append(Unsent, pushed + 1)
  BY <1>1, <1>2, AppendRest DEF Unsent, TypeOK
<1>4. Held' = Held
  BY <1>2 DEF Held
<1>5. Held \o Append(Unsent, pushed + 1) = Append(Held \o Unsent, pushed + 1)
  BY <1>1, HeldType, UnsentType, ConcatAppend
<1> QED BY <1>1, <1>3, <1>4, <1>5

(* A write takes the first packet of the batch, which is the first of all. *)
LEMMA WriteTakesFirst ==
  ASSUME TypeOK, WritePacket, NEW rest \in Seq(Packets)
  PROVE  /\ wire' = wire \o SubSeq(Held \o rest, 1, 1)
         /\ Held' \o rest = SubSeq(Held \o rest, 2, Len(Held \o rest))
         /\ 1 \in DOMAIN (Held \o rest)
         /\ wire' \o (Held' \o rest) = wire \o (Held \o rest)
<1> DEFINE behind == outbound \o rest
<1>1. /\ batch # <<>> /\ wire' = Append(wire, Head(batch)) /\ batch' = Tail(batch)
      /\ outbound' = outbound
  BY DEF WritePacket
<1>2. behind \in Seq(Packets) /\ Held \o rest = batch \o behind
  BY HeldType, ConcatProperties, ConcatAssociative, SMTT(30) DEF Held
<1> HIDE DEF behind
<1>3. /\ SubSeq(batch \o behind, 1, 1) = <<Head(batch)>>
      /\ SubSeq(batch \o behind, 2, Len(batch \o behind)) = Tail(batch) \o behind
      /\ Head(batch) \in Packets /\ Tail(batch) \in Seq(Packets)
      /\ 1 \in DOMAIN (batch \o behind)
  BY <1>1, <1>2, HeldType, HeadOff
<1>4. Held' \o rest = Tail(batch) \o behind
  <2>1. Tail(batch) \in Seq(Packets) /\ outbound \in Seq(Packets)
    BY <1>3, HeldType
  <2>2. (Tail(batch) \o outbound) \o rest = Tail(batch) \o (outbound \o rest)
    BY <2>1, ConcatAssociative, SMTT(30)
  <2> QED BY <1>1, <2>2 DEF Held, behind
<1>5. Append(wire, Head(batch)) = wire \o <<Head(batch)>>
  BY <1>3, HeldType, AppendIsConcat
<1>6. Append(wire, Head(batch)) \o (Tail(batch) \o behind) = wire \o (batch \o behind)
  <2> DEFINE longer == Append(wire, Head(batch))
             left == Tail(batch)
  <2>1. /\ longer \in Seq(Packets) /\ left \in Seq(Packets)
        /\ wire \in Seq(Packets) /\ batch \in Seq(Packets)
    BY <1>3, HeldType, AppendProperties
  <2>2. longer \o left = wire \o batch
    BY <1>1, <2>1, MoveHead
  <2> HIDE DEF longer, left
  <2>3. (longer \o left) \o behind = longer \o (left \o behind)
    BY <1>2, <2>1, ConcatAssociative, SMTT(30)
  <2>4. (wire \o batch) \o behind = wire \o (batch \o behind)
    BY <1>2, <2>1, ConcatAssociative, SMTT(30)
  <2>5. longer \o (left \o behind) = wire \o (batch \o behind)
    BY <2>2, <2>3, <2>4
  <2> QED BY <2>5 DEF longer, left
<1> QED BY <1>1, <1>2, <1>3, <1>4, <1>5, <1>6

(* The packets on their way, from the wire back to the session. *)
LEMMA InFlightIs ==
  ASSUME TypeOK
  PROVE  InFlight = wire \o (Held \o Unsent)
<1>1. /\ wire \in Seq(Packets) /\ batch \in Seq(Packets) /\ outbound \in Seq(Packets)
      /\ Held \in Seq(Packets) /\ Unsent \in Seq(Packets)
  BY HeldType, UnsentType
<1>2. (wire \o batch) \o outbound = wire \o Held
  BY <1>1, ConcatAssociative DEF Held
<1>3. (wire \o Held) \o Unsent = wire \o (Held \o Unsent)
  BY <1>1, ConcatAssociative, SMTT(30)
<1> QED BY <1>2, <1>3 DEF InFlight, Unsent

(* The same as a formula of one state. *)
Grouped == TypeOK => InFlight = wire \o (Held \o Unsent)

(* So they are in the next state. *)
LEMMA InFlightNext == TypeOK' => InFlight' = wire' \o (Held' \o Unsent')
<1>1. Grouped
  BY InFlightIs DEF Grouped
<1>2. Grouped'
  BY <1>1, PTL
<1> QED BY <1>2 DEF Grouped

(* A step neither loses nor adds anything that is on its way. *)
Still == /\ wire' \o (Held' \o Unsent') = wire \o (Held \o Unsent) /\ pushed' = pushed

(* A step that touches no queue. *)
LEMMA Unmoved ==
  ASSUME UNCHANGED <<wire, batch, outbound, backlog, sent, pushed>>
  PROVE  Still
  BY DEF Still, Held, Unsent

(* A step that leaves the stream intact found it so; it keeps what is on its
   way, or puts the next packet behind it. *)
LEMMA FlowStep ==
  ASSUME TypeOK, TaskShape, CallShape, [Next]_vars, Intact'
  PROVE  /\ Intact
         /\ \/ Still
            \/ /\ pushed' = pushed + 1 /\ pushed + 1 \in Packets
               /\ wire' \o (Held' \o Unsent') = Append(wire \o (Held \o Unsent), pushed + 1)
<1> DEFINE Goal == /\ Intact
                   /\ \/ Still
                      \/ /\ pushed' = pushed + 1 /\ pushed + 1 \in Packets
                         /\ wire' \o (Held' \o Unsent')
                              = Append(wire \o (Held \o Unsent), pushed + 1)
<1> SUFFICES Goal
  OBVIOUS
<1> USE DEF bevy, task, quic, Intact
<1>1. CASE Push
  <2>1. /\ pushed + 1 \in Packets /\ wire' = wire /\ pushed' = pushed + 1
        /\ UNCHANGED <<component, pc, stream, disconnect>>
        /\ Held' \o Unsent' = Append(Held \o Unsent, pushed + 1)
    BY <1>1, PushAppends DEF Push
  <2>2. wire \o Append(Held \o Unsent, pushed + 1) = Append(wire \o (Held \o Unsent), pushed + 1)
    BY <2>1, HeldType, ConcatAppend, SMTT(30)
  <2> QED BY <2>1, <2>2
<1>2. ASSUME NEW cmd \in {"Close", "Flush"}, StartControl(cmd) PROVE Goal
  BY <1>2, Unmoved DEF StartControl
<1>3. CASE Despawn
  BY <1>3 DEF Despawn
<1>4. CASE DrainItem
  <2>1. UNCHANGED <<component, pc, stream, disconnect, wire, pushed>>
    BY <1>4 DEF DrainItem
  <2> QED BY <1>4, <2>1, DrainItemKeeps DEF Still
<1>5. CASE FinishDrain
  <2>1. UNCHANGED <<component, pc, stream, disconnect, wire, pushed>>
    BY <1>5 DEF FinishDrain
  <2> QED BY <1>5, <2>1, FinishDrainKeeps DEF Still
<1>6. CASE SendControl
  BY <1>6, Unmoved DEF SendControl
<1>7. CASE StartDrain
  <2>1. sent = 0
    BY <1>7 DEF StartDrain, Idle, CallShape
  <2> QED BY <1>7, <2>1, Unmoved DEF StartDrain
<1>8. CASE TakeBatch
  <2>1. pc = "select" /\ UNCHANGED <<component, stream, disconnect, wire, pushed, backlog, sent>>
    BY <1>8 DEF TakeBatch
  <2> QED BY <1>8, <2>1, TakeBatchKeeps DEF Still, Unsent
<1>9. CASE OutboundClosed
  BY <1>9, Unmoved DEF OutboundClosed, TaskShape
<1>10. CASE TakeControl
  BY <1>10, Unmoved DEF TakeControl
<1>11. CASE ControlClosed
  BY <1>11, Unmoved DEF ControlClosed, TaskShape
<1>12. CASE WritePacket
  <2>1. pc = "write" /\ UNCHANGED <<component, pc, stream, disconnect, pushed, backlog, sent>>
    BY <1>12 DEF WritePacket
  <2>2. wire' \o (Held' \o Unsent) = wire \o (Held \o Unsent)
    BY <1>12, UnsentType, WriteTakesFirst
  <2> QED BY <2>1, <2>2 DEF Still, Unsent
<1>13. CASE WriteDone
  BY <1>13, Unmoved DEF WriteDone
<1>14. CASE WriteError
  (* The reason of a failed write is given, unless the connection died. *)
  BY <1>14 DEF WriteError, ReasonOf, TypeOK
<1>15. CASE CloseSucceeds
  BY <1>15, Unmoved DEF CloseSucceeds, TaskShape
<1>16. CASE CloseFails
  BY <1>16, Unmoved DEF CloseFails, TaskShape
<1>17. CASE FlushDone
  BY <1>17, Unmoved DEF FlushDone
<1>18. CASE Check
  <2>1. pc = "check" /\ UNCHANGED <<outbound, control>>
    BY <1>18 DEF Check
  <2> QED BY <1>18, <2>1, Unmoved DEF Check
<1>19. ASSUME NEW how \in {"reset", "invalid", "dead"}, StreamFails(how) PROVE Goal
  BY <1>19, Unmoved DEF StreamFails
<1>20. CASE UNCHANGED vars
  BY <1>20, Unmoved DEF vars
<1> QED BY <1>1, <1>2, <1>3, <1>4, <1>5, <1>6, <1>7, <1>8, <1>9, <1>10, <1>11, <1>12, <1>13,
           <1>14, <1>15, <1>16, <1>17, <1>18, <1>19, <1>20
        DEF Next, User, Calls, Writing, SelectControl, SelectOutbound, TaskStep, HandleDisconnection

(* What was pushed stays on its way while the stream is intact. *)
LEMMA WhereaboutsStep ==
  ASSUME TypeOK, TaskShape, CallShape, Whereabouts, TypeOK', [Next]_vars
  PROVE  Whereabouts'
<1> SUFFICES ASSUME Intact'
             PROVE  InFlight' = Numbered(pushed')
  BY DEF Whereabouts, Numbered
<1>1. InFlight = Numbered(pushed)
  BY FlowStep DEF Whereabouts
<1>2. InFlight = wire \o (Held \o Unsent) /\ InFlight' = wire' \o (Held' \o Unsent')
  BY InFlightIs, InFlightNext
<1>3. CASE Still
  BY <1>1, <1>2, <1>3 DEF Still
<1>4. CASE /\ pushed' = pushed + 1
           /\ wire' \o (Held' \o Unsent') = Append(wire \o (Held \o Unsent), pushed + 1)
  <2>1. InFlight' = Append(Numbered(pushed), pushed + 1)
    BY <1>1, <1>2, <1>4
  <2>2. pushed \in Nat
    BY SizesAssumption DEF TypeOK, SizesAssumption
  <2> QED BY <1>4, <2>1, <2>2, NumberNext
<1> QED BY <1>3, <1>4, FlowStep
-----------------------------------------------------------------------------
(* A new stream satisfies the invariant. *)
LEMMA InitInvariant == Init => IInv
<1> SUFFICES ASSUME Init PROVE IInv
  OBVIOUS
<1>1. TypeOK
  <2>1. /\ <<>> \in Seq(Packets) /\ <<>> \in Seq({"Close", "Flush"}) /\ Len(<<>>) = 0
        /\ 0 <= OutboundSize /\ 0 <= ControlSize /\ 0 \in 0 .. MaxPackets
    BY EmptySeq, SizesAssumption DEF SizesAssumption
  <2> QED BY <2>1 DEF Init, TypeOK
<1>2. TaskShape /\ CallShape /\ ReasonIsTrue /\ NoSendAfterFinish
  BY DEF Init, TaskShape, CallShape, ReasonIsTrue, NoSendAfterFinish
<1>3. Whereabouts
  <2>1. Unsent = <<>> /\ Held = <<>> /\ wire = <<>>
    <3>1. SubSeq(backlog, sent + 1, Len(backlog)) = <<>>
      BY <1>1, SubSeqEmpty DEF Init
    <3> QED BY <3>1 DEF Init, Unsent, Held
  <2>2. InFlight = <<>>
    BY <1>1, <2>1, InFlightIs
  <2>3. Numbered(pushed) = <<>>
    <3>1. Len(Numbered(pushed)) = 0 /\ Numbered(pushed) \in Seq(Nat)
      BY NumberNext DEF Init
    <3> QED BY <3>1, EmptySeq
  <2> QED BY <2>2, <2>3 DEF Whereabouts
<1> QED BY <1>1, <1>2, <1>3 DEF IInv

(* The task ends at the check of its loop. *)
LEMMA EndsAtCheck ==
  ASSUME [Next]_vars, pc # "finished", pc' = "finished"
  PROVE  pc = "check"
<1> USE DEF bevy, task, quic
<1>1. CASE User \/ Calls \/ StartDrain \/ HandleDisconnection
  BY <1>1 DEF User, Calls, HandleDisconnection, Push, StartControl, Despawn, DrainItem,
              FinishDrain, SendControl, StartDrain
<1>2. CASE SelectOutbound \/ SelectControl
  BY <1>2 DEF SelectOutbound, SelectControl, TakeBatch, OutboundClosed, TakeControl, ControlClosed
<1>3. CASE Writing \/ CloseSucceeds \/ CloseFails \/ FlushDone
  BY <1>3 DEF Writing, WritePacket, WriteDone, WriteError, CloseSucceeds, CloseFails, FlushDone
<1>4. CASE Check
  BY <1>4 DEF Check
<1>5. ASSUME NEW how \in {"reset", "invalid", "dead"}, StreamFails(how) PROVE FALSE
  BY <1>5 DEF StreamFails
<1>6. CASE UNCHANGED vars
  BY <1>6 DEF vars
<1> QED BY <1>1, <1>2, <1>3, <1>4, <1>5, <1>6 DEF Next, TaskStep

(* The inductive invariant holds in every reachable state. *)
THEOREM Invariance == Spec => []IInv
<1>1. IInv /\ [Next]_vars => IInv'
  <2> SUFFICES ASSUME IInv, [Next]_vars PROVE IInv'
    OBVIOUS
  <2>1. TypeOK'
    BY TypeStep DEF IInv
  <2> QED BY <2>1, ShapeStep, ReasonStep, WhereaboutsStep DEF IInv
<1> QED BY InitInvariant, <1>1, PTL DEF Spec

(* Every variable keeps its type, and no channel exceeds its size. *)
THEOREM TypeCorrect == Spec => []TypeOK
<1>1. IInv => TypeOK
  BY DEF IInv
<1> QED BY Invariance, <1>1, PTL

(* When a close ends the task, what s2n-quic does not have is what the task
   counts in its channel and what is left in the session. *)
THEOREM LossCounted == Spec => LossIsCounted
<1>1. ASSUME IInv, [Next]_vars, pc # "finished", pc' = "finished",
             disconnect = "UserClosed", component = "live", stream # "dead"
      PROVE  wire \o outbound \o Unsent = [i \in 1 .. pushed |-> i]
  <2>1. pc = "check"
    BY <1>1, EndsAtCheck
  <2>2. batch = <<>> /\ InFlight = Numbered(pushed)
    BY <1>1, <2>1 DEF IInv, TaskShape, Whereabouts, Intact
  <2>3. wire \o batch = wire
    BY <1>1, <2>2, HeldType, ConcatEmptySeq DEF IInv
  <2> QED BY <2>2, <2>3 DEF InFlight, Numbered
<1>2. IInv /\ [Next]_vars =>
        [ (/\ pc # "finished" /\ pc' = "finished" /\ disconnect = "UserClosed"
           /\ component = "live" /\ stream # "dead")
           => wire \o outbound \o Unsent = [i \in 1 .. pushed |-> i] ]_vars
  BY <1>1
<1> QED BY Invariance, <1>2, PTL DEF Spec, LossIsCounted

(* The reason that the task returns is what ended it. *)
THEOREM ReasonsAreTrue == Spec => []ReasonIsTrue
<1>1. IInv => ReasonIsTrue
  BY DEF IInv
<1> QED BY Invariance, <1>1, PTL

(* The task never writes after it finished the stream. *)
THEOREM NoWriteAfterFinish == Spec => []NoSendAfterFinish
<1>1. IInv => NoSendAfterFinish
  BY DEF IInv
<1> QED BY Invariance, <1>1, PTL
-----------------------------------------------------------------------------
(* Refinement: what PacketPipe speaks of. *)

(* What waits in the pipe: two queues of packets, or nothing. *)
LEMMA WaitingIs ==
  ASSUME TypeOK
  PROVE  /\ Waiting = IF Working THEN Held \o Unsent ELSE <<>>
         /\ Held \o Unsent \in Seq(Packets)
         /\ Len(Held) \in 0 .. Len(Held \o Unsent)
<1>1. Waiting = IF Working THEN Held \o Unsent ELSE <<>>
  BY DEF Waiting, Held
<1>2. Unsent \in Seq(Packets) /\ Held \in Seq(Packets)
  BY UnsentType, HeldType
<1>3. /\ Held \o Unsent \in Seq(Packets) /\ Len(Held \o Unsent) = Len(Held) + Len(Unsent)
      /\ Len(Held) \in Nat /\ Len(Unsent) \in Nat
  BY <1>2, ConcatProperties, LenProperties
<1> QED BY <1>1, <1>2, <1>3

(* A step that leaves the packets where they are, or passes them from one queue
   of the stream to the next, is none of the pipe. *)
LEMMA Stutters ==
  ASSUME UNCHANGED <<pushed, wire, component, stream>>,
         pc # "finished" <=> pc' # "finished",
         Working => Held' \o Unsent' = Held \o Unsent
  PROVE  UNCHANGED Pipe!pipe
<1>1. Working' <=> Working
  BY DEF Working
<1>2. Waiting' = Waiting
  BY <1>1 DEF Waiting, Held
<1> QED BY <1>1, <1>2 DEF Pipe!pipe

(* A step that touches no queue and does not end the task. *)
LEMMA SameQueues ==
  ASSUME UNCHANGED <<pushed, wire, component, stream, batch, outbound, backlog, sent>>,
         pc # "finished" <=> pc' # "finished"
  PROVE  UNCHANGED Pipe!pipe
<1>1. Held' \o Unsent' = Held \o Unsent
  BY DEF Held, Unsent
<1> QED BY <1>1, Stutters

(* A step that ends the work of the stream cuts the pipe. *)
LEMMA Cuts ==
  ASSUME TypeOK, UNCHANGED <<pushed, wire>>, ~Working'
  PROVE  Pipe!Next
<1>1. Waiting' = <<>>
  BY DEF Waiting
<1>2. SubSeq(Waiting, 1, 0) = <<>>
  BY SubSeqEmpty
<1>3. Len(Waiting) \in Nat
  BY WaitingIs, LenProperties, EmptySeq
<1>4. Pipe!Cut(0)
  BY <1>1, <1>2 DEF Pipe!Cut
<1> QED BY <1>3, <1>4 DEF Pipe!Next

(* Every step is a step of the pipe or none: a push offers, a write delivers,
   and an end cuts. *)
LEMMA PipeStep ==
  ASSUME IInv, [Next]_vars
  PROVE  Pipe!Next \/ UNCHANGED Pipe!pipe
<1> USE DEF bevy, task, quic, IInv
<1>1. CASE Push
  <2>1. /\ component = "live" /\ pushed' = pushed + 1 /\ pushed + 1 \in Packets
        /\ Held' \o Unsent' = Append(Held \o Unsent, pushed + 1)
        /\ UNCHANGED <<component, stream, pc, wire>>
    BY <1>1, PushAppends DEF Push, Idle
  <2>2. Working' <=> Working
    BY <2>1 DEF Working
  <2>3. Waiting' = IF Working THEN Append(Waiting, pushed + 1) ELSE Waiting
    BY <2>1, <2>2 DEF Waiting, Held
  <2>4. Pipe!Offer
    BY <2>1, <2>2, <2>3 DEF Pipe!Offer
  <2> QED BY <2>4 DEF Pipe!Next
<1>2. ASSUME NEW cmd \in {"Close", "Flush"}, StartControl(cmd) PROVE Pipe!Next \/ UNCHANGED Pipe!pipe
  BY <1>2, SameQueues DEF StartControl
<1>3. CASE Despawn
  <2>1. UNCHANGED <<pushed, wire, stream, pc, batch, outbound>> /\ component' = "removed"
    BY <1>3 DEF Despawn
  <2>2. Held' = Held /\ Unsent' = <<>> /\ (Working' <=> Working)
    <3>1. sent' = 0 /\ backlog' = <<>>
      BY <1>3 DEF Despawn, Idle, CallShape
    <3>2. SubSeq(<<>>, 1, 0) = <<>> /\ Len(<<>>) = 0
      BY EmptySeq, SubSeqEmpty
    <3>3. Unsent' = <<>>
      BY <3>1, <3>2 DEF Unsent
    <3> QED BY <2>1, <3>3 DEF Held, Working
  <2>3. CASE ~Working
    BY <2>1, <2>2, <2>3, Cuts
  <2>4. CASE Working
    <3>1. Held \in Seq(Packets) /\ Unsent \in Seq(Packets)
      BY HeldType, UnsentType
    <3>2. Waiting = Held \o Unsent /\ Waiting' = Held /\ Len(Held) \in 0 .. Len(Waiting)
      <4>1. Waiting' = Held \o <<>>
        BY <2>1, <2>2, <2>4 DEF Waiting, Held
      <4>2. Held \o <<>> = Held
        BY <3>1, ConcatEmptySeq
      <4> QED BY <2>4, <4>1, <4>2, WaitingIs
    <3>3. SubSeq(Held \o Unsent, 1, Len(Held)) = Held
      BY <3>1, FrontAndBack
    <3>4. Pipe!Cut(Len(Held))
      BY <2>1, <3>2, <3>3 DEF Pipe!Cut
    <3> QED BY <3>2, <3>4 DEF Pipe!Next
  <2> QED BY <2>3, <2>4
<1>4. CASE DrainItem
  <2>1. UNCHANGED <<pushed, wire, component, stream, pc>> /\ component = "live"
    BY <1>4 DEF DrainItem, CallShape
  <2>2. Held' \o Unsent' = Held \o Unsent
    BY <1>4, <2>1, DrainItemKeeps
  <2> QED BY <2>1, <2>2, Stutters
<1>5. CASE FinishDrain
  <2>1. UNCHANGED <<pushed, wire, component, stream, pc>>
    BY <1>5 DEF FinishDrain
  <2>2. Held' \o Unsent' = Held \o Unsent
    BY <1>5, <2>1, FinishDrainKeeps
  <2> QED BY <2>1, <2>2, Stutters
<1>6. CASE SendControl
  BY <1>6, SameQueues DEF SendControl
<1>7. CASE StartDrain
  BY <1>7, SameQueues DEF StartDrain, Idle, CallShape
<1>8. CASE TakeBatch
  <2>1. UNCHANGED <<pushed, wire, component, stream, backlog, sent>> /\ pc = "select" /\ pc' = "write"
    BY <1>8 DEF TakeBatch
  <2>2. Held' \o Unsent' = Held \o Unsent
    BY <1>8, <2>1, TakeBatchKeeps DEF Unsent
  <2> QED BY <2>1, <2>2, Stutters
<1>9. CASE OutboundClosed
  BY <1>9, SameQueues DEF OutboundClosed
<1>10. CASE TakeControl
  BY <1>10, SameQueues DEF TakeControl
<1>11. CASE ControlClosed
  BY <1>11, SameQueues DEF ControlClosed
<1>12. CASE WritePacket
  <2>1. Working /\ UNCHANGED <<pushed, component, stream, pc, backlog, sent>>
    BY <1>12 DEF WritePacket, Working
  <2>2. Unsent' = Unsent /\ (Working' <=> Working)
    BY <2>1 DEF Unsent, Working
  <2>3. /\ wire' = wire \o SubSeq(Held \o Unsent, 1, 1)
        /\ Held' \o Unsent = SubSeq(Held \o Unsent, 2, Len(Held \o Unsent))
        /\ 1 \in DOMAIN (Held \o Unsent)
    BY <1>12, UnsentType, WriteTakesFirst
  <2>4. Waiting = Held \o Unsent /\ Waiting' = Held' \o Unsent
    BY <2>1, <2>2 DEF Waiting, Held
  <2>5. 1 \in DOMAIN Waiting /\ Pipe!Deliver(1)
    BY <2>1, <2>2, <2>3, <2>4 DEF Pipe!Deliver
  <2> QED BY <2>5 DEF Pipe!Next
<1>13. CASE WriteDone
  BY <1>13, SameQueues DEF WriteDone
<1>14. CASE WriteError
  <2>1. UNCHANGED <<pushed, wire, component, stream>> /\ ~Working'
    BY <1>14 DEF WriteError, Working
  <2> QED BY <2>1, Cuts
<1>15. CASE CloseSucceeds
  <2>1. UNCHANGED <<pushed, wire>> /\ ~Working'
    BY <1>15 DEF CloseSucceeds, Working
  <2> QED BY <2>1, Cuts
<1>16. CASE CloseFails
  BY <1>16, SameQueues DEF CloseFails
<1>17. CASE FlushDone
  BY <1>17, SameQueues DEF FlushDone
<1>18. CASE Check
  <2>1. CASE pc' = "select" /\ UNCHANGED <<outbound, control>>
    BY <1>18, <2>1, SameQueues DEF Check
  <2>2. CASE pc' = "finished"
    <3>1. UNCHANGED <<pushed, wire>> /\ ~Working'
      BY <1>18, <2>2 DEF Check, Working
    <3> QED BY <3>1, Cuts
  <2> QED BY <1>18, <2>1, <2>2 DEF Check
<1>19. ASSUME NEW how \in {"reset", "invalid", "dead"}, StreamFails(how) PROVE Pipe!Next \/ UNCHANGED Pipe!pipe
  <2>1. UNCHANGED <<pushed, wire>> /\ ~Working'
    BY <1>19 DEF StreamFails, Working
  <2> QED BY <2>1, Cuts
<1>20. CASE UNCHANGED vars
  BY <1>20, SameQueues DEF vars
<1> QED BY <1>1, <1>2, <1>3, <1>4, <1>5, <1>6, <1>7, <1>8, <1>9, <1>10, <1>11, <1>12, <1>13,
           <1>14, <1>15, <1>16, <1>17, <1>18, <1>19, <1>20
        DEF Next, User, Calls, Writing, SelectControl, SelectOutbound, TaskStep, HandleDisconnection

(* Whatever fails, fills up or is dropped, s2n-quic is given a gapless front of
   what the application pushed: the stream implements PacketPipe. *)
THEOREM ImplementsPipe == Spec => PipeSpec
<1>1. Init => Pipe!Init
  <2> SUFFICES ASSUME Init PROVE Pipe!Init
    OBVIOUS
  <2>1. Unsent = <<>> /\ Held = <<>>
    <3>1. SubSeq(backlog, sent + 1, Len(backlog)) = <<>>
      BY EmptySeq, SubSeqEmpty DEF Init
    <3> QED BY <3>1 DEF Init, Unsent, Held
  <2>2. Waiting = <<>> /\ Working
    BY <2>1, InitInvariant, WaitingIs DEF Init, IInv, Working
  <2> QED BY <2>2 DEF Init, Pipe!Init
<1>2. IInv /\ [Next]_vars => [Pipe!Next]_(Pipe!pipe)
  BY PipeStep
<1> QED BY Invariance, <1>1, <1>2, PTL DEF Spec, PipeSpec, Pipe!Spec
-----------------------------------------------------------------------------
(* What PacketPipeProofs shows of every pipe holds of the stream's. *)
P == INSTANCE PacketPipeProofs WITH
  Capacity <- MaxPackets, offered <- pushed, queue <- Waiting,
  delivered <- wire, cut <- ~Working \/ component = "removed"

(* The pipe of the refinement is one of those the theorems are about. *)
LEMMA SamePipe == PipeSpec => P!Spec
<1>1. Pipe!Init => P!Init
  BY DEF Pipe!Init, P!Init
<1>2. [Pipe!Next]_(Pipe!pipe) => [P!Next]_(P!pipe)
  BY DEF Pipe!Next, P!Next, Pipe!pipe, P!pipe, Pipe!Offer, P!Offer, Pipe!Deliver, P!Deliver,
         Pipe!Drop, P!Drop, Pipe!Cut, P!Cut, Pipe!RemoveAt, P!RemoveAt
<1> QED BY <1>1, <1>2, PTL DEF PipeSpec, Pipe!Spec, P!Spec

(* s2n-quic is given the first packets that the application pushed, each once
   and without a gap, whatever failed, filled up, or was closed or despawned:
   the stream loses nothing but the end of what was pushed. *)
THEOREM GaplessFront == Spec => [](wire = Numbered(Len(wire)) /\ Len(wire) <= pushed)
<1>1. Spec => []TypeOK
  BY TypeCorrect
<1>2. P!Spec => []P!Out
  <2>1. MaxPackets \in Nat
    BY SizesAssumption DEF SizesAssumption
  <2> QED BY <2>1, P!ComesOut
<1>3. ASSUME TypeOK, P!Out
      PROVE  wire = Numbered(Len(wire)) /\ Len(wire) <= pushed
  <2>1. pushed <= MaxPackets
    BY <1>3, SizesAssumption DEF TypeOK, SizesAssumption
  <2> QED BY <1>3, <2>1 DEF P!Out, P!Numbered, Numbered
<1> QED BY <1>1, <1>2, <1>3, ImplementsPipe, SamePipe, PTL
=============================================================================
