------------------------- MODULE ReceiveStreamProofs -------------------------
(***************************************************************************)
(* Proofs about ReceiveStream, for every number of packets and every size  *)
(* of the channels, the batch and the transfers: every packet that was     *)
(* read is in one place or was given back by a full channel, the reason    *)
(* given for an end is the true one, and the stream implements PacketPipe. *)
(***************************************************************************)
EXTENDS ReceiveStream, QueueLemmas, FiniteSetTheorems

(* What the task's position says about its batch and its flags.  The end of
   the stream is told with its last packets, so that it is known only in a
   transfer of them. *)
TaskShape ==
  /\ batch # <<>> => pc = "transfer"
  /\ fin => pc = "transfer" /\ stream = "ended" /\ read = arrived
  /\ pc = "select" => disconnect = "none"
  /\ pc = "transfer" => disconnect \in {"none", "MspcChannelClosed"}

(* The packets that went from the batch to the channel or were given back are
   the ones before the batch, which holds the last ones read. *)
Passed == read - Len(batch)
Handed == session \o inbound

(* The batch holds the packets behind those that were passed on. *)
BatchShape ==
  /\ Len(batch) <= read
  /\ \A i \in 1 .. Len(batch) : batch[i] = Passed + i

(* What was passed on and is not in the session or the channel was given back,
   behind as many as the channel holds. *)
Conserved ==
  component = "live" =>
     /\ Increasing(Handed)
     /\ Range(Handed) \cup dropped = 1 .. Passed
     /\ Range(Handed) \cap dropped = {}
     /\ \A p \in dropped : Cardinality((1 .. p) \ dropped) >= InboundSize

(* The inductive invariant. *)
IInv == TypeOK /\ TaskShape /\ ReasonIsTrue /\ BatchShape /\ Conserved
-----------------------------------------------------------------------------
(* The reasons that failures of the stream give are theirs alone. *)
LEMMA FailureReasons ==
  /\ DOMAIN Failures = {"reset", "invalid", "dead"}
  /\ {"PeerClosed", "UserClosed", "MspcChannelClosed"} \subseteq Reasons
  /\ \A f \in DOMAIN Failures :
       /\ Failures[f] \in Reasons
       /\ Failures[f] \notin {"none", "PeerClosed", "UserClosed", "MspcChannelClosed"}
       /\ \A g \in DOMAIN Failures : Failures[f] = Failures[g] => f = g
<1>1. DOMAIN Failures = {"reset", "invalid", "dead"}
  BY DEF Failures
<1>2. Failures["reset"] = "Reset" /\ Failures["invalid"] = "InvalidStream" /\ Failures["dead"] = "ConnectionError"
  BY DEF Failures
<1> HIDE DEF Failures
<1>3. \A f \in DOMAIN Failures : Failures[f] \in Range(Failures)
  BY DEF Range
<1> QED BY <1>1, <1>2, <1>3 DEF Reasons

(* A transfer to the session takes the first items of a queue, at least one of
   them if there is one, and leaves the rest. *)
LEMMA Served ==
  ASSUME NEW S, NEW q \in Seq(S), NEW n \in Nat \ {0}
  PROVE  \E k \in 0 .. Len(q) :
           /\ First(n, q) = SubSeq(q, 1, k) /\ Rest(n, q) = SubSeq(q, k + 1, Len(q))
           /\ q # <<>> => k > 0
<1>1. Len(q) \in Nat /\ (q # <<>> => Len(q) > 0)
  BY LenProperties, EmptySeq
<1>2. CASE Len(q) < n
  <2>1. Rest(n, q) = <<>> /\ SubSeq(q, Len(q) + 1, Len(q)) = <<>>
    BY <1>1, <1>2, SubSeqEmpty DEF Rest
  <2> WITNESS Len(q) \in 0 .. Len(q)
  <2> QED BY <1>1, <1>2, <2>1 DEF First
<1>3. CASE ~(Len(q) < n)
  <2>1. n \in 0 .. Len(q)
    BY <1>1, <1>3
  <2> WITNESS n \in 0 .. Len(q)
  <2> QED BY <1>3 DEF First, Rest
<1> QED BY <1>2, <1>3

(* What the session receives and what stays in the channel. *)
LEMMA Receiving ==
  ASSUME TypeOK
  PROVE  /\ First(TransferLimit, inbound) \in Seq(Packets)
         /\ Rest(TransferLimit, inbound) \in Seq(Packets)
         /\ Len(Rest(TransferLimit, inbound)) <= InboundSize
         /\ First(TransferLimit, inbound) \o Rest(TransferLimit, inbound) = inbound
<1>1. inbound \in Seq(Packets) /\ Len(inbound) \in Nat /\ Len(inbound) <= InboundSize
      /\ TransferLimit \in Nat \ {0}
  BY LenProperties, SizesAssumption DEF TypeOK, SizesAssumption
<1>2. PICK k \in 0 .. Len(inbound) :
           /\ First(TransferLimit, inbound) = SubSeq(inbound, 1, k)
           /\ Rest(TransferLimit, inbound) = SubSeq(inbound, k + 1, Len(inbound))
  BY <1>1, Served
<1>3. SubSeq(inbound, 1, k) \in Seq(Packets)
  BY <1>1, FirstItems
<1>4. /\ SubSeq(inbound, k + 1, Len(inbound)) \in Seq(Packets)
      /\ Len(SubSeq(inbound, k + 1, Len(inbound))) = Len(inbound) - k
  BY <1>1, RestItems
<1>5. Len(inbound) - k <= InboundSize
  BY <1>1, SizesAssumption DEF SizesAssumption
<1>6. SubSeq(inbound, 1, k) \o SubSeq(inbound, k + 1, Len(inbound)) = inbound
  BY <1>1, SplitQueue
<1> QED BY <1>2, <1>3, <1>4, <1>5, <1>6

(* What a transfer of a packet does: hand it on, give it back, or notice that
   the component is gone. *)
LEMMA TransferDoes ==
  ASSUME TypeOK, NEW p \in Packets, Transfer(p)
  PROVE  /\ inbound' \in Seq(Packets) /\ Len(inbound') <= InboundSize
         /\ dropped' \subseteq Packets
         /\ disconnect' \in {disconnect, "MspcChannelClosed"}
         /\ disconnect' # disconnect => component = "removed"
<1>1. inbound \in Seq(Packets) /\ Len(inbound) \in Nat /\ Len(inbound) <= InboundSize
      /\ InboundSize \in Nat /\ dropped \subseteq Packets
  BY LenProperties, SizesAssumption DEF TypeOK, SizesAssumption
<1>2. CASE component = "removed"
  BY <1>1, <1>2 DEF Transfer
<1>3. CASE component # "removed" /\ InboundFull
  BY <1>1, <1>3 DEF Transfer
<1>4. CASE component # "removed" /\ ~InboundFull
  <2>1. inbound' = Append(inbound, p) /\ UNCHANGED <<dropped, disconnect>> /\ Len(inbound) < InboundSize
    BY <1>1, <1>4 DEF Transfer, InboundFull
  <2>2. Append(inbound, p) \in Seq(Packets) /\ Len(Append(inbound, p)) = Len(inbound) + 1
    BY <1>1, AppendProperties
  <2> QED BY <1>1, <2>1, <2>2
<1> QED BY <1>2, <1>3, <1>4

(* The packets of the batch that is read next. *)
LEMMA BatchType ==
  ASSUME TypeOK, NEW n \in 0 .. BatchSize, n <= Unread
  PROVE  /\ [i \in 1 .. n |-> read + i] \in Seq(Packets)
         /\ Len([i \in 1 .. n |-> read + i]) = n
         /\ read + n \in 0 .. arrived /\ n \in Nat /\ Unread \in Nat
<1>1. n \in Nat /\ read \in Nat /\ arrived \in Nat /\ MaxPackets \in Nat /\ arrived <= MaxPackets
      /\ read + n <= arrived /\ Unread \in Nat
  BY SizesAssumption DEF TypeOK, SizesAssumption, Unread
<1> QED BY <1>1, ConsecutiveType DEF Packets, Consecutive

(* Every step keeps every variable in its type. *)
LEMMA TypeStep ==
  ASSUME TypeOK, TaskShape, [Next]_vars
  PROVE  TypeOK'
<1> USE DEF bevy, task, quic
<1>1. CASE StartStop
  BY <1>1 DEF StartStop, TypeOK
<1>2. CASE Remove
  <2>1. <<>> \in Seq(Packets) /\ Len(<<>>) <= InboundSize
    BY EmptySeq, SizesAssumption DEF SizesAssumption
  <2> QED BY <1>2, <2>1 DEF Remove, TypeOK
<1>3. CASE SessionRecv
  <2>1. session \o First(TransferLimit, inbound) \in Seq(Packets)
    BY Receiving, ConcatProperties DEF TypeOK
  <2> QED BY <1>3, <2>1, Receiving DEF SessionRecv, TypeOK
<1>4. CASE SessionRecvClosed
  BY <1>4 DEF SessionRecvClosed, TypeOK
<1>5. CASE SendStop
  <2>1. control' \in 0 .. ControlSize
    BY <1>5, SizesAssumption DEF SendStop, TypeOK, SizesAssumption
  <2> QED BY <1>5, <2>1 DEF SendStop, TypeOK
<1>6. CASE NextFrame
  BY <1>6 DEF NextFrame, TypeOK
<1>7. CASE ReceiveBatch
  <2>1. PICK n \in 0 .. BatchSize, end \in BOOLEAN :
           n <= Unread /\ batch' = [i \in 1 .. n |-> read + i] /\ read' = read + n /\ fin' = end
    BY <1>7 DEF ReceiveBatch
  <2>2. batch' \in Seq(Packets) /\ read' \in 0 .. arrived
    BY <2>1, BatchType
  <2> QED BY <1>7, <2>1, <2>2 DEF ReceiveBatch, TypeOK
<1>8. CASE TransferNext
  <2>1. Head(batch) \in Packets /\ Tail(batch) \in Seq(Packets)
    BY <1>8, HeadTailProperties DEF TransferNext, TypeOK
  <2>2. /\ inbound' \in Seq(Packets) /\ Len(inbound') <= InboundSize
        /\ dropped' \subseteq Packets /\ disconnect' \in Reasons \cup {"none"}
    BY <1>8, <2>1, TransferDoes, FailureReasons DEF TransferNext, TypeOK
  <2> QED BY <1>8, <2>1, <2>2 DEF TransferNext, TypeOK
<1>9. CASE TransferDone
  BY <1>9, FailureReasons DEF TransferDone, TypeOK
<1>10. CASE ReceiveError
  BY <1>10, FailureReasons DEF ReceiveError, TypeOK
<1>11. CASE TakeStop
  <2>1. control' \in 0 .. ControlSize
    BY <1>11, SizesAssumption DEF TakeStop, TypeOK, SizesAssumption
  <2> QED BY <1>11, <2>1, FailureReasons DEF TakeStop, TypeOK
<1>12. CASE ControlClosed
  BY <1>12, FailureReasons DEF ControlClosed, TypeOK
<1>13. CASE Check
  BY <1>13 DEF Check, TypeOK
<1>14. CASE DrainPacket
  <2>1. read + 1 \in Packets /\ read + 1 \in 0 .. arrived
    BY <1>14, SizesAssumption DEF DrainPacket, TypeOK, Packets, SizesAssumption
  <2>2. /\ inbound' \in Seq(Packets) /\ Len(inbound') <= InboundSize
        /\ dropped' \subseteq Packets /\ disconnect' \in Reasons \cup {"none"}
    BY <1>14, <2>1, TransferDoes, FailureReasons DEF DrainPacket, TypeOK
  <2> QED BY <1>14, <2>1, <2>2 DEF DrainPacket, TypeOK
<1>15. CASE DrainEnd
  <2>1. 0 \in 0 .. ControlSize
    BY SizesAssumption DEF SizesAssumption
  <2> QED BY <1>15, <2>1 DEF DrainEnd, TypeOK
<1>16. CASE PeerSends
  <2>1. arrived' \in 0 .. MaxPackets /\ read \in 0 .. arrived'
    BY <1>16, SizesAssumption DEF PeerSends, TypeOK, SizesAssumption
  <2> QED BY <1>16, <2>1 DEF PeerSends, TypeOK
<1>17. ASSUME NEW how \in DOMAIN Failures \cup {"ended"}, StreamEnds(how) PROVE TypeOK'
  BY <1>17 DEF StreamEnds, TypeOK
<1>18. CASE UNCHANGED vars
  BY <1>18 DEF vars, TypeOK
<1> QED BY <1>1, <1>2, <1>3, <1>4, <1>5, <1>6, <1>7, <1>8, <1>9, <1>10, <1>11, <1>12, <1>13,
           <1>14, <1>15, <1>16, <1>17, <1>18
        DEF Next, User, Calls, EndFrame, TaskStep, Peer, Despawn, HandleDisconnection

(* A transfer touches the flag only to say that the channel is closed. *)
LEMMA TransferFlag ==
  ASSUME NEW p, Transfer(p)
  PROVE  disconnect' = disconnect \/ (disconnect' = "MspcChannelClosed" /\ component = "removed")
  BY DEF Transfer

(* The flags follow the task's position: the loop is left as soon as one is
   raised, and the end of the stream is told once, when all is read. *)
LEMMA ShapeStep ==
  ASSUME TypeOK, TaskShape, [Next]_vars
  PROVE  TaskShape'
<1> USE DEF bevy, task, quic
<1>1. CASE StartStop
  BY <1>1 DEF StartStop, TaskShape
<1>2. CASE Remove
  BY <1>2 DEF Remove, TaskShape
<1>3. CASE SessionRecv
  BY <1>3 DEF SessionRecv, TaskShape
<1>4. CASE SessionRecvClosed
  BY <1>4 DEF SessionRecvClosed, TaskShape
<1>5. CASE SendStop
  BY <1>5 DEF SendStop, TaskShape
<1>6. CASE NextFrame
  BY <1>6 DEF NextFrame, TaskShape
<1>7. CASE ReceiveBatch
  <2>1. PICK n \in 0 .. BatchSize, end \in BOOLEAN :
           n <= Unread /\ (end => stream = "ended" /\ n = Unread) /\ read' = read + n /\ fin' = end
    BY <1>7 DEF ReceiveBatch
  <2>2. fin' => stream = "ended" /\ read' = arrived
    BY <2>1 DEF Unread, TypeOK
  <2> QED BY <1>7, <2>2 DEF ReceiveBatch, TaskShape
<1>8. CASE TransferNext
  <2>1. disconnect' \in {"none", "MspcChannelClosed"}
    BY <1>8, TransferFlag DEF TransferNext, TaskShape
  <2> QED BY <1>8, <2>1 DEF TransferNext, TaskShape
<1>9. CASE TransferDone
  BY <1>9 DEF TransferDone, TaskShape
<1>10. CASE ReceiveError
  BY <1>10 DEF ReceiveError, TaskShape
<1>11. CASE TakeStop
  BY <1>11 DEF TakeStop, TaskShape
<1>12. CASE ControlClosed
  BY <1>12 DEF ControlClosed, TaskShape
<1>13. CASE Check
  BY <1>13 DEF Check, TaskShape
<1>14. CASE DrainPacket
  <2>1. ~fin /\ batch = <<>>
    BY <1>14 DEF DrainPacket, TaskShape
  <2> QED BY <1>14, <2>1 DEF DrainPacket, TaskShape
<1>15. CASE DrainEnd
  BY <1>15 DEF DrainEnd, TaskShape
<1>16. CASE PeerSends
  BY <1>16 DEF PeerSends, TaskShape
<1>17. ASSUME NEW how \in DOMAIN Failures \cup {"ended"}, StreamEnds(how) PROVE TaskShape'
  BY <1>17 DEF StreamEnds, TaskShape
<1>18. CASE UNCHANGED vars
  BY <1>18 DEF vars, TaskShape
<1> QED BY <1>1, <1>2, <1>3, <1>4, <1>5, <1>6, <1>7, <1>8, <1>9, <1>10, <1>11, <1>12, <1>13,
           <1>14, <1>15, <1>16, <1>17, <1>18
        DEF Next, User, Calls, EndFrame, TaskStep, Peer, Despawn, HandleDisconnection

(* The reason stays true: what was said of the end of the stream cannot become
   false, as a stream that ended stays as it is and all of it was read. *)
LEMMA ReasonStep ==
  ASSUME TypeOK, TaskShape, ReasonIsTrue, [Next]_vars
  PROVE  ReasonIsTrue'
<1> USE DEF bevy, task, quic
<1>1. CASE StartStop
  BY <1>1 DEF StartStop, ReasonIsTrue
<1>2. CASE Remove
  BY <1>2 DEF Remove, ReasonIsTrue
<1>3. CASE SessionRecv
  BY <1>3 DEF SessionRecv, ReasonIsTrue
<1>4. CASE SessionRecvClosed
  BY <1>4 DEF SessionRecvClosed, ReasonIsTrue
<1>5. CASE SendStop
  BY <1>5 DEF SendStop, ReasonIsTrue
<1>6. CASE NextFrame
  BY <1>6 DEF NextFrame, ReasonIsTrue
<1>7. CASE ReceiveBatch
  <2>1. disconnect = "none" /\ disconnect' = disconnect /\ UNCHANGED <<component, stream>>
    BY <1>7 DEF ReceiveBatch, TaskShape
  <2> QED BY <2>1, FailureReasons DEF ReasonIsTrue
<1>8. CASE TransferNext
  <2>1. /\ disconnect \in {"none", "MspcChannelClosed"}
        /\ disconnect' = disconnect \/ (disconnect' = "MspcChannelClosed" /\ component = "removed")
        /\ UNCHANGED <<component, stream>>
    BY <1>8, TransferFlag DEF TransferNext, TaskShape
  <2> QED BY <2>1, FailureReasons DEF ReasonIsTrue
<1>9. CASE TransferDone
  <2>1. CASE fin
    <3>1. disconnect' = "PeerClosed" /\ stream' = "ended" /\ read' = arrived' /\ batch' = <<>>
      BY <1>9, <2>1 DEF TransferDone, TaskShape
    <3> QED BY <3>1, FailureReasons DEF ReasonIsTrue
  <2>2. CASE ~fin
    BY <1>9, <2>2 DEF TransferDone, ReasonIsTrue
  <2> QED BY <2>1, <2>2
<1>10. CASE ReceiveError
  <2>1. disconnect' = Failures[stream] /\ stream \in DOMAIN Failures /\ UNCHANGED stream
    BY <1>10 DEF ReceiveError
  <2> QED BY <2>1, FailureReasons DEF ReasonIsTrue
<1>11. CASE TakeStop
  <2>1. disconnect' = "UserClosed"
    BY <1>11 DEF TakeStop
  <2> QED BY <2>1, FailureReasons DEF ReasonIsTrue
<1>12. CASE ControlClosed
  <2>1. disconnect' = "MspcChannelClosed" /\ component' = "removed"
    BY <1>12 DEF ControlClosed
  <2> QED BY <2>1, FailureReasons DEF ReasonIsTrue
<1>13. CASE Check
  BY <1>13 DEF Check, ReasonIsTrue
<1>14. CASE DrainPacket
  <2>1. /\ read # arrived /\ UNCHANGED <<component, stream>>
        /\ disconnect' = disconnect \/ (disconnect' = "MspcChannelClosed" /\ component = "removed")
    BY <1>14, TransferFlag DEF DrainPacket, TypeOK
  <2>2. disconnect # "PeerClosed"
    BY <2>1 DEF ReasonIsTrue
  <2>3. CASE disconnect' = disconnect
    BY <2>1, <2>2, <2>3 DEF ReasonIsTrue
  <2>4. CASE disconnect' = "MspcChannelClosed" /\ component = "removed"
    BY <2>1, <2>4, FailureReasons DEF ReasonIsTrue
  <2> QED BY <2>1, <2>3, <2>4
<1>15. CASE DrainEnd
  BY <1>15 DEF DrainEnd, ReasonIsTrue
<1>16. CASE PeerSends
  BY <1>16 DEF PeerSends, ReasonIsTrue
<1>17. ASSUME NEW how \in DOMAIN Failures \cup {"ended"}, StreamEnds(how) PROVE ReasonIsTrue'
  BY <1>17, FailureReasons DEF StreamEnds, ReasonIsTrue
<1>18. CASE UNCHANGED vars
  BY <1>18 DEF vars, ReasonIsTrue
<1> QED BY <1>1, <1>2, <1>3, <1>4, <1>5, <1>6, <1>7, <1>8, <1>9, <1>10, <1>11, <1>12, <1>13,
           <1>14, <1>15, <1>16, <1>17, <1>18
        DEF Next, User, Calls, EndFrame, TaskStep, Peer, Despawn, HandleDisconnection

(* The batch holds the last packets that were read, in order. *)
LEMMA BatchStep ==
  ASSUME TypeOK, TaskShape, BatchShape, [Next]_vars
  PROVE  BatchShape'
<1> USE DEF bevy, task, quic
<1>1. CASE StartStop
  BY <1>1 DEF StartStop, BatchShape, Passed
<1>2. CASE Remove
  BY <1>2 DEF Remove, BatchShape, Passed
<1>3. CASE SessionRecv
  BY <1>3 DEF SessionRecv, BatchShape, Passed
<1>4. CASE SessionRecvClosed
  BY <1>4 DEF SessionRecvClosed, BatchShape, Passed
<1>5. CASE SendStop
  BY <1>5 DEF SendStop, BatchShape, Passed
<1>6. CASE NextFrame
  BY <1>6 DEF NextFrame, BatchShape, Passed
<1>7. CASE ReceiveBatch
  <2>1. PICK n \in 0 .. BatchSize :
           n <= Unread /\ batch' = [i \in 1 .. n |-> read + i] /\ read' = read + n
    BY <1>7 DEF ReceiveBatch
  <2>2. Len(batch') = n /\ n \in Nat /\ read \in Nat
    BY <2>1, BatchType DEF TypeOK
  <2> QED BY <2>1, <2>2 DEF BatchShape, Passed
<1>8. CASE TransferNext
  <2>1. /\ Len(batch) \in Nat \ {0} /\ Len(Tail(batch)) = Len(batch) - 1
        /\ \A i \in 1 .. Len(Tail(batch)) : Tail(batch)[i] = batch[i + 1]
    BY <1>8, HeadTailProperties, EmptySeq DEF TransferNext, TypeOK
  <2>2. batch' = Tail(batch) /\ read' = read /\ read \in Nat
    BY <1>8 DEF TransferNext, TypeOK
  <2> QED BY <2>1, <2>2 DEF BatchShape, Passed
<1>9. CASE TransferDone
  BY <1>9 DEF TransferDone, BatchShape, Passed
<1>10. CASE ReceiveError
  BY <1>10 DEF ReceiveError, BatchShape, Passed
<1>11. CASE TakeStop
  BY <1>11 DEF TakeStop, BatchShape, Passed
<1>12. CASE ControlClosed
  BY <1>12 DEF ControlClosed, BatchShape, Passed
<1>13. CASE Check
  BY <1>13 DEF Check, BatchShape, Passed
<1>14. CASE DrainPacket
  <2>1. batch = <<>> /\ batch' = batch /\ read' = read + 1 /\ read \in Nat
    BY <1>14 DEF DrainPacket, TaskShape, TypeOK
  <2>2. Len(batch) = 0
    BY <2>1, EmptySeq
  <2> QED BY <2>1, <2>2 DEF BatchShape, Passed
<1>15. CASE DrainEnd
  BY <1>15 DEF DrainEnd, BatchShape, Passed
<1>16. CASE PeerSends
  BY <1>16 DEF PeerSends, BatchShape, Passed
<1>17. ASSUME NEW how \in DOMAIN Failures \cup {"ended"}, StreamEnds(how) PROVE BatchShape'
  BY <1>17 DEF StreamEnds, BatchShape, Passed
<1>18. CASE UNCHANGED vars
  BY <1>18 DEF vars, BatchShape, Passed
<1> QED BY <1>1, <1>2, <1>3, <1>4, <1>5, <1>6, <1>7, <1>8, <1>9, <1>10, <1>11, <1>12, <1>13,
           <1>14, <1>15, <1>16, <1>17, <1>18
        DEF Next, User, Calls, EndFrame, TaskStep, Peer, Despawn, HandleDisconnection
-----------------------------------------------------------------------------
(* A packet with a higher number goes behind the others. *)
LEMMA IncreasingAppend ==
  ASSUME NEW S, NEW s \in Seq(S), NEW n \in S, S \subseteq Nat, Increasing(s),
         \A i \in 1 .. Len(s) : s[i] < n
  PROVE  /\ Append(s, n) \in Seq(S) /\ Increasing(Append(s, n))
         /\ Range(Append(s, n)) = Range(s) \cup {n}
<1> DEFINE t == Append(s, n)
<1>1. Len(s) \in Nat /\ DOMAIN s = 1 .. Len(s) /\ \A i \in 1 .. Len(s) : s[i] \in Nat
  BY LenProperties, ElementOfSeq
<1>2. /\ t \in Seq(S) /\ Len(t) = Len(s) + 1 /\ t[Len(s) + 1] = n
      /\ \A i \in 1 .. Len(s) : t[i] = s[i]
  BY AppendProperties
<1> HIDE DEF t
<1>3. DOMAIN t = 1 .. Len(s) + 1
  BY <1>2, LenProperties
<1>4. Increasing(t)
  <2> SUFFICES ASSUME NEW i \in DOMAIN t, NEW j \in DOMAIN t, i < j PROVE t[i] < t[j]
    BY DEF Increasing
  <2>1. i \in 1 .. Len(s) /\ t[i] = s[i]
    BY <1>1, <1>2, <1>3
  <2>2. CASE j = Len(s) + 1
    BY <1>2, <2>1, <2>2
  <2>3. CASE j \in 1 .. Len(s)
    BY <1>1, <1>2, <2>1, <2>3 DEF Increasing
  <2> QED BY <1>1, <1>3, <2>2, <2>3
<1>5. Range(t) = Range(s) \cup {n}
  <2>1. Range(t) = {t[i] : i \in 1 .. Len(s) + 1} /\ Range(s) = {s[i] : i \in 1 .. Len(s)}
    BY <1>1, <1>3 DEF Range
  <2>2. \A i \in 1 .. Len(s) + 1 : t[i] \in {s[k] : k \in 1 .. Len(s)} \cup {n}
    BY <1>1, <1>2
  <2>3. \A i \in 1 .. Len(s) : i \in 1 .. Len(s) + 1 /\ s[i] = t[i]
    BY <1>1, <1>2
  <2>4. Len(s) + 1 \in 1 .. Len(s) + 1
    BY <1>1
  <2>5. ASSUME NEW x \in Range(s) \cup {n} PROVE x \in Range(t)
    BY <1>2, <2>1, <2>3, <2>4
  <2>6. ASSUME NEW x \in Range(t) PROVE x \in Range(s) \cup {n}
    BY <2>1, <2>2
  <2> QED BY <2>5, <2>6
<1> QED BY <1>2, <1>4, <1>5 DEF t

(* One packet more. *)
LEMMA OneMore ==
  ASSUME NEW n \in Nat
  PROVE  1 .. n + 1 = (1 .. n) \cup {n + 1} /\ n + 1 \notin 1 .. n
  OBVIOUS

(* What was handed on is a queue of packets, the session before the channel. *)
LEMMA HandedType ==
  ASSUME TypeOK, BatchShape
  PROVE  /\ Handed \in Seq(Packets) /\ session \in Seq(Packets) /\ inbound \in Seq(Packets)
         /\ Packets \subseteq Nat /\ read \in Nat /\ Passed \in Nat /\ Len(batch) \in Nat
         /\ Len(Handed) = Len(session) + Len(inbound)
         /\ Len(session) \in Nat /\ Len(inbound) \in Nat
<1>1. /\ session \in Seq(Packets) /\ inbound \in Seq(Packets) /\ batch \in Seq(Packets)
      /\ Packets \subseteq Nat /\ read \in Nat
  BY DEF TypeOK, Packets
<1>2. Len(batch) \in Nat /\ Len(session) \in Nat /\ Len(inbound) \in Nat
  BY <1>1, LenProperties
<1>3. Passed \in Nat
  BY <1>1, <1>2 DEF BatchShape, Passed
<1> QED BY <1>1, <1>2, <1>3, ConcatProperties DEF Handed

(* The packets are handed on in order. *)
LEMMA HandOn ==
  ASSUME TypeOK, BatchShape, Conserved, component = "live", Passed + 1 \in Packets,
         Handed' = Append(Handed, Passed + 1), Passed' = Passed + 1, dropped' = dropped
  PROVE  Conserved'
<1>1. /\ Increasing(Handed) /\ Range(Handed) \cup dropped = 1 .. Passed
      /\ Range(Handed) \cap dropped = {}
      /\ \A p \in dropped : Cardinality((1 .. p) \ dropped) >= InboundSize
  BY DEF Conserved
<1>2. \A i \in 1 .. Len(Handed) : Handed[i] < Passed + 1
  <2>1. DOMAIN Handed = 1 .. Len(Handed)
    BY HandedType, LenProperties
  <2>2. \A i \in 1 .. Len(Handed) : Handed[i] \in 1 .. Passed
    BY <1>1, <2>1 DEF Range
  <2> QED BY <2>2, HandedType
<1>3. /\ Increasing(Append(Handed, Passed + 1))
      /\ Range(Append(Handed, Passed + 1)) = Range(Handed) \cup {Passed + 1}
  BY <1>1, <1>2, HandedType, IncreasingAppend, SMTT(30)
<1>4. 1 .. Passed + 1 = (1 .. Passed) \cup {Passed + 1} /\ Passed + 1 \notin 1 .. Passed
  <2>1. Passed \in Nat
    BY HandedType
  <2> QED BY <2>1, OneMore
<1>5. Increasing(Handed)'
  BY <1>3 DEF Increasing
<1>6. Range(Handed') = Range(Handed) \cup {Passed + 1}
  BY <1>3
<1>7. Range(Handed') \cup dropped' = 1 .. Passed' /\ Range(Handed') \cap dropped' = {}
  BY <1>1, <1>4, <1>6
<1> QED BY <1>1, <1>5, <1>7 DEF Conserved, Range

(* A packet that is given back finds InboundSize others, which were not, in the
   channel in front of it. *)
LEMMA GiveBack ==
  ASSUME TypeOK, BatchShape, Conserved, component = "live", InboundFull,
         Handed' = Handed, Passed' = Passed + 1, dropped' = dropped \cup {Passed + 1}
  PROVE  Conserved'
<1>1. /\ Increasing(Handed) /\ Range(Handed) \cup dropped = 1 .. Passed
      /\ Range(Handed) \cap dropped = {}
      /\ \A p \in dropped : Cardinality((1 .. p) \ dropped) >= InboundSize
  BY DEF Conserved
<1>2. Passed \in Nat /\ Passed + 1 \notin 1 .. Passed /\ 1 .. Passed + 1 = (1 .. Passed) \cup {Passed + 1}
  <2>1. Passed \in Nat
    BY HandedType
  <2> QED BY <2>1, OneMore
<1>3. Range(Handed) \cup dropped' = 1 .. Passed' /\ Range(Handed) \cap dropped' = {}
  BY <1>1, <1>2
<1>4. ASSUME NEW p \in dropped PROVE Cardinality((1 .. p) \ dropped') >= InboundSize
  <2>1. p \in 1 .. Passed
    BY <1>1
  <2>2. (1 .. p) \ dropped' = (1 .. p) \ dropped
    BY <1>2, <2>1
  <2> QED BY <1>1, <2>2
<1>5. Cardinality((1 .. Passed + 1) \ dropped') >= InboundSize
  <2> DEFINE kept == (1 .. Passed + 1) \ dropped'
             n == Len(inbound)
  <2>1. /\ n \in Nat /\ n = InboundSize /\ Len(session) \in Nat
        /\ Handed \in Seq(Packets) /\ Len(Handed) = Len(session) + n
    BY HandedType DEF InboundFull
  <2>2. \A i \in 1 .. n : Len(session) + i \in 1 .. Len(Handed) /\ inbound[i] = Handed[Len(session) + i]
    <3>1. \A i \in 1 .. Len(session) + Len(inbound) :
             Handed[i] = IF i <= Len(session) THEN session[i] ELSE inbound[i - Len(session)]
      BY HandedType, ConcatProperties DEF Handed
    <3> SUFFICES ASSUME NEW i \in 1 .. n
                 PROVE  Len(session) + i \in 1 .. Len(Handed) /\ inbound[i] = Handed[Len(session) + i]
      OBVIOUS
    <3>2. /\ Len(session) + i \in 1 .. Len(session) + Len(inbound)
          /\ ~(Len(session) + i <= Len(session)) /\ (Len(session) + i) - Len(session) = i
      BY <2>1
    <3> QED BY <2>1, <3>1, <3>2
  <2>3. DOMAIN Handed = 1 .. Len(Handed)
    BY <2>1, LenProperties
  <2>4. \A i \in 1 .. n : inbound[i] \in kept
    <3>1. \A i \in 1 .. Len(Handed) : Handed[i] \in Range(Handed)
      BY <2>3 DEF Range
    <3>2. Range(Handed) \subseteq kept
      BY <1>1, <1>2, <1>3
    <3> QED BY <2>2, <3>1, <3>2
  <2>5. \A i, j \in 1 .. n : i < j => inbound[i] # inbound[j]
    <3> SUFFICES ASSUME NEW i \in 1 .. n, NEW j \in 1 .. n, i < j PROVE inbound[i] # inbound[j]
      OBVIOUS
    <3>1. Len(session) + i < Len(session) + j
      BY <2>1
    <3>2. Handed[Len(session) + i] < Handed[Len(session) + j]
      BY <1>1, <2>2, <2>3, <3>1 DEF Increasing
    <3>3. Handed[Len(session) + i] \in Nat
      BY <2>1, <2>2, ElementOfSeq, HandedType
    <3> QED BY <2>2, <3>2, <3>3
  <2>6. inbound \in [1 .. n -> kept]
    BY <2>4, HandedType, LenProperties
  <2>7. IsFiniteSet(1 .. n) /\ Cardinality(1 .. n) = n
    BY <2>1, FS_Interval
  <2>8. IsFiniteSet(kept) /\ Cardinality(kept) \in Nat
    <3>1. IsFiniteSet(1 .. Passed + 1)
      BY <1>2, FS_Interval
    <3> QED BY <3>1, FS_Subset, FS_CardinalityType
  <2> HIDE DEF kept, n
  <2>9. ASSUME Cardinality(kept) < n PROVE FALSE
    <3>1. \E i, j \in 1 .. n : i # j /\ inbound[i] = inbound[j]
      BY <2>6, <2>7, <2>8, <2>9, FS_PigeonHole
    <3>2. \A i, j \in 1 .. n : i # j => i < j \/ j < i
      BY <2>1
    <3> QED BY <2>5, <3>1, <3>2
  <2>10. Cardinality(kept) >= n
    BY <2>1, <2>8, <2>9
  <2> QED BY <2>1, <2>10 DEF kept
<1> QED BY <1>1, <1>3, <1>4, <1>5 DEF Conserved, Increasing, Range

(* What neither hands a packet on nor gives one back. *)
LEMMA Undisturbed ==
  ASSUME Conserved, Handed' = Handed, Passed' = Passed, dropped' = dropped,
         component' = "live" => component = "live"
  PROVE  Conserved'
  BY DEF Conserved, Increasing, Range

(* A step that moves no packet. *)
LEMMA SameChannels ==
  ASSUME Conserved, UNCHANGED <<session, inbound, read, batch, dropped, component>>
  PROVE  Conserved'
  BY Undisturbed DEF Handed, Passed

(* The transfer of the next packet hands it on, or gives it back. *)
LEMMA TransferConserves ==
  ASSUME TypeOK, BatchShape, Conserved, Passed + 1 \in Packets, Transfer(Passed + 1),
         Passed' = Passed + 1, UNCHANGED <<session, component>>
  PROVE  Conserved'
<1>1. CASE component = "removed"
  BY <1>1 DEF Conserved
<1>2. CASE component = "live" /\ InboundFull
  <2>1. inbound' = inbound /\ dropped' = dropped \cup {Passed + 1}
    BY <1>2 DEF Transfer
  <2> QED BY <1>2, <2>1, GiveBack DEF Handed
<1>3. CASE component = "live" /\ ~InboundFull
  <2>1. inbound' = Append(inbound, Passed + 1) /\ dropped' = dropped
    BY <1>3 DEF Transfer
  <2>2. session \o Append(inbound, Passed + 1) = Append(Handed, Passed + 1)
    BY HandedType, ConcatAppend, SMTT(30) DEF Handed
  <2> QED BY <1>3, <2>1, <2>2, HandOn DEF Handed
<1> QED BY <1>1, <1>2, <1>3 DEF TypeOK

(* While the component lives, no step loses or reorders a packet. *)
LEMMA ConservedStep ==
  ASSUME TypeOK, TaskShape, BatchShape, Conserved, [Next]_vars
  PROVE  Conserved'
<1> USE DEF bevy, task, quic
<1>1. CASE StartStop
  BY <1>1, SameChannels DEF StartStop
<1>2. CASE Remove
  BY <1>2 DEF Remove, Conserved
<1>3. CASE SessionRecv
  <2> DEFINE F == First(TransferLimit, inbound)
             R == Rest(TransferLimit, inbound)
  <2>1. F \in Seq(Packets) /\ R \in Seq(Packets) /\ session \in Seq(Packets)
    BY Receiving DEF TypeOK
  <2>5. F \o R = inbound
    BY Receiving
  <2>2. /\ session' = session \o F /\ inbound' = R
        /\ UNCHANGED <<component, read, batch, dropped>>
    BY <1>3 DEF SessionRecv
  <2> HIDE DEF F, R
  <2>3. (session \o F) \o R = session \o (F \o R)
    BY <2>1, ConcatAssociative
  <2>4. Handed' = Handed
    BY <2>2, <2>3, <2>5 DEF Handed
  <2> QED BY <2>2, <2>4, Undisturbed DEF Passed
<1>4. CASE SessionRecvClosed
  BY <1>4, SameChannels DEF SessionRecvClosed
<1>5. CASE SendStop
  BY <1>5, SameChannels DEF SendStop
<1>6. CASE NextFrame
  BY <1>6, SameChannels DEF NextFrame
<1>7. CASE ReceiveBatch
  <2>1. PICK n \in 0 .. BatchSize :
           n <= Unread /\ batch' = [i \in 1 .. n |-> read + i] /\ read' = read + n
    BY <1>7 DEF ReceiveBatch
  <2>2. Len(batch') = n /\ n \in Nat /\ read \in Nat
    BY <2>1, BatchType DEF TypeOK
  <2>3. Len(batch) = 0
    BY <1>7, EmptySeq DEF ReceiveBatch, TaskShape
  <2>4. Passed' = Passed
    BY <2>1, <2>2, <2>3 DEF Passed
  <2> QED BY <1>7, <2>4, Undisturbed DEF ReceiveBatch, Handed
<1>8. CASE TransferNext
  <2>1. /\ batch # <<>> /\ batch \in Seq(Packets) /\ batch' = Tail(batch) /\ Transfer(Head(batch))
        /\ UNCHANGED <<session, component, read>>
    BY <1>8 DEF TransferNext, TypeOK
  <2>2. Len(batch) \in Nat \ {0} /\ Len(Tail(batch)) = Len(batch) - 1 /\ Head(batch) \in Packets
    BY <2>1, HeadTailProperties, EmptySeq
  <2>3. Head(batch) = Passed + 1
    <3>1. Head(batch) = batch[1]
      BY <2>1
    <3>2. 1 \in 1 .. Len(batch)
      BY <2>2
    <3> QED BY <3>1, <3>2 DEF BatchShape
  <2>4. Passed' = Passed + 1
    BY <2>1, <2>2, HandedType DEF Passed
  <2> QED BY <2>1, <2>2, <2>3, <2>4, TransferConserves
<1>9. CASE TransferDone
  BY <1>9, SameChannels DEF TransferDone
<1>10. CASE ReceiveError
  BY <1>10, SameChannels DEF ReceiveError
<1>11. CASE TakeStop
  BY <1>11, SameChannels DEF TakeStop
<1>12. CASE ControlClosed
  BY <1>12, SameChannels DEF ControlClosed
<1>13. CASE Check
  BY <1>13, SameChannels DEF Check
<1>14. CASE DrainPacket
  <2>1. batch = <<>> /\ batch' = batch /\ read' = read + 1 /\ read < arrived /\ Transfer(read + 1)
        /\ UNCHANGED <<session, component>>
    BY <1>14 DEF DrainPacket, TaskShape
  <2>2. Len(batch) = 0
    BY <2>1, EmptySeq
  <2>3. Passed = read /\ Passed' = Passed + 1
    BY <2>1, <2>2, HandedType DEF Passed
  <2>4. Passed + 1 \in Packets
    BY <2>1, <2>3, SizesAssumption DEF TypeOK, Packets, SizesAssumption
  <2> QED BY <2>1, <2>3, <2>4, TransferConserves
<1>15. CASE DrainEnd
  BY <1>15, SameChannels DEF DrainEnd
<1>16. CASE PeerSends
  BY <1>16, SameChannels DEF PeerSends
<1>17. ASSUME NEW how \in DOMAIN Failures \cup {"ended"}, StreamEnds(how) PROVE Conserved'
  BY <1>17, SameChannels DEF StreamEnds
<1>18. CASE UNCHANGED vars
  BY <1>18, SameChannels DEF vars
<1> QED BY <1>1, <1>2, <1>3, <1>4, <1>5, <1>6, <1>7, <1>8, <1>9, <1>10, <1>11, <1>12, <1>13,
           <1>14, <1>15, <1>16, <1>17, <1>18
        DEF Next, User, Calls, EndFrame, TaskStep, Peer, Despawn, HandleDisconnection
-----------------------------------------------------------------------------
(* A new stream satisfies the invariant. *)
LEMMA InitInvariant == Init => IInv
<1> SUFFICES ASSUME Init PROVE IInv
  OBVIOUS
<1>1. <<>> \in Seq(Packets) /\ Len(<<>>) = 0
  BY EmptySeq
<1>2. 0 \in 0 .. MaxPackets /\ 0 \in 0 .. 0 /\ 0 \in 0 .. ControlSize /\ 0 <= InboundSize
  BY SizesAssumption DEF SizesAssumption
<1>3. TypeOK
  BY <1>1, <1>2, FailureReasons DEF Init, TypeOK
<1>8. Passed = 0
  <2>1. read = 0 /\ Len(batch) = 0
    BY <1>1 DEF Init
  <2> QED BY <2>1 DEF Passed
<1>9. TaskShape /\ BatchShape
  BY <1>1, <1>8 DEF Init, TaskShape, BatchShape
<1>4. ReasonIsTrue
  BY FailureReasons DEF Init, ReasonIsTrue
<1>5. Handed = <<>>
  BY <1>1, ConcatEmptySeq DEF Init, Handed
<1>6. DOMAIN <<>> = {} /\ Range(<<>>) = {}
  BY DEF Range
<1>7. Conserved
  BY <1>8, <1>5, <1>6 DEF Init, Conserved, Increasing
<1> QED BY <1>3, <1>9, <1>4, <1>7 DEF IInv

(* The inductive invariant holds in every reachable state. *)
THEOREM Invariance == Spec => []IInv
<1>1. IInv /\ [Next]_vars => IInv'
  BY TypeStep, ShapeStep, ReasonStep, BatchStep, ConservedStep DEF IInv
<1> QED BY InitInvariant, <1>1, PTL DEF Spec

(* Every variable keeps its type, and no channel exceeds its size. *)
THEOREM TypeCorrect == Spec => []TypeOK
<1>1. IInv => TypeOK
  BY DEF IInv
<1> QED BY Invariance, <1>1, PTL

(* The reason that the task returns is what ended it: PeerClosed is said only
   when all that the peer sent has been read. *)
THEOREM ReasonsAreTrue == Spec => []ReasonIsTrue
<1>1. IInv => ReasonIsTrue
  BY DEF IInv
<1> QED BY Invariance, <1>1, PTL

(* The batch behind what was handed on is the end of what was read. *)
LEMMA DeliveredIs ==
  ASSUME TypeOK, BatchShape, Conserved, component = "live"
  PROVE  /\ Increasing(Delivered)
         /\ Range(Delivered) = Range(Handed) \cup (Passed + 1 .. read)
<1>1. /\ Handed \in Seq(Packets) /\ batch \in Seq(Packets) /\ Delivered = Handed \o batch
      /\ Len(Handed) \in Nat /\ Len(batch) \in Nat /\ Passed \in Nat /\ read = Passed + Len(batch)
  BY HandedType DEF Delivered, Handed, TypeOK, Passed
<1>2. /\ Handed \o batch \in Seq(Packets) /\ Len(Handed \o batch) = Len(Handed) + Len(batch)
      /\ \A i \in 1 .. Len(Handed) + Len(batch) :
           (Handed \o batch)[i] = IF i <= Len(Handed) THEN Handed[i] ELSE batch[i - Len(Handed)]
  BY <1>1, ConcatProperties
<1>3. DOMAIN Handed = 1 .. Len(Handed) /\ DOMAIN batch = 1 .. Len(batch)
      /\ DOMAIN (Handed \o batch) = 1 .. Len(Handed) + Len(batch)
  BY <1>1, <1>2, LenProperties
<1>4. \A i \in 1 .. Len(Handed) : Handed[i] \in 1 .. Passed
  BY <1>3 DEF Conserved, Range
<1>5. \A i \in 1 .. Len(batch) : batch[i] = Passed + i
  BY DEF BatchShape
<1> DEFINE both == Handed \o batch
<1> HIDE DEF both
<1>6. /\ DOMAIN both = 1 .. Len(Handed) + Len(batch)
      /\ \A i \in 1 .. Len(Handed) + Len(batch) :
           both[i] = IF i <= Len(Handed) THEN Handed[i] ELSE Passed + (i - Len(Handed))
  BY <1>1, <1>2, <1>3, <1>5 DEF both
<1>7. Increasing(both)
  <2> SUFFICES ASSUME NEW i \in DOMAIN both, NEW j \in DOMAIN both, i < j
               PROVE  both[i] < both[j]
    BY DEF Increasing
  <2>1. CASE j <= Len(Handed)
    <3>1. both[i] = Handed[i] /\ both[j] = Handed[j] /\ i \in DOMAIN Handed /\ j \in DOMAIN Handed
      BY <1>1, <1>3, <1>6, <2>1
    <3> QED BY <3>1 DEF Conserved, Increasing
  <2>2. CASE i <= Len(Handed) /\ j > Len(Handed)
    <3>1. both[i] \in 1 .. Passed /\ both[j] = Passed + (j - Len(Handed))
      BY <1>1, <1>4, <1>6, <2>2
    <3> QED BY <1>1, <1>6, <2>2, <3>1
  <2>3. CASE i > Len(Handed)
    BY <1>1, <1>6, <2>3
  <2> QED BY <1>1, <1>6, <2>1, <2>2, <2>3
<1>8. Range(Handed \o batch) = Range(Handed) \cup Range(batch)
  BY <1>1, RangeConcatenation
<1>9. Range(batch) = Passed + 1 .. read
  <2>1. ASSUME NEW x \in Passed + 1 .. read
        PROVE  x - Passed \in 1 .. Len(batch) /\ batch[x - Passed] = x
    <3>1. x - Passed \in 1 .. Len(batch) /\ Passed + (x - Passed) = x
      BY <1>1
    <3> QED BY <1>5, <3>1
  <2>2. \A i \in 1 .. Len(batch) : batch[i] \in Passed + 1 .. read
    BY <1>1, <1>5
  <2> QED BY <1>3, <2>1, <2>2 DEF Range
<1> QED BY <1>1, <1>7, <1>8, <1>9 DEF both

(* While the component lives, every packet that was read is in one place and in
   order, or was given back behind InboundSize others. *)
THEOREM NoLoss == Spec => []PacketsConserved
<1>1. IInv => PacketsConserved
  <2> SUFFICES ASSUME IInv, component = "live"
               PROVE  /\ Increasing(Delivered)
                      /\ Range(Delivered) \cup dropped = 1 .. read
                      /\ Range(Delivered) \cap dropped = {}
                      /\ \A p \in dropped : Cardinality((1 .. p) \ dropped) >= InboundSize
    BY DEF PacketsConserved
  <2>1. /\ Increasing(Delivered) /\ Range(Delivered) = Range(Handed) \cup (Passed + 1 .. read)
        /\ Passed \in Nat /\ read \in Nat /\ Passed <= read
    BY DeliveredIs, HandedType DEF IInv, Passed
  <2>2. /\ Range(Handed) \cup dropped = 1 .. Passed /\ Range(Handed) \cap dropped = {}
        /\ \A p \in dropped : Cardinality((1 .. p) \ dropped) >= InboundSize
    BY DEF IInv, Conserved
  <2>3. (1 .. Passed) \cup (Passed + 1 .. read) = 1 .. read /\ (1 .. Passed) \cap (Passed + 1 .. read) = {}
    BY <2>1
  <2> QED BY <2>1, <2>2, <2>3
<1> QED BY Invariance, <1>1, PTL
-----------------------------------------------------------------------------
(* Refinement: what PacketPipe speaks of.  Behind the channel wait what the task
   holds and what it has not received. *)
Live == component = "live"
Closed == component = "removed" \/ stream \in DOMAIN Failures \/ pc = "finished"
Behind == batch \o Unreceived
Queue == IF component = "removed" THEN <<>> ELSE inbound \o batch \o Unreceived

(* The mapped variables of the pipe are these. *)
LEMMA PipeIs ==
  /\ Pipe!pipe = <<arrived, Queue, session, Closed>>
  /\ Pipe!pipe' = <<arrived', Queue', session', Closed'>>
  BY DEF Pipe!pipe, Queue, Closed

(* The shape of the queue, in every state of the right types. *)
QueueShape ==
  TypeOK => /\ Unreceived \in Seq(Packets) /\ Behind \in Seq(Packets)
            /\ inbound \in Seq(Packets) /\ batch \in Seq(Packets) /\ session \in Seq(Packets)
            /\ Queue = IF Live THEN inbound \o Behind ELSE <<>>

(* The pipe's queue is the channel and what is behind it. *)
LEMMA QueueIs == QueueShape
<1> SUFFICES ASSUME TypeOK
             PROVE  /\ Unreceived \in Seq(Packets) /\ Behind \in Seq(Packets)
                    /\ inbound \in Seq(Packets) /\ batch \in Seq(Packets) /\ session \in Seq(Packets)
                    /\ Queue = IF Live THEN inbound \o Behind ELSE <<>>
  BY DEF QueueShape
<1>1. inbound \in Seq(Packets) /\ batch \in Seq(Packets) /\ session \in Seq(Packets)
  BY DEF TypeOK
<1>2. Unreceived \in Seq(Packets)
  <2>1. /\ read \in Nat /\ Unread \in Nat /\ MaxPackets \in Nat /\ read + Unread <= MaxPackets
        /\ <<>> \in Seq(Packets)
    BY SizesAssumption DEF TypeOK, SizesAssumption, Unread
  <2>2. Consecutive(read, Unread) \in Seq(Packets)
    BY <2>1, ConsecutiveType DEF Packets
  <2> QED BY <2>1, <2>2 DEF Unreceived, Consecutive
<1> HIDE DEF Unreceived
<1>3. batch \o Unreceived \in Seq(Packets)
  BY <1>1, <1>2, ConcatProperties
<1>4. (inbound \o batch) \o Unreceived = inbound \o (batch \o Unreceived)
  BY <1>1, <1>2, ConcatAssociative
<1>5. component = "removed" <=> ~Live
  BY DEF TypeOK, Live
<1> QED BY <1>1, <1>2, <1>3, <1>4, <1>5 DEF Queue, Behind

(* So it is in the next state. *)
LEMMA QueueNext == QueueShape'
<1>1. QueueShape
  BY QueueIs
<1> QED BY <1>1, PTL

(* While the stream works, what it has not received are the packets behind those
   that were read. *)
LEMMA UnreceivedIs ==
  ASSUME TypeOK
  PROVE  /\ stream \in {"open", "ended"} /\ pc # "finished" => Unreceived = Consecutive(read, Unread)
         /\ read \in Nat /\ Unread \in Nat /\ arrived \in Nat /\ arrived = read + Unread
<1>1. read \in Nat /\ Unread \in Nat /\ arrived \in Nat /\ arrived = read + Unread
  BY DEF TypeOK, Unread
<1>2. stream \in {"open", "ended"} => stream \notin DOMAIN Failures
  BY FailureReasons
<1> QED BY <1>1, <1>2 DEF Unreceived, Consecutive

(* A step that leaves the packets where they are is none of the pipe. *)
LEMMA SameQueues ==
  ASSUME UNCHANGED <<session, inbound, batch, component, arrived, read>>,
         stream' \in DOMAIN Failures <=> stream \in DOMAIN Failures,
         pc' = "finished" <=> pc = "finished"
  PROVE  UNCHANGED Pipe!pipe
<1>1. Unreceived' = Unreceived
  <2>1. Unread' = Unread
    BY DEF Unread
  <2> HIDE DEF Failures
  <2> QED BY <2>1 DEF Unreceived
<1>2. Queue' = Queue
  BY <1>1 DEF Queue
<1>3. Closed' = Closed
  BY DEF Closed
<1> QED BY <1>2, <1>3, PipeIs

(* A step that only moves packets along, in a stream whose state it leaves, is
   none of the pipe either. *)
LEMMA MovesAlong ==
  ASSUME TypeOK, TypeOK', UNCHANGED <<session, component, stream, arrived, pc>>,
         Live => inbound' \o Behind' = inbound \o Behind
  PROVE  UNCHANGED Pipe!pipe
<1>1. Queue' = Queue
  <2>1. Live' <=> Live
    BY DEF Live
  <2>2. CASE Live
    <3>1. Queue' = inbound' \o Behind' /\ Queue = inbound \o Behind
      BY <2>1, <2>2, QueueIs, QueueNext DEF QueueShape
    <3> QED BY <2>2, <3>1
  <2>3. CASE ~Live
    <3>1. Queue' = <<>> /\ Queue = <<>>
      BY <2>1, <2>3, QueueIs, QueueNext DEF QueueShape
    <3> QED BY <3>1
  <2> QED BY <2>2, <2>3
<1>2. Closed' = Closed
  BY DEF Closed
<1> QED BY <1>1, <1>2, PipeIs
-----------------------------------------------------------------------------
(* The queue of the pipe around the first packet behind the channel. *)
LEMMA AroundFirst ==
  ASSUME TypeOK, NEW p \in Packets, NEW rest \in Seq(Packets)
  PROVE  LET q == inbound \o (<<p>> \o rest)
         IN  /\ Append(inbound, p) \o rest = q
             /\ SubSeq(q, 1, Len(inbound)) \o SubSeq(q, Len(inbound) + 2, Len(q)) = inbound \o rest
             /\ Len(inbound) + 1 \in 1 .. Len(q)
<1>1. inbound \in Seq(Packets)
  BY DEF TypeOK
<1> QED BY <1>1, ItemBetween

(* A transfer of the first packet behind the channel moves it along; or drops it
   behind a full channel; or finds that the component is gone. *)
LEMMA TransferPipe ==
  ASSUME TypeOK, TypeOK', NEW p \in Packets, NEW rest \in Seq(Packets), Transfer(p),
         Behind = <<p>> \o rest, Behind' = rest,
         UNCHANGED <<session, component, stream, arrived, pc>>
  PROVE  Pipe!Next \/ UNCHANGED Pipe!pipe
<1>1. CASE ~Live
  BY <1>1, MovesAlong
<1>2. CASE Live /\ ~InboundFull
  <2>1. inbound' = Append(inbound, p)
    BY <1>2 DEF Transfer, Live
  <2>2. Append(inbound, p) \o rest = inbound \o (<<p>> \o rest)
    BY AroundFirst
  <2> QED BY <2>1, <2>2, MovesAlong
<1>3. CASE Live /\ InboundFull
  <2> DEFINE q == inbound \o Behind
  <2>1. inbound' = inbound /\ Len(inbound) = InboundSize
    BY <1>3 DEF Transfer, Live, InboundFull
  <2>2. /\ SubSeq(q, 1, Len(inbound)) \o SubSeq(q, Len(inbound) + 2, Len(q)) = inbound \o rest
        /\ Len(inbound) + 1 \in 1 .. Len(q)
    <3> DEFINE whole == inbound \o (<<p>> \o rest)
    <3>2. /\ SubSeq(whole, 1, Len(inbound)) \o SubSeq(whole, Len(inbound) + 2, Len(whole)) = inbound \o rest
          /\ Len(inbound) + 1 \in 1 .. Len(whole)
      BY AroundFirst
    <3>3. whole = q
      OBVIOUS
    <3> HIDE DEF whole, q
    <3> QED BY <3>2, <3>3
  <2>3. Queue = q /\ Queue' = inbound \o rest /\ q \in Seq(Packets)
    <3>1. Live'
      BY <1>3 DEF Live
    <3>2. Queue' = inbound' \o Behind' /\ Queue = q
      BY <1>3, <3>1, QueueIs, QueueNext DEF QueueShape
    <3>3. q \in Seq(Packets)
      BY QueueIs, ConcatProperties DEF QueueShape
    <3> QED BY <2>1, <3>2, <3>3
  <2>4. Closed' = Closed
    BY DEF Closed
  <2> DEFINE n == InboundSize + 1
  <2>5. n \in DOMAIN Queue /\ n > InboundSize /\ n - 1 = Len(inbound) /\ n + 1 = Len(inbound) + 2
    <3>1. InboundSize \in Nat /\ DOMAIN q = 1 .. Len(q)
      BY <2>3, LenProperties, SizesAssumption DEF SizesAssumption
    <3> HIDE DEF q
    <3> QED BY <2>1, <2>2, <2>3, <3>1
  <2> HIDE DEF n, q
  <2>6. Queue' = SubSeq(Queue, 1, n - 1) \o SubSeq(Queue, n + 1, Len(Queue))
    BY <2>2, <2>3, <2>5
  <2>7. Pipe!Drop(n)
    BY <2>4, <2>5, <2>6 DEF Pipe!Drop, Pipe!RemoveAt, Queue, Closed
  <2> QED BY <2>5, <2>7 DEF Pipe!Next, Queue
<1> QED BY <1>1, <1>2, <1>3

(* A stream that is closed and holds nothing behind its batch cuts the pipe
   there. *)
LEMMA Cuts ==
  ASSUME TypeOK, TypeOK', UNCHANGED <<session, component, inbound, batch, arrived>>,
         Closed', Unreceived' = <<>>
  PROVE  Pipe!Next
<1>1. CASE Live
  <2>1. Live'
    BY <1>1 DEF Live
  <2>2. Queue = (inbound \o batch) \o Unreceived /\ Queue' = (inbound \o batch) \o <<>>
    BY <1>1, <2>1 DEF Queue, Live
  <2>3. inbound \o batch \in Seq(Packets) /\ Unreceived \in Seq(Packets)
    BY QueueIs, ConcatProperties DEF QueueShape
  <2> DEFINE front == inbound \o batch
  <2> HIDE DEF front
  <2>4. front \in Seq(Packets) /\ Queue = front \o Unreceived /\ Queue' = front \o <<>>
    BY <2>2, <2>3 DEF front
  <2>5. Queue' = front
    BY <2>4, ConcatEmptySeq
  <2>6. SubSeq(front \o Unreceived, 1, Len(front)) = front
    BY <2>3, <2>4, FrontAndBack
  <2>7. Len(front) \in 0 .. Len(Queue)
    <3>1. Len(front \o Unreceived) = Len(front) + Len(Unreceived)
      BY <2>3, <2>4, ConcatProperties
    <3>2. Len(front) \in Nat /\ Len(Unreceived) \in Nat
      BY <2>3, <2>4, LenProperties
    <3> QED BY <2>4, <3>1, <3>2
  <2>8. Queue' = SubSeq(Queue, 1, Len(front))
    BY <2>4, <2>5, <2>6
  <2>9. Pipe!Cut(Len(front))
    BY <2>8 DEF Pipe!Cut, Queue, Closed
  <2> QED BY <2>7, <2>9 DEF Pipe!Next, Queue
<1>2. CASE ~Live
  <2>1. Queue = <<>> /\ Queue' = <<>>
    <3>1. ~Live'
      BY <1>2 DEF Live
    <3> QED BY <1>2, <3>1, QueueIs, QueueNext DEF QueueShape
  <2>2. Queue' = SubSeq(Queue, 1, 0) /\ 0 \in 0 .. Len(Queue)
    BY <2>1, EmptySeq, SubSeqEmpty
  <2>3. Pipe!Cut(0)
    BY <2>2 DEF Pipe!Cut, Queue, Closed
  <2> QED BY <2>2, <2>3 DEF Pipe!Next, Queue
<1> QED BY <1>1, <1>2

(* Every step is a step of the pipe or none: the peer offers, a frame delivers,
   a full channel drops, and an end cuts. *)
LEMMA PipeStep ==
  ASSUME IInv, [Next]_vars
  PROVE  Pipe!Next \/ UNCHANGED Pipe!pipe
<1> USE DEF bevy, task, quic
<1>0. TypeOK /\ TypeOK' /\ TaskShape /\ BatchShape
  BY TypeStep DEF IInv
<1>1. CASE StartStop
  BY <1>1, SameQueues DEF StartStop
<1>2. CASE Remove
  <2>1. Queue' = <<>> /\ Closed' /\ UNCHANGED <<arrived, session>>
    BY <1>2 DEF Remove, Queue, Closed
  <2>2. Queue \in Seq(Packets)
    <3>1. inbound \in Seq(Packets) /\ Behind \in Seq(Packets) /\ <<>> \in Seq(Packets)
          /\ Queue = IF Live THEN inbound \o Behind ELSE <<>>
      BY <1>0, QueueIs DEF QueueShape
    <3>2. inbound \o Behind \in Seq(Packets)
      BY <3>1, ConcatProperties
    <3> QED BY <3>1, <3>2
  <2>3. SubSeq(Queue, 1, 0) = <<>> /\ 0 \in 0 .. Len(Queue)
    BY <2>2, SubSeqEmpty, LenProperties
  <2>4. Pipe!Cut(0)
    BY <2>1, <2>3 DEF Pipe!Cut, Queue, Closed
  <2> QED BY <2>3, <2>4 DEF Pipe!Next, Queue
<1>3. CASE SessionRecv
  <2>1. /\ Live /\ inbound # <<>> /\ UNCHANGED <<component, stream, arrived, read, batch, pc>>
        /\ session' = session \o First(TransferLimit, inbound) /\ inbound' = Rest(TransferLimit, inbound)
    BY <1>3 DEF SessionRecv, Live
  <2>2. inbound \in Seq(Packets) /\ Behind \in Seq(Packets) /\ Queue = inbound \o Behind
    BY <1>0, <2>1, QueueIs DEF QueueShape
  <2>3. PICK k \in 0 .. Len(inbound) :
           /\ First(TransferLimit, inbound) = SubSeq(inbound, 1, k)
           /\ Rest(TransferLimit, inbound) = SubSeq(inbound, k + 1, Len(inbound))
           /\ k > 0
    BY <2>1, <2>2, Served, SizesAssumption DEF SizesAssumption
  <2>4. Queue' = inbound' \o Behind
    <3>1. Live' /\ Behind' = Behind
      BY <2>1 DEF Live, Behind, Unreceived, Unread
    <3> QED BY <1>0, <3>1, QueueNext DEF QueueShape
  <2>5. /\ SubSeq(Queue, 1, k) = SubSeq(inbound, 1, k)
        /\ SubSeq(Queue, k + 1, Len(Queue)) = SubSeq(inbound, k + 1, Len(inbound)) \o Behind
        /\ k \in 1 .. Len(Queue)
    BY <2>2, <2>3, ServeFront
  <2>6. k \in DOMAIN Queue
    <3>1. Queue \in Seq(Packets)
      BY <2>2, ConcatProperties
    <3> QED BY <2>5, <3>1, LenProperties
  <2>7. Closed' = Closed
    BY <2>1 DEF Closed
  <2>8. Pipe!Deliver(k)
    BY <2>1, <2>3, <2>4, <2>5, <2>7 DEF Pipe!Deliver, Queue, Closed
  <2> QED BY <2>6, <2>8 DEF Pipe!Next, Queue
<1>4. CASE SessionRecvClosed
  BY <1>4, SameQueues DEF SessionRecvClosed
<1>5. CASE SendStop
  BY <1>5, SameQueues DEF SendStop
<1>6. CASE NextFrame
  BY <1>6, SameQueues DEF NextFrame
<1>7. CASE ReceiveBatch
  <2>1. PICK n \in 0 .. BatchSize :
           n <= Unread /\ batch' = Consecutive(read, n) /\ read' = read + n
    BY <1>7 DEF ReceiveBatch, Consecutive
  <2>2. /\ pc = "select" /\ stream \in {"open", "ended"} /\ pc' = "transfer" /\ batch = <<>>
        /\ UNCHANGED <<session, inbound, component, stream, arrived>>
    BY <1>0, <1>7 DEF ReceiveBatch, TaskShape
  <2>3. /\ Unreceived = Consecutive(read, Unread) /\ read \in Nat /\ Unread \in Nat
        /\ n \in Nat /\ Unread - n \in Nat
    BY <1>0, <2>1, <2>2, UnreceivedIs
  <2>4. Unreceived' = Consecutive(read + n, Unread - n)
    <3>1. Unread' = Unread - n
      BY <2>1, <2>2, <2>3, <1>0 DEF Unread, TypeOK
    <3>2. stream \notin DOMAIN Failures
      BY <2>2, FailureReasons
    <3> QED BY <2>1, <2>2, <3>1, <3>2 DEF Unreceived, Consecutive
  <2>5. Consecutive(read, n) \o Consecutive(read + n, Unread - n) = Consecutive(read, Unread)
    <3>1. n + (Unread - n) = Unread
      BY <2>3
    <3>2. Consecutive(read, n) \o Consecutive(read + n, Unread - n) = Consecutive(read, n + (Unread - n))
      BY <2>3, ConsecutiveSplits
    <3> QED BY <3>1, <3>2
  <2>6. Behind' = Behind
    <3>1. Behind = Unreceived
      BY <1>0, <2>2, QueueIs, ConcatEmptySeq DEF Behind, QueueShape
    <3> QED BY <2>1, <2>3, <2>4, <2>5, <3>1 DEF Behind
  <2>7. Queue' = Queue
    <3>1. CASE Live
      <4>1. Live'
        BY <2>2, <3>1 DEF Live
      <4>2. Queue' = inbound' \o Behind' /\ Queue = inbound \o Behind
        BY <1>0, <3>1, <4>1, QueueIs, QueueNext DEF QueueShape
      <4> QED BY <2>2, <2>6, <4>2
    <3>2. CASE ~Live
      <4>1. ~Live'
        BY <2>2, <3>2 DEF Live
      <4>2. Queue' = <<>> /\ Queue = <<>>
        BY <1>0, <3>2, <4>1, QueueIs, QueueNext DEF QueueShape
      <4> QED BY <4>2
    <3> QED BY <3>1, <3>2
  <2>8. Closed' = Closed
    BY <2>2 DEF Closed
  <2> QED BY <2>2, <2>7, <2>8, PipeIs
<1>8. CASE TransferNext
  <2>1. /\ batch # <<>> /\ batch \in Seq(Packets) /\ batch' = Tail(batch) /\ Transfer(Head(batch))
        /\ UNCHANGED <<session, component, stream, arrived, read, pc>>
    BY <1>0, <1>8 DEF TransferNext, TypeOK
  <2>2. Unreceived \in Seq(Packets) /\ Unreceived' = Unreceived
    BY <1>0, <2>1, QueueIs DEF QueueShape, Unreceived, Unread
  <2>3. Head(batch) \in Packets /\ Tail(batch) \in Seq(Packets) /\ batch = <<Head(batch)>> \o Tail(batch)
    BY <2>1, HeadThenTail
  <2> DEFINE p == Head(batch)
             rest == Tail(batch) \o Unreceived
  <2>4. rest \in Seq(Packets) /\ (<<p>> \o Tail(batch)) \o Unreceived = <<p>> \o rest
    <3>1. <<p>> \in Seq(Packets)
      BY <2>3
    <3> QED BY <2>2, <2>3, <3>1, ConcatAssociative, ConcatProperties
  <2>5. Behind = <<p>> \o rest /\ Behind' = rest
    BY <2>1, <2>2, <2>3, <2>4 DEF Behind
  <2> HIDE DEF rest
  <2> QED BY <1>0, <2>1, <2>3, <2>4, <2>5, TransferPipe
<1>9. CASE TransferDone
  BY <1>9, SameQueues DEF TransferDone
<1>10. CASE ReceiveError
  BY <1>10, SameQueues DEF ReceiveError
<1>11. CASE TakeStop
  BY <1>11, SameQueues DEF TakeStop
<1>12. CASE ControlClosed
  BY <1>12, SameQueues DEF ControlClosed
<1>13. CASE Check
  BY <1>13, SameQueues DEF Check
<1>14. CASE DrainPacket
  <2>1. /\ pc = "drain" /\ stream \in {"open", "ended"} /\ read < arrived /\ read' = read + 1
        /\ Transfer(read + 1) /\ batch = <<>> /\ batch' = batch
        /\ UNCHANGED <<session, component, stream, arrived, pc>>
    BY <1>0, <1>14 DEF DrainPacket, TaskShape
  <2>2. /\ Unreceived = Consecutive(read, Unread) /\ read \in Nat /\ Unread \in Nat /\ Unread > 0
        /\ read + 1 \in Packets
    <3>1. Unreceived = Consecutive(read, Unread) /\ read \in Nat /\ Unread \in Nat
          /\ arrived \in Nat /\ arrived = read + Unread
      BY <1>0, <2>1, UnreceivedIs
    <3>2. arrived <= MaxPackets /\ MaxPackets \in Nat
      BY <1>0, SizesAssumption DEF TypeOK, SizesAssumption
    <3> QED BY <2>1, <3>1, <3>2 DEF Packets
  <2> DEFINE k == Unread - 1
             rest == Consecutive(read + 1, k)
  <2>3. k \in Nat /\ 1 + k = Unread /\ Unread' = k
    BY <2>1, <2>2, <1>0 DEF Unread, TypeOK
  <2>4. <<read + 1>> \o rest = Unreceived
    <3> HIDE DEF k
    <3> QED BY <2>2, <2>3, ConsecutiveEnds
  <2>5. Unreceived' = rest
    <3>1. stream \notin DOMAIN Failures
      BY <2>1, FailureReasons
    <3> QED BY <2>1, <2>3, <3>1 DEF Unreceived, Consecutive
  <2>6. Behind = Unreceived /\ Behind' = Unreceived' /\ rest \in Seq(Packets)
    BY <1>0, <2>1, <2>5, QueueIs, QueueNext, ConcatEmptySeq DEF Behind, QueueShape
  <2> HIDE DEF rest
  <2> QED BY <1>0, <2>1, <2>2, <2>4, <2>5, <2>6, TransferPipe
<1>15. CASE DrainEnd
  <2>1. UNCHANGED <<session, component, inbound, batch, arrived>> /\ pc' = "finished"
    BY <1>15 DEF DrainEnd
  <2>2. Closed' /\ Unreceived' = <<>>
    BY <2>1 DEF Closed, Unreceived
  <2> QED BY <1>0, <2>1, <2>2, Cuts
<1>16. CASE PeerSends
  <2>1. /\ stream = "open" /\ arrived' = arrived + 1 /\ arrived' \in Packets
        /\ UNCHANGED <<session, component, inbound, batch, read, pc, stream>>
    BY <1>0, <1>16, SizesAssumption DEF PeerSends, TypeOK, Packets, SizesAssumption
  <2>2. Closed' = Closed /\ stream \notin DOMAIN Failures
    BY <2>1, FailureReasons DEF Closed
  <2>3. Queue' = IF Closed THEN Queue ELSE Append(Queue, arrived + 1)
    <3>1. CASE ~Live
      <4>1. Closed /\ Queue' = <<>> /\ Queue = <<>>
        BY <1>0, <2>1, <3>1 DEF TypeOK, Live, Closed, Queue
      <4> QED BY <4>1
    <3>2. CASE Live /\ pc = "finished"
      <4>1. Closed /\ Unreceived' = Unreceived
        BY <2>1, <3>2 DEF Closed, Unreceived
      <4> QED BY <2>1, <4>1 DEF Queue
    <3>3. CASE Live /\ pc # "finished"
      <4>1. ~Closed /\ Unreceived = Consecutive(read, Unread) /\ read \in Nat /\ Unread \in Nat
            /\ arrived = read + Unread
        BY <1>0, <2>1, <2>2, <3>3, UnreceivedIs DEF Closed, Live
      <4>2. Unread' = Unread + 1
        BY <1>0, <2>1 DEF Unread, TypeOK
      <4>3. Unreceived' = Append(Unreceived, arrived + 1)
        <5>1. Unreceived' = Consecutive(read, Unread + 1)
          BY <2>1, <2>2, <3>3, <4>2 DEF Unreceived, Consecutive
        <5>2. Append(Consecutive(read, Unread), read + Unread + 1) = Consecutive(read, Unread + 1)
          BY <4>1, ConsecutiveEnds
        <5> QED BY <4>1, <5>1, <5>2
      <4>4. inbound \o batch \in Seq(Packets) /\ Unreceived \in Seq(Packets)
        BY <1>0, QueueIs, ConcatProperties DEF QueueShape
      <4> DEFINE front == inbound \o batch
                 x == arrived + 1
      <4>5. /\ front \in Seq(Packets) /\ x \in Packets
            /\ Queue = front \o Unreceived /\ Queue' = front \o Append(Unreceived, x)
        BY <2>1, <3>3, <4>3, <4>4 DEF Queue, Live
      <4> HIDE DEF front, x
      <4>6. front \o Append(Unreceived, x) = Append(front \o Unreceived, x)
        BY <4>4, <4>5, ConcatAppend
      <4>7. Queue' = Append(Queue, x)
        BY <4>5, <4>6
      <4> QED BY <4>1, <4>7 DEF x
    <3> QED BY <3>1, <3>2, <3>3
  <2>4. Pipe!Offer
    BY <2>1, <2>2, <2>3 DEF Pipe!Offer, Queue, Closed
  <2> QED BY <2>4 DEF Pipe!Next
<1>17. ASSUME NEW how \in DOMAIN Failures \cup {"ended"}, StreamEnds(how)
       PROVE  Pipe!Next \/ UNCHANGED Pipe!pipe
  <2>1. /\ stream = "open" /\ stream' = how /\ stream \notin DOMAIN Failures
        /\ UNCHANGED <<session, component, inbound, batch, arrived, read, pc>>
    BY <1>17, FailureReasons DEF StreamEnds
  <2>2. CASE how \in DOMAIN Failures
    <3>1. Closed' /\ Unreceived' = <<>>
      BY <2>1, <2>2, FailureReasons DEF Closed, Unreceived
    <3> QED BY <1>0, <2>1, <3>1, Cuts
  <2>3. CASE how = "ended"
    <3>1. stream' \notin DOMAIN Failures
      BY <2>1, <2>3, FailureReasons
    <3> QED BY <2>1, <3>1, SameQueues DEF Failures
  <2> QED BY <2>2, <2>3
<1>18. CASE UNCHANGED vars
  BY <1>18, SameQueues DEF vars
<1> QED BY <1>1, <1>2, <1>3, <1>4, <1>5, <1>6, <1>7, <1>8, <1>9, <1>10, <1>11, <1>12, <1>13,
           <1>14, <1>15, <1>16, <1>17, <1>18
        DEF Next, User, Calls, EndFrame, TaskStep, Peer, Despawn, HandleDisconnection

(* Whatever the peer, the network and the application do, the session is given
   what was sent in order, each packet at most once, and without a gap but for
   what a full channel gave back: the stream implements PacketPipe. *)
THEOREM ImplementsPipe == Spec => PipeSpec
<1>1. Init => Pipe!Init
  <2> SUFFICES ASSUME Init PROVE Pipe!Init
    OBVIOUS
  <2>1. Unreceived = <<>>
    BY DEF Init, Unreceived, Unread
  <2>2. Queue = <<>> /\ ~Closed
    BY <2>1, ConcatEmptySeq, FailureReasons, EmptySeq DEF Init, Queue, Closed
  <2> QED BY <2>2 DEF Init, Pipe!Init, Queue, Closed
<1>2. IInv /\ [Next]_vars => [Pipe!Next]_(Pipe!pipe)
  BY PipeStep
<1> QED BY Invariance, <1>1, <1>2, PTL DEF Spec, PipeSpec, Pipe!Spec
-----------------------------------------------------------------------------
(* What PacketPipeProofs shows of every pipe holds of the stream's. *)
P == INSTANCE PacketPipeProofs WITH
  Capacity <- InboundSize, offered <- arrived, delivered <- session,
  queue <- IF component = "removed" THEN <<>> ELSE inbound \o batch \o Unreceived,
  cut <- component = "removed" \/ stream \in DOMAIN Failures \/ pc = "finished"

(* The pipe of the refinement is one of those the theorems are about. *)
LEMMA SamePipe == PipeSpec => P!Spec
<1>1. Pipe!Init => P!Init
  BY SMTT(30) DEF Pipe!Init, P!Init
<1>2. [Pipe!Next]_(Pipe!pipe) => [P!Next]_(P!pipe)
  BY DEF Pipe!Next, P!Next, Pipe!pipe, P!pipe, Pipe!Offer, P!Offer, Pipe!Deliver, P!Deliver,
         Pipe!Drop, P!Drop, Pipe!Cut, P!Cut, Pipe!RemoveAt, P!RemoveAt
<1> QED BY <1>1, <1>2, PTL DEF PipeSpec, Pipe!Spec, P!Spec

(* The session is given what the peer sent in order and each packet at most
   once, after the end of the component and of the task, too; and as long as
   the peer sends no more than the inbound channel holds, a packet is missing
   from the end only. *)
THEOREM SessionInOrder ==
  Spec => [](/\ session \in Seq(1 .. arrived) /\ Increasing(session)
             /\ arrived <= InboundSize =>
                  session = Numbered(Len(session)) /\ Len(session) <= arrived)
<1>1. P!Spec => []P!Out
  <2>1. InboundSize \in Nat
    BY SizesAssumption DEF SizesAssumption
  <2> QED BY <2>1, P!ComesOut
<1>2. ASSUME P!Out
      PROVE  /\ session \in Seq(1 .. arrived) /\ Increasing(session)
             /\ arrived <= InboundSize =>
                  session = Numbered(Len(session)) /\ Len(session) <= arrived
  <2>1. session \in Seq(1 .. arrived) /\ P!Rising(session)
    BY <1>2 DEF P!Out
  <2>2. DOMAIN session = 1 .. Len(session)
    BY <2>1, LenProperties
  <2>3. Increasing(session)
    BY <2>1, <2>2 DEF P!Rising, Increasing
  <2> QED BY <1>2, <2>1, <2>3 DEF P!Out, P!Numbered, Numbered
<1> QED BY <1>1, <1>2, ImplementsPipe, SamePipe, PTL
=============================================================================
