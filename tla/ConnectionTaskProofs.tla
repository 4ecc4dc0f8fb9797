------------------------ MODULE ConnectionTaskProofs ------------------------
(***************************************************************************)
(* Proofs about ConnectionTask, for every set of attempts, every number of *)
(* streams, every channel size and every choice of what the application    *)
(* does.                                                                   *)
(***************************************************************************)
EXTENDS ConnectionTask, TLAPS

(* An attempt whose answer the task still owes. *)
Owed == {"queued", "orphan"}

(* What the task's position says about the rest of its state. *)
TaskShape ==
  /\ pc = "poll" <=> handling # None
  /\ handling # None => handling.kind \in DOMAIN Wanted
  /\ pc = "select" => buffered = None
  /\ pc \in {"dropped", "finished"} => cmds = <<>> /\ buffered = None
  /\ disconnect # "none" => pc \in {"top", "dropped", "finished"}
  /\ pc \in {"dropped", "finished"} => disconnect # "none"
  /\ ~openFlag => disconnect # "none"
  /\ events = 0 \/ (events = 1 /\ pc = "finished" /\ component = "removed")

(* The oneshot senders: each is in one queued command or in the command being
   handled, and exactly the attempts that are owed an answer have one. *)
SendersMatch ==
  /\ \A i \in 1 .. Len(cmds) : cmds[i].to # None => attempt[cmds[i].to] \in Owed
  /\ \A i, j \in 1 .. Len(cmds) : cmds[i].to = cmds[j].to /\ cmds[i].to # None => i = j
  /\ handling # None => /\ attempt[handling.to] \in Owed
                        /\ \A i \in 1 .. Len(cmds) : cmds[i].to # handling.to
  /\ \A a \in Attempts : attempt[a] \in Owed =>
       \/ \E i \in 1 .. Len(cmds) : cmds[i].to = a
       \/ handling # None /\ handling.to = a

(* Only an answered attempt has a stream in its channel. *)
CarriedAnswered == \A a \in Attempts : carried[a] # None => attempt[a] = "answered"

(* Only streams that the peer opened are taken, and the buffered stream is the
   last one taken of its kind: no poll for that kind is made while it waits. *)
BufferedNewest ==
  /\ \A k \in Kinds : accepted[k] <= opened[k]
  /\ buffered # None => buffered[2] = accepted[buffered[1]]
  /\ pc = "poll" => ~InBuffer(Wanted[handling.kind])

(* The inductive invariant. *)
IInv == /\ TypeOK /\ TaskShape /\ SendersMatch /\ CarriedAnswered
        /\ BufferedNewest /\ BufferedIsAnnounced /\ EveryStreamAccountedFor
-----------------------------------------------------------------------------
(* The command at the head of the channel, and what is left behind it. *)
LEMMA HeadTail ==
  ASSUME TypeOK, cmds # <<>>
  PROVE  /\ Head(cmds) = cmds[1] /\ Head(cmds) \in Commands
         /\ Tail(cmds) \in Queues
         /\ Len(cmds) \in Nat \ {0} /\ Len(Tail(cmds)) = Len(cmds) - 1
         /\ \A i \in 1 .. Len(Tail(cmds)) : Tail(cmds)[i] = cmds[i + 1]
  BY ConstantsAssumption DEF TypeOK, Queues, ConstantsAssumption

(* try_send keeps the command channel within its capacity. *)
LEMMA AppendType ==
  ASSUME TypeOK, HasRoom, NEW c \in Commands
  PROVE  Append(cmds, c) \in Queues
  BY ConstantsAssumption DEF TypeOK, Queues, HasRoom, ConstantsAssumption

(* Only accept commands carry a sender. *)
LEMMA CommandTo ==
  ASSUME NEW c \in Commands
  PROVE  /\ c.kind \in AcceptCalls => c.to \in Attempts
         /\ c.kind = "Close" => c.to = None
         /\ c.kind \in AcceptCalls \cup {"Close"}
  BY DEF Commands, AcceptCalls

(* A command for one kind of stream is an accept command for a kind there is. *)
LEMMA WantedKinds ==
  ASSUME NEW kind \in DOMAIN Wanted
  PROVE  Wanted[kind] \in Kinds /\ kind \in AcceptCalls
  BY DEF Wanted, Kinds, AcceptCalls

AttemptStates == {"free", "queued", "orphan", "answered", "failed", "closed"}

(* Answering an attempt keeps the types of what it changes. *)
LEMMA AnswerType ==
  ASSUME TypeOK, NEW a \in Attempts, NEW stream \in Streams \cup {None},
         Answer(a, stream)
  PROVE  /\ attempt' \in [Attempts -> AttemptStates]
         /\ carried' \in [Attempts -> Streams \cup {None}]
         /\ lost' \subseteq Streams
  BY DEF TypeOK, Answer, AttemptStates

(* While the task polls it handles an accept of one kind. *)
LEMMA Handled ==
  ASSUME TypeOK, TaskShape, pc = "poll"
  PROVE  /\ handling # None /\ handling \in Commands /\ handling.to \in Attempts
         /\ Wanted[handling.kind] \in Kinds
  BY CommandTo, WantedKinds DEF TypeOK, TaskShape

(* Every step keeps every variable in its type. *)
LEMMA TypeStep ==
  ASSUME TypeOK, TaskShape, [Next]_vars
  PROVE  TypeOK'
<1> USE DEF bevy, flags, oneshots, task, quic
<1>1. ASSUME NEW kind \in AcceptCalls, StartAccept(kind) PROVE TypeOK'
  BY <1>1, ZenonT(40) DEF TypeOK, StartAccept
<1>2. CASE SendAccept
  <2>1. CASE UNCHANGED <<attempt, cmds>>
    BY <1>2, <2>1 DEF TypeOK, SendAccept
  <2>2. ASSUME HasRoom, NEW a \in Attempts, attempt' = [attempt EXCEPT ![a] = "queued"],
               cmds' = Append(cmds, [kind |-> call, to |-> a])
        PROVE  TypeOK'
    <3>1. [kind |-> call, to |-> a] \in Commands
      BY <1>2 DEF SendAccept, Commands
    <3>2. cmds' \in Queues
      BY <2>2, <3>1, AppendType
    <3> QED BY <1>2, <2>2, <3>2 DEF TypeOK, SendAccept
  <2> QED BY <1>2, <2>1, <2>2 DEF SendAccept
<1>3. CASE StartClose
  BY <1>3 DEF TypeOK, StartClose
<1>4. CASE SendClose
  <2>1. [kind |-> "Close", to |-> None] \in Commands
    BY DEF Commands
  <2>2. cmds' = cmds \/ (HasRoom /\ cmds' = Append(cmds, [kind |-> "Close", to |-> None]))
    BY <1>4 DEF SendClose
  <2>3. link' = link \/ link' = "closed"
    BY <1>4 DEF SendClose, ForceClose, CloseLink
  <2>4. cmds' \in Queues
    BY <2>1, <2>2, AppendType DEF TypeOK
  <2> QED BY <1>4, <2>3, <2>4 DEF TypeOK, SendClose
<1>5. CASE DropConnection
  BY <1>5 DEF TypeOK, DropConnection
<1>6. CASE HandleDisconnection
  BY <1>6 DEF TypeOK, HandleDisconnection
<1>7. ASSUME NEW a \in Attempts, Resolve(a) PROVE TypeOK'
  BY <1>7 DEF TypeOK, Resolve
<1>8. ASSUME NEW a \in Attempts, DropAttempt(a) PROVE TypeOK'
  BY <1>8 DEF TypeOK, DropAttempt
<1>9. CASE LoopTop
  BY <1>9 DEF TypeOK, LoopTop, Announce
<1>10. CASE HandleAccept
  <2>1. Head(cmds).to \in Attempts /\ Tail(cmds) \in Queues
    BY <1>10, HeadTail, CommandTo DEF HandleAccept, AcceptCalls
  <2>2. buffered \in Streams \cup {None}
    BY DEF TypeOK
  <2>3. Answer(Head(cmds).to, buffered) /\ buffered' = None
    BY <1>10 DEF HandleAccept, TakeBuffered
  <2>4. attempt' \in [Attempts -> AttemptStates] /\ carried' \in [Attempts -> Streams \cup {None}] /\ lost' \subseteq Streams
    BY <2>1, <2>2, <2>3, AnswerType
  <2> QED BY <1>10, <2>1, <2>3, <2>4 DEF TypeOK, AttemptStates, HandleAccept
<1>11. CASE HandleAcceptBuffered
  <2>1. Head(cmds).to \in Attempts /\ Tail(cmds) \in Queues
    BY <1>11, HeadTail, CommandTo, WantedKinds DEF HandleAcceptBuffered
  <2>2. buffered \in Streams \cup {None}
    BY DEF TypeOK
  <2>3. Answer(Head(cmds).to, buffered) /\ buffered' = None
    BY <1>11 DEF HandleAcceptBuffered, TakeBuffered
  <2>4. attempt' \in [Attempts -> AttemptStates] /\ carried' \in [Attempts -> Streams \cup {None}] /\ lost' \subseteq Streams
    BY <2>1, <2>2, <2>3, AnswerType
  <2> QED BY <1>11, <2>1, <2>3, <2>4 DEF TypeOK, AttemptStates, HandleAcceptBuffered
<1>12. CASE StartPoll
  BY <1>12, HeadTail DEF TypeOK, StartPoll
<1>13. CASE HandleClose
  BY <1>13, HeadTail DEF TypeOK, HandleClose, CloseLink
<1>14. CASE CommandsClosed
  BY <1>14 DEF TypeOK, CommandsClosed
<1>15. ASSUME NEW k \in Kinds, IncomingStream(k) PROVE TypeOK'
  <2>1. accepted' \in [Kinds -> 0 .. MaxOpened] /\ NextStream(k) \in Streams
    BY <1>15, ConstantsAssumption
       DEF TypeOK, ConstantsAssumption, IncomingStream, AcceptNext, NextStream, Streams
  <2> QED BY <1>15, <2>1 DEF TypeOK, IncomingStream, AcceptNext
<1>16. CASE IncomingEnd
  BY <1>16 DEF TypeOK, IncomingEnd
<1>17. CASE IncomingError
  BY <1>17 DEF TypeOK, IncomingError, NoteClosed, RecordError
<1>18. CASE PollStream
  <2>1. handling.to \in Attempts /\ Wanted[handling.kind] \in Kinds
    BY <1>18, Handled DEF PollStream
  <2> DEFINE k == Wanted[handling.kind]
  <2>2. accepted' \in [Kinds -> 0 .. MaxOpened] /\ NextStream(k) \in Streams
    BY <1>18, <2>1, ConstantsAssumption
       DEF TypeOK, ConstantsAssumption, PollStream, AcceptNext, NextStream, Streams
  <2>3. Answer(handling.to, NextStream(k))
    BY <1>18 DEF PollStream
  <2>4. attempt' \in [Attempts -> AttemptStates] /\ carried' \in [Attempts -> Streams \cup {None}] /\ lost' \subseteq Streams
    BY <2>1, <2>2, <2>3, AnswerType
  <2> QED BY <1>18, <2>2, <2>4 DEF TypeOK, AttemptStates, PollStream, AcceptNext
<1>19. CASE PollTimeout
  <2>1. Answer(handling.to, None) /\ handling.to \in Attempts
    BY <1>19, Handled DEF PollTimeout
  <2>2. attempt' \in [Attempts -> AttemptStates] /\ carried' \in [Attempts -> Streams \cup {None}] /\ lost' \subseteq Streams
    BY <2>1, AnswerType
  <2> QED BY <1>19, <2>2 DEF TypeOK, AttemptStates, PollTimeout
<1>20. CASE PollEnded
  <2>1. Answer(handling.to, None) /\ handling.to \in Attempts
    BY <1>20, Handled DEF PollEnded
  <2>2. attempt' \in [Attempts -> AttemptStates] /\ carried' \in [Attempts -> Streams \cup {None}] /\ lost' \subseteq Streams
    BY <2>1, AnswerType
  <2> QED BY <1>20, <2>2 DEF TypeOK, AttemptStates, PollEnded
<1>21. CASE PollError
  BY <1>21, Handled DEF TypeOK, PollError, Fail, NoteClosed, RecordError
<1>22. CASE Exit
  <2>1. cmds' \in Queues
    BY <1>22, ConstantsAssumption DEF Exit, Queues, ConstantsAssumption
  <2>2. attempt' \in [Attempts -> AttemptStates]
    BY <1>22 DEF TypeOK, Exit, AttemptStates
  <2>3. lost' \subseteq Streams
    BY <1>22 DEF TypeOK, Exit
  <2> QED BY <1>22, <2>1, <2>2, <2>3 DEF TypeOK, Exit, AttemptStates
<1>23. CASE Finish
  BY <1>23 DEF TypeOK, Finish
<1>24. ASSUME NEW k \in Kinds, PeerOpens(k) PROVE TypeOK'
  <2>1. opened' \in [Kinds -> 0 .. MaxOpened]
    BY <1>24, ConstantsAssumption DEF TypeOK, ConstantsAssumption, PeerOpens
  <2> QED BY <1>24, <2>1 DEF TypeOK, PeerOpens
<1>25. ASSUME NEW how \in {"ended", "closed", "reset"}, LinkDown(how) PROVE TypeOK'
  BY <1>25 DEF TypeOK, LinkDown
<1>26. CASE UNCHANGED vars
  BY <1>26 DEF TypeOK, vars
<1> QED
  BY <1>1, <1>2, <1>3, <1>4, <1>5, <1>6, <1>7, <1>8, <1>9, <1>10, <1>11, <1>12, <1>13, <1>14, <1>15, <1>16, <1>17, <1>18, <1>19, <1>20, <1>21, <1>22, <1>23, <1>24, <1>25, <1>26
     DEF Next, User, Plugins, FinishCall, TaskStep, Peer, UserAccept, AcceptorPoll, AcceptCalls

(* Every step keeps the shape of the task. *)
LEMMA ShapeStep ==
  ASSUME TypeOK, TaskShape, [Next]_vars
  PROVE  TaskShape'
<1> USE DEF bevy, flags, oneshots, task, quic
<1>1. ASSUME NEW kind \in AcceptCalls, StartAccept(kind) PROVE TaskShape'
  BY <1>1 DEF TypeOK, TaskShape, StartAccept
<1>2. CASE SendAccept
  BY <1>2 DEF TypeOK, TaskShape, SendAccept, HasRoom, ReceiverAlive
<1>3. CASE StartClose
  BY <1>3 DEF TypeOK, TaskShape, StartClose
<1>4. CASE SendClose
  BY <1>4 DEF TypeOK, TaskShape, SendClose, HasRoom, ReceiverAlive
<1>5. CASE DropConnection
  BY <1>5 DEF TypeOK, TaskShape, DropConnection, Idle
<1>6. CASE HandleDisconnection
  BY <1>6 DEF TypeOK, TaskShape, HandleDisconnection, Idle
<1>7. ASSUME NEW a \in Attempts, Resolve(a) PROVE TaskShape'
  BY <1>7 DEF TypeOK, TaskShape, Resolve
<1>8. ASSUME NEW a \in Attempts, DropAttempt(a) PROVE TaskShape'
  BY <1>8 DEF TypeOK, TaskShape, DropAttempt
<1>9. CASE LoopTop
  BY <1>9 DEF TypeOK, TaskShape, LoopTop, Announce
<1>10. CASE HandleAccept
  BY <1>10 DEF TypeOK, TaskShape, HandleAccept, Listening, TakeBuffered
<1>11. CASE HandleAcceptBuffered
  BY <1>11 DEF TypeOK, TaskShape, HandleAcceptBuffered, Listening, TakeBuffered
<1>12. CASE StartPoll
  BY <1>12, HeadTail, ConstantsAssumption DEF TypeOK, TaskShape, StartPoll, Listening, Commands, ConstantsAssumption
<1>13. CASE HandleClose
  BY <1>13 DEF TypeOK, TaskShape, HandleClose, Listening
<1>14. CASE CommandsClosed
  BY <1>14 DEF TypeOK, TaskShape, CommandsClosed, Listening
<1>15. ASSUME NEW k \in Kinds, IncomingStream(k) PROVE TaskShape'
  BY <1>15 DEF TypeOK, TaskShape, IncomingStream, Accepting
<1>16. CASE IncomingEnd
  BY <1>16 DEF TypeOK, TaskShape, IncomingEnd, Accepting
<1>17. CASE IncomingError
  BY <1>17 DEF TypeOK, TaskShape, IncomingError, Accepting, NoteClosed, RecordError
<1>18. CASE PollStream
  BY <1>18 DEF TypeOK, TaskShape, PollStream
<1>19. CASE PollTimeout
  BY <1>19 DEF TypeOK, TaskShape, PollTimeout
<1>20. CASE PollEnded
  BY <1>20 DEF TypeOK, TaskShape, PollEnded
<1>21. CASE PollError
  BY <1>21 DEF TypeOK, TaskShape, PollError, NoteClosed, RecordError
<1>22. CASE Exit
  BY <1>22 DEF TypeOK, TaskShape, Exit
<1>23. CASE Finish
  BY <1>23 DEF TypeOK, TaskShape, Finish
<1>24. ASSUME NEW k \in Kinds, PeerOpens(k) PROVE TaskShape'
  BY <1>24 DEF TypeOK, TaskShape, PeerOpens
<1>25. ASSUME NEW how \in {"ended", "closed", "reset"}, LinkDown(how) PROVE TaskShape'
  BY <1>25 DEF TypeOK, TaskShape, LinkDown
<1>26. CASE UNCHANGED vars
  BY <1>26 DEF TypeOK, TaskShape, vars
<1> QED
  BY <1>1, <1>2, <1>3, <1>4, <1>5, <1>6, <1>7, <1>8, <1>9, <1>10, <1>11, <1>12, <1>13, <1>14, <1>15, <1>16, <1>17, <1>18, <1>19, <1>20, <1>21, <1>22, <1>23, <1>24, <1>25, <1>26
     DEF Next, User, Plugins, FinishCall, TaskStep, Peer, UserAccept, AcceptorPoll, AcceptCalls

-----------------------------------------------------------------------------
(* The senders belong to attempts. *)
LEMMA SendersAre ==
  ASSUME TypeOK, TaskShape
  PROVE  /\ \A i \in 1 .. Len(cmds) : cmds[i].to # None => cmds[i].to \in Attempts
         /\ handling # None => handling.to \in Attempts
<1>1. \A i \in 1 .. Len(cmds) : cmds[i].to # None => cmds[i].to \in Attempts
  BY CommandTo DEF TypeOK, Queues
<1>2. handling # None => handling.to \in Attempts
  BY Handled DEF TaskShape
<1> QED BY <1>1, <1>2

(* What answering or failing an attempt does to the attempts. *)
LEMMA AnswerEffect ==
  ASSUME TypeOK, NEW a \in Attempts, NEW stream, Answer(a, stream) \/ Fail(a)
  PROVE  /\ attempt'[a] \notin Owed
         /\ \A b \in Attempts \ {a} : attempt'[b] = attempt[b]
  BY DEF TypeOK, Answer, Fail, Owed

(* The command at the head is answered and leaves the channel. *)
LEMMA HeadAnswered ==
  ASSUME TypeOK, TaskShape, SendersMatch, cmds # <<>>, Listening,
         Head(cmds).kind \in AcceptCalls, NEW stream, Answer(Head(cmds).to, stream),
         cmds' = Tail(cmds), handling' = handling
  PROVE  SendersMatch'
<1> DEFINE a == Head(cmds).to
<1>1. /\ a \in Attempts /\ a = cmds[1].to /\ a # None
      /\ Len(cmds) \in Nat \ {0} /\ Len(cmds') = Len(cmds) - 1
      /\ \A i \in 1 .. Len(cmds') : cmds'[i] = cmds[i + 1] /\ i + 1 \in 1 .. Len(cmds)
  BY HeadTail, CommandTo, ConstantsAssumption DEF ConstantsAssumption
<1>2. attempt'[a] \notin Owed /\ \A b \in Attempts \ {a} : attempt'[b] = attempt[b]
  BY <1>1, AnswerEffect
<1>3. \A i \in 1 .. Len(cmds') : cmds'[i].to # a
  BY <1>1 DEF SendersMatch
<1>4. \A i \in 1 .. Len(cmds') : cmds'[i].to # None => cmds'[i].to \in Attempts
  BY <1>1, SendersAre
<1>5. handling = None
  BY DEF TaskShape, Listening
<1>6. \A b \in Attempts : attempt'[b] \in Owed => \E i \in 1 .. Len(cmds') : cmds'[i].to = b
  <2> SUFFICES ASSUME NEW b \in Attempts, attempt'[b] \in Owed
               PROVE  \E i \in 1 .. Len(cmds') : cmds'[i].to = b
    OBVIOUS
  <2>1. PICK i \in 1 .. Len(cmds) : cmds[i].to = b /\ b # a
    BY <1>2, <1>5 DEF SendersMatch
  <2>2. i # 1 /\ i - 1 \in 1 .. Len(cmds') /\ cmds'[i - 1] = cmds[(i - 1) + 1]
    BY <1>1, <2>1
  <2> QED BY <2>1, <2>2
<1> HIDE DEF a
<1> QED BY <1>1, <1>2, <1>3, <1>4, <1>5, <1>6 DEF SendersMatch

(* The command being handled is answered. *)
LEMMA HandlingAnswered ==
  ASSUME TypeOK, TaskShape, SendersMatch, pc = "poll", NEW stream,
         Answer(handling.to, stream) \/ Fail(handling.to),
         cmds' = cmds, handling' = None
  PROVE  SendersMatch'
<1>1. handling.to \in Attempts /\ handling # None
  BY Handled
<1>2. /\ attempt'[handling.to] \notin Owed
      /\ \A b \in Attempts \ {handling.to} : attempt'[b] = attempt[b]
  BY <1>1, AnswerEffect
<1>3. \A i \in 1 .. Len(cmds) : cmds[i].to # None => cmds[i].to \in Attempts
  BY SendersAre
<1> QED BY <1>1, <1>2, <1>3 DEF SendersMatch

(* Every step keeps the senders matched with the attempts that wait for them. *)
LEMMA SendersStep ==
  ASSUME TypeOK, TaskShape, SendersMatch, [Next]_vars
  PROVE  SendersMatch'
<1> USE DEF bevy, flags, oneshots, task, quic
<1>1. ASSUME NEW kind \in AcceptCalls, StartAccept(kind) PROVE SendersMatch'
  BY <1>1 DEF SendersMatch, StartAccept
<1>2. CASE SendAccept
  <2>1. CASE UNCHANGED <<attempt, cmds>>
    BY <1>2, <2>1 DEF SendersMatch, SendAccept
  <2>2. ASSUME NEW a \in Attempts, attempt[a] = "free",
               attempt' = [attempt EXCEPT ![a] = "queued"],
               cmds' = Append(cmds, [kind |-> call, to |-> a])
        PROVE  SendersMatch'
    <3>1. /\ Len(cmds') = Len(cmds) + 1 /\ Len(cmds) \in Nat
          /\ \A i \in 1 .. Len(cmds) : cmds'[i] = cmds[i]
          /\ cmds'[Len(cmds')].to = a
      BY <2>2 DEF TypeOK, Queues
    <3>2. attempt'[a] = "queued" /\ \A b \in Attempts \ {a} : attempt'[b] = attempt[b]
      BY <2>2 DEF TypeOK
    <3>3. \A i \in 1 .. Len(cmds) : cmds[i].to # a
      BY <2>2, ConstantsAssumption DEF SendersMatch, Owed, ConstantsAssumption
    <3>4. \A i \in 1 .. Len(cmds) : cmds[i].to # None => cmds[i].to \in Attempts
      BY CommandTo DEF TypeOK, Queues
    <3>5. handling # None => handling.to # a /\ handling.to \in Attempts
      <4> SUFFICES ASSUME handling # None PROVE handling.to # a /\ handling.to \in Attempts
        OBVIOUS
      <4>1. pc = "poll"
        BY DEF TaskShape
      <4> QED BY <2>2, <4>1, Handled DEF SendersMatch, Owed
    <3>6. handling' = handling
      BY <1>2 DEF SendAccept
    <3>7. \A b \in Attempts : attempt'[b] \in Owed =>
            (\E i \in 1 .. Len(cmds') : cmds'[i].to = b) \/ (handling # None /\ handling.to = b)
      <4> SUFFICES ASSUME NEW b \in Attempts, attempt'[b] \in Owed,
                          ~(handling # None /\ handling.to = b)
                   PROVE  \E i \in 1 .. Len(cmds') : cmds'[i].to = b
        OBVIOUS
      <4>1. CASE b = a
        BY <3>1, <4>1
      <4>2. CASE b # a
        <5>1. PICK i \in 1 .. Len(cmds) : cmds[i].to = b
          BY <3>2, <4>2 DEF SendersMatch
        <5> QED BY <3>1, <5>1
      <4> QED BY <4>1, <4>2
    <3>8. \A i \in 1 .. Len(cmds') :
            \/ i \in 1 .. Len(cmds) /\ cmds'[i] = cmds[i]
            \/ i = Len(cmds') /\ cmds'[i].to = a
      BY <3>1
    <3>9. \A i \in 1 .. Len(cmds') : cmds'[i].to # None => attempt'[cmds'[i].to] \in Owed
      BY <3>2, <3>3, <3>4, <3>8 DEF SendersMatch, Owed
    <3>10. \A i, j \in 1 .. Len(cmds') : cmds'[i].to = cmds'[j].to /\ cmds'[i].to # None => i = j
      BY <3>3, <3>8 DEF SendersMatch
    <3>11. handling # None => /\ attempt'[handling.to] \in Owed
                              /\ \A i \in 1 .. Len(cmds') : cmds'[i].to # handling.to
      BY <3>2, <3>5, <3>8 DEF SendersMatch
    <3> QED BY <3>6, <3>7, <3>9, <3>10, <3>11 DEF SendersMatch
  <2> QED BY <1>2, <2>1, <2>2 DEF SendAccept
<1>3. CASE StartClose
  BY <1>3 DEF SendersMatch, StartClose
<1>4. CASE SendClose
  <2>1. CASE cmds' = cmds
    BY <1>4, <2>1 DEF SendersMatch, SendClose
  <2>2. CASE cmds' = Append(cmds, [kind |-> "Close", to |-> None])
    <3>1. /\ Len(cmds') = Len(cmds) + 1 /\ Len(cmds) \in Nat
          /\ \A i \in 1 .. Len(cmds) : cmds'[i] = cmds[i]
          /\ cmds'[Len(cmds')].to = None
      BY <2>2 DEF TypeOK, Queues
    <3>2. \A i \in 1 .. Len(cmds') :
            \/ i \in 1 .. Len(cmds) /\ cmds'[i] = cmds[i]
            \/ cmds'[i].to = None
      BY <3>1
    <3>3. handling # None => handling.to # None
      <4> SUFFICES ASSUME handling # None PROVE handling.to # None
        OBVIOUS
      <4>1. pc = "poll"
        BY DEF TaskShape
      <4> QED BY <4>1, Handled, ConstantsAssumption DEF ConstantsAssumption
    <3>4. attempt' = attempt /\ handling' = handling
      BY <1>4 DEF SendClose
    <3>5. 1 .. Len(cmds) \subseteq 1 .. Len(cmds')
      BY <3>1
    <3> QED BY <3>1, <3>2, <3>3, <3>4, <3>5 DEF SendersMatch
  <2> QED BY <1>4, <2>1, <2>2 DEF SendClose
<1>5. CASE DropConnection
  BY <1>5 DEF SendersMatch, DropConnection
<1>6. CASE HandleDisconnection
  BY <1>6 DEF SendersMatch, HandleDisconnection
<1>7. ASSUME NEW a \in Attempts, Resolve(a) PROVE SendersMatch'
  <2>1. attempt'[a] \notin Owed /\ \A b \in Attempts \ {a} : attempt'[b] = attempt[b]
    BY <1>7 DEF TypeOK, Resolve, Owed
  <2>2. attempt[a] \notin Owed
    BY <1>7 DEF Resolve, Owed
  <2>3. \A b \in Attempts : attempt[b] \in Owed <=> attempt'[b] \in Owed
    BY <2>1, <2>2
  <2> QED BY <1>7, <2>3, SendersAre DEF SendersMatch, Resolve
<1>8. ASSUME NEW a \in Attempts, DropAttempt(a) PROVE SendersMatch'
  <2>1. \A b \in Attempts : attempt[b] \in Owed <=> attempt'[b] \in Owed
    BY <1>8 DEF TypeOK, DropAttempt, Owed
  <2> QED BY <1>8, <2>1, SendersAre DEF SendersMatch, DropAttempt
<1>9. CASE LoopTop
  BY <1>9 DEF SendersMatch, LoopTop
<1>10. CASE HandleAccept
  <2>1. /\ cmds # <<>> /\ Listening /\ Head(cmds).kind \in AcceptCalls
        /\ Answer(Head(cmds).to, buffered) /\ cmds' = Tail(cmds) /\ handling' = handling
    BY <1>10 DEF HandleAccept, AcceptCalls
  <2> QED BY <2>1, HeadAnswered
<1>11. CASE HandleAcceptBuffered
  <2>1. /\ cmds # <<>> /\ Listening /\ Head(cmds).kind \in AcceptCalls
        /\ Answer(Head(cmds).to, buffered) /\ cmds' = Tail(cmds) /\ handling' = handling
    BY <1>11, WantedKinds DEF HandleAcceptBuffered
  <2> QED BY <2>1, HeadAnswered
<1>12. CASE StartPoll
  <2>1. /\ cmds # <<>> /\ Head(cmds) = cmds[1] /\ Head(cmds).to \in Attempts
        /\ Len(cmds) \in Nat \ {0} /\ Len(cmds') = Len(cmds) - 1
        /\ \A i \in 1 .. Len(cmds') : cmds'[i] = cmds[i + 1] /\ i + 1 \in 1 .. Len(cmds)
    BY <1>12, HeadTail, CommandTo, WantedKinds DEF StartPoll
  <2>2. handling = None /\ handling' = cmds[1] /\ attempt' = attempt
    BY <1>12, <2>1 DEF StartPoll, TaskShape, Listening
  <2>3. cmds[1].to # None
    BY <2>1, ConstantsAssumption DEF ConstantsAssumption
  <2>4. handling' # None
    BY <2>1, <2>2, HeadTail, ConstantsAssumption DEF ConstantsAssumption
  <2>5. \A b \in Attempts : attempt'[b] \in Owed =>
          (\E i \in 1 .. Len(cmds') : cmds'[i].to = b) \/ (handling' # None /\ handling'.to = b)
    <3> SUFFICES ASSUME NEW b \in Attempts, attempt'[b] \in Owed
                 PROVE  (\E i \in 1 .. Len(cmds') : cmds'[i].to = b) \/ handling'.to = b
      BY <2>2, <2>4
    <3>1. PICK i \in 1 .. Len(cmds) : cmds[i].to = b
      BY <2>2 DEF SendersMatch
    <3>2. CASE i = 1
      BY <2>2, <3>1, <3>2
    <3>3. CASE i # 1
      <4>1. i - 1 \in 1 .. Len(cmds') /\ cmds'[i - 1] = cmds[(i - 1) + 1]
        BY <2>1, <3>3
      <4> QED BY <3>1, <4>1
    <3> QED BY <3>2, <3>3
  <2>6. /\ \A i \in 1 .. Len(cmds') : cmds'[i].to # cmds[1].to
        /\ attempt[cmds[1].to] \in Owed
    BY <2>1, <2>3 DEF SendersMatch
  <2>7. \A i \in 1 .. Len(cmds') : cmds'[i].to # None => attempt'[cmds'[i].to] \in Owed
    BY <2>1, <2>2 DEF SendersMatch
  <2>8. \A i, j \in 1 .. Len(cmds') : cmds'[i].to = cmds'[j].to /\ cmds'[i].to # None => i = j
    BY <2>1 DEF SendersMatch
  <2> QED BY <2>2, <2>5, <2>6, <2>7, <2>8 DEF SendersMatch
<1>13. CASE HandleClose
  <2>1. /\ cmds # <<>> /\ Head(cmds) = cmds[1] /\ cmds[1].to = None
        /\ Len(cmds) \in Nat \ {0} /\ Len(cmds') = Len(cmds) - 1
        /\ \A i \in 1 .. Len(cmds') : cmds'[i] = cmds[i + 1] /\ i + 1 \in 1 .. Len(cmds)
    BY <1>13, HeadTail, CommandTo DEF HandleClose
  <2>2. handling = None /\ handling' = None /\ attempt' = attempt
    BY <1>13 DEF HandleClose, TaskShape, Listening
  <2>3. \A b \in Attempts : attempt'[b] \in Owed => \E i \in 1 .. Len(cmds') : cmds'[i].to = b
    <3> SUFFICES ASSUME NEW b \in Attempts, attempt'[b] \in Owed
                 PROVE  \E i \in 1 .. Len(cmds') : cmds'[i].to = b
      OBVIOUS
    <3>1. PICK i \in 1 .. Len(cmds) : cmds[i].to = b
      BY <2>2 DEF SendersMatch
    <3>2. i # 1
      BY <2>1, <3>1, ConstantsAssumption DEF ConstantsAssumption
    <3>3. i - 1 \in 1 .. Len(cmds') /\ cmds'[i - 1] = cmds[(i - 1) + 1]
      BY <2>1, <3>2
    <3> QED BY <3>1, <3>3
  <2> QED BY <2>1, <2>2, <2>3, SMTT(30) DEF SendersMatch
<1>14. CASE CommandsClosed
  BY <1>14 DEF SendersMatch, CommandsClosed
<1>15. ASSUME NEW k \in Kinds, IncomingStream(k) PROVE SendersMatch'
  BY <1>15 DEF SendersMatch, IncomingStream
<1>16. CASE IncomingEnd
  BY <1>16 DEF SendersMatch, IncomingEnd
<1>17. CASE IncomingError
  BY <1>17 DEF SendersMatch, IncomingError
<1>18. CASE PollStream
  <2>1. /\ pc = "poll" /\ Answer(handling.to, NextStream(Wanted[handling.kind]))
        /\ cmds' = cmds /\ handling' = None
    BY <1>18 DEF PollStream
  <2> QED BY <2>1, HandlingAnswered
<1>19. CASE PollTimeout
  <2>1. pc = "poll" /\ Answer(handling.to, None) /\ cmds' = cmds /\ handling' = None
    BY <1>19 DEF PollTimeout
  <2> QED BY <2>1, HandlingAnswered
<1>20. CASE PollEnded
  <2>1. pc = "poll" /\ Answer(handling.to, None) /\ cmds' = cmds /\ handling' = None
    BY <1>20 DEF PollEnded
  <2> QED BY <2>1, HandlingAnswered
<1>21. CASE PollError
  <2>1. pc = "poll" /\ Fail(handling.to) /\ cmds' = cmds /\ handling' = None
    BY <1>21 DEF PollError
  <2> QED BY <2>1, HandlingAnswered
<1>22. CASE Exit
  <2>1. cmds' = <<>> /\ handling = None /\ handling' = None
    BY <1>22 DEF Exit, TaskShape
  <2>2. \A b \in Attempts : attempt'[b] \notin Owed
    <3> SUFFICES ASSUME NEW b \in Attempts PROVE attempt'[b] \notin Owed
      OBVIOUS
    <3>1. CASE b \in Queued
      BY <1>22, <3>1 DEF Exit, Owed
    <3>2. CASE b \notin Queued
      <4>1. DOMAIN cmds = 1 .. Len(cmds)
        BY DEF TypeOK, Queues
      <4>2. attempt[b] \notin Owed
        BY <2>1, <3>2, <4>1, ConstantsAssumption DEF SendersMatch, Queued, ConstantsAssumption
      <4> QED BY <1>22, <3>2, <4>2 DEF Exit
    <3> QED BY <3>1, <3>2
  <2>3. Len(cmds') = 0
    BY <2>1
  <2> QED BY <2>1, <2>2, <2>3 DEF SendersMatch
<1>23. CASE Finish
  BY <1>23 DEF SendersMatch, Finish
<1>24. ASSUME NEW k \in Kinds, PeerOpens(k) PROVE SendersMatch'
  BY <1>24 DEF SendersMatch, PeerOpens
<1>25. ASSUME NEW how \in {"ended", "closed", "reset"}, LinkDown(how) PROVE SendersMatch'
  BY <1>25 DEF SendersMatch, LinkDown
<1>26. CASE UNCHANGED vars
  BY <1>26 DEF SendersMatch, vars
<1> QED
  BY <1>1, <1>2, <1>3, <1>4, <1>5, <1>6, <1>7, <1>8, <1>9, <1>10, <1>11, <1>12, <1>13, <1>14, <1>15, <1>16, <1>17, <1>18, <1>19, <1>20, <1>21, <1>22, <1>23, <1>24, <1>25, <1>26
     DEF Next, User, Plugins, FinishCall, TaskStep, Peer, UserAccept, AcceptorPoll, AcceptCalls

-----------------------------------------------------------------------------
(* The task answers an attempt that waits for it. *)
LEMMA Owing ==
  ASSUME TypeOK, TaskShape, SendersMatch
  PROVE  /\ cmds # <<>> /\ Head(cmds).kind \in AcceptCalls =>
              Head(cmds).to \in Attempts /\ attempt[Head(cmds).to] \in Owed
         /\ pc = "poll" => handling.to \in Attempts /\ attempt[handling.to] \in Owed
<1>1. ASSUME cmds # <<>>, Head(cmds).kind \in AcceptCalls
      PROVE  Head(cmds).to \in Attempts /\ attempt[Head(cmds).to] \in Owed
  <2>1. Head(cmds) = cmds[1] /\ 1 \in 1 .. Len(cmds) /\ Head(cmds).to \in Attempts
    BY <1>1, HeadTail, CommandTo
  <2> QED BY <2>1, ConstantsAssumption DEF SendersMatch, ConstantsAssumption
<1>2. pc = "poll" => handling.to \in Attempts /\ attempt[handling.to] \in Owed
  BY Handled DEF SendersMatch
<1> QED BY <1>1, <1>2

(* An answer puts its stream into one channel that was empty, or closes it. *)
LEMMA AnswerMoves ==
  ASSUME TypeOK, CarriedAnswered, NEW a \in Attempts, attempt[a] \in Owed,
         NEW stream \in Streams \cup {None}, Answer(a, stream)
  PROVE  /\ CarriedAnswered'
         /\ \/ /\ carried[a] = None /\ carried' = [carried EXCEPT ![a] = stream]
               /\ lost' = lost
            \/ carried' = carried /\ lost' = lost \cup ({stream} \ {None})
<1>1. carried[a] = None
  BY DEF CarriedAnswered, Owed
<1>2. CASE attempt[a] = "queued"
  BY <1>1, <1>2 DEF TypeOK, Answer, CarriedAnswered
<1>3. CASE attempt[a] # "queued"
  BY <1>1, <1>3 DEF TypeOK, Answer, CarriedAnswered
<1> QED BY <1>2, <1>3

(* An attempt that is told of an error carries no stream. *)
LEMMA FailKeepsCarried ==
  ASSUME TypeOK, CarriedAnswered, NEW a \in Attempts, attempt[a] \in Owed, Fail(a)
  PROVE  CarriedAnswered'
  BY DEF TypeOK, CarriedAnswered, Fail, Owed

(* The next stream of a kind is one the peer has opened and nobody has yet. *)
LEMMA NextStreamType ==
  ASSUME TypeOK, NEW k \in Kinds, AcceptNext(k)
  PROVE  /\ NextStream(k) \in Streams /\ NextStream(k) \notin Taken
         /\ Taken' = Taken \cup {NextStream(k)}
<1>1. /\ accepted[k] \in Nat /\ accepted[k] + 1 \in 1 .. MaxOpened
      /\ accepted' = [accepted EXCEPT ![k] = accepted[k] + 1]
  BY ConstantsAssumption DEF TypeOK, AcceptNext, ConstantsAssumption
<1>2. NextStream(k) \in Streams
  BY <1>1 DEF NextStream, Streams
<1>3. NextStream(k)[1] = k /\ NextStream(k)[2] = accepted[k] + 1
  BY DEF NextStream
<1>4. NextStream(k) \notin Taken
  BY <1>1, <1>3 DEF Taken
<1>5. ASSUME NEW s \in Streams PROVE s \in Taken' <=> s \in Taken \/ s = NextStream(k)
  <2>1. s = <<s[1], s[2]>> /\ s[1] \in Kinds /\ s[2] \in 1 .. MaxOpened
    BY DEF Streams
  <2>2. accepted[s[1]] \in Nat
    BY <2>1 DEF TypeOK
  <2>3. CASE s[1] = k
    <3>1. accepted'[s[1]] = accepted[k] + 1
      BY <1>1, <2>1, <2>3 DEF TypeOK
    <3>2. s[2] <= accepted[k] + 1 <=> s[2] <= accepted[k] \/ s[2] = accepted[k] + 1
      BY <1>1, <2>1
    <3>3. s = NextStream(k) <=> s[2] = accepted[k] + 1
      BY <2>1, <2>3, <1>3 DEF NextStream
    <3> QED BY <2>3, <3>1, <3>2, <3>3 DEF Taken
  <2>4. CASE s[1] # k
    <3>1. accepted'[s[1]] = accepted[s[1]] /\ s # NextStream(k)
      BY <1>1, <1>3, <2>1, <2>4 DEF TypeOK
    <3> QED BY <3>1 DEF Taken
  <2> QED BY <2>3, <2>4
<1>6. Taken \subseteq Streams /\ Taken' \subseteq Streams
  BY DEF Taken
<1> QED BY <1>2, <1>4, <1>5, <1>6

(* Every step keeps streams in the channels of answered attempts only. *)
LEMMA CarriedStep ==
  ASSUME TypeOK, TaskShape, SendersMatch, CarriedAnswered, [Next]_vars
  PROVE  CarriedAnswered'
<1> USE DEF bevy, flags, oneshots, task, quic
<1>1. ASSUME NEW kind \in AcceptCalls, StartAccept(kind) PROVE CarriedAnswered'
  BY <1>1 DEF TypeOK, CarriedAnswered, StartAccept
<1>2. CASE SendAccept
  <2>1. CASE UNCHANGED <<attempt, cmds>>
    BY <1>2, <2>1 DEF CarriedAnswered, SendAccept
  <2>2. ASSUME NEW a \in Attempts, attempt[a] = "free",
               attempt' = [attempt EXCEPT ![a] = "queued"]
        PROVE  CarriedAnswered'
    BY <1>2, <2>2 DEF TypeOK, CarriedAnswered, SendAccept
  <2> QED BY <1>2, <2>1, <2>2 DEF SendAccept
<1>3. CASE StartClose
  BY <1>3 DEF TypeOK, CarriedAnswered, StartClose
<1>4. CASE SendClose
  BY <1>4 DEF TypeOK, CarriedAnswered, SendClose
<1>5. CASE DropConnection
  BY <1>5 DEF TypeOK, CarriedAnswered, DropConnection
<1>6. CASE HandleDisconnection
  BY <1>6 DEF TypeOK, CarriedAnswered, HandleDisconnection
<1>7. ASSUME NEW a \in Attempts, Resolve(a) PROVE CarriedAnswered'
  BY <1>7 DEF TypeOK, CarriedAnswered, Resolve
<1>8. ASSUME NEW a \in Attempts, DropAttempt(a) PROVE CarriedAnswered'
  BY <1>8 DEF TypeOK, CarriedAnswered, DropAttempt
<1>9. CASE LoopTop
  BY <1>9 DEF TypeOK, CarriedAnswered, LoopTop
<1>10. CASE HandleAccept
  <2>1. /\ cmds # <<>> /\ Head(cmds).kind \in AcceptCalls
        /\ Answer(Head(cmds).to, buffered)
    BY <1>10 DEF HandleAccept, AcceptCalls
  <2>2. buffered \in Streams \cup {None}
    BY DEF TypeOK
  <2> QED BY <2>1, <2>2, Owing, AnswerMoves
<1>11. CASE HandleAcceptBuffered
  <2>1. /\ cmds # <<>> /\ Head(cmds).kind \in AcceptCalls
        /\ Answer(Head(cmds).to, buffered)
    BY <1>11, WantedKinds DEF HandleAcceptBuffered
  <2>2. buffered \in Streams \cup {None}
    BY DEF TypeOK
  <2> QED BY <2>1, <2>2, Owing, AnswerMoves
<1>12. CASE StartPoll
  BY <1>12 DEF TypeOK, CarriedAnswered, StartPoll
<1>13. CASE HandleClose
  BY <1>13 DEF TypeOK, CarriedAnswered, HandleClose
<1>14. CASE CommandsClosed
  BY <1>14 DEF TypeOK, CarriedAnswered, CommandsClosed
<1>15. ASSUME NEW k \in Kinds, IncomingStream(k) PROVE CarriedAnswered'
  BY <1>15 DEF TypeOK, CarriedAnswered, IncomingStream
<1>16. CASE IncomingEnd
  BY <1>16 DEF TypeOK, CarriedAnswered, IncomingEnd
<1>17. CASE IncomingError
  BY <1>17 DEF TypeOK, CarriedAnswered, IncomingError
<1>18. CASE PollStream
  <2>1. Answer(handling.to, NextStream(Wanted[handling.kind]))
    BY <1>18 DEF PollStream
  <2>2. NextStream(Wanted[handling.kind]) \in Streams
    BY <1>18, Handled, NextStreamType DEF PollStream
  <2> QED BY <1>18, <2>1, <2>2, Owing, AnswerMoves DEF PollStream
<1>19. CASE PollTimeout
  BY <1>19, Owing, AnswerMoves DEF PollTimeout
<1>20. CASE PollEnded
  BY <1>20, Owing, AnswerMoves DEF PollEnded
<1>21. CASE PollError
  BY <1>21, Owing, FailKeepsCarried DEF PollError
<1>22. CASE Exit
  <2>1. \A a \in Attempts : attempt[a] = "answered" => attempt'[a] = "answered"
    <3> SUFFICES ASSUME NEW a \in Attempts, attempt[a] = "answered"
                 PROVE  attempt'[a] = "answered"
      OBVIOUS
    <3>1. DOMAIN cmds = 1 .. Len(cmds)
      BY DEF TypeOK, Queues
    <3>2. a \notin Queued
      BY <3>1, ConstantsAssumption DEF SendersMatch, Queued, Owed, ConstantsAssumption
    <3> QED BY <1>22, <3>2 DEF Exit
  <2> QED BY <1>22, <2>1 DEF CarriedAnswered, Exit
<1>23. CASE Finish
  BY <1>23 DEF TypeOK, CarriedAnswered, Finish
<1>24. ASSUME NEW k \in Kinds, PeerOpens(k) PROVE CarriedAnswered'
  BY <1>24 DEF TypeOK, CarriedAnswered, PeerOpens
<1>25. ASSUME NEW how \in {"ended", "closed", "reset"}, LinkDown(how) PROVE CarriedAnswered'
  BY <1>25 DEF TypeOK, CarriedAnswered, LinkDown
<1>26. CASE UNCHANGED vars
  BY <1>26 DEF TypeOK, CarriedAnswered, vars
<1> QED
  BY <1>1, <1>2, <1>3, <1>4, <1>5, <1>6, <1>7, <1>8, <1>9, <1>10, <1>11, <1>12, <1>13, <1>14, <1>15, <1>16, <1>17, <1>18, <1>19, <1>20, <1>21, <1>22, <1>23, <1>24, <1>25, <1>26
     DEF Next, User, Plugins, FinishCall, TaskStep, Peer, UserAccept, AcceptorPoll, AcceptCalls

(* Every step keeps a buffered stream announced. *)
LEMMA AnnouncedStep ==
  ASSUME TypeOK, BufferedIsAnnounced, [Next]_vars
  PROVE  BufferedIsAnnounced'
<1> USE DEF bevy, flags, oneshots, task, quic
<1>1. ASSUME NEW kind \in AcceptCalls, StartAccept(kind) PROVE BufferedIsAnnounced'
  BY <1>1 DEF BufferedIsAnnounced, StartAccept
<1>2. CASE SendAccept
  <2>1. CASE HasRoom
    <3>1. PICK a \in Attempts : cmds' = Append(cmds, [kind |-> call, to |-> a])
      BY <1>2, <2>1 DEF SendAccept
    <3>2. Len(cmds') = Len(cmds) + 1 /\ Len(cmds) \in Nat
      BY <3>1 DEF TypeOK, Queues
    <3>3. cmds' # <<>>
      BY <3>2
    <3> QED BY <3>3 DEF BufferedIsAnnounced
  <2>2. CASE ~ReceiverAlive
    BY <1>2, <2>2 DEF SendAccept, HasRoom, BufferedIsAnnounced, ReceiverAlive
  <2>3. CASE ~(Len(cmds) < ChannelSize)
    <3>1. Len(cmds) # 0
      BY <2>3, ConstantsAssumption DEF TypeOK, ConstantsAssumption
    <3>2. cmds # <<>> /\ cmds' = cmds
      BY <1>2, <2>3, <3>1 DEF SendAccept, HasRoom
    <3> QED BY <3>2 DEF BufferedIsAnnounced
  <2> QED BY <2>1, <2>2, <2>3 DEF HasRoom
<1>3. CASE StartClose
  BY <1>3 DEF BufferedIsAnnounced, StartClose, Idle, AcceptCalls
<1>4. CASE SendClose
  <2>1. cmds' = cmds \/ cmds' # <<>>
    BY <1>4 DEF TypeOK, SendClose
  <2> QED BY <1>4, <2>1 DEF BufferedIsAnnounced, SendClose, AcceptCalls
<1>5. CASE DropConnection
  BY <1>5 DEF BufferedIsAnnounced, DropConnection
<1>6. CASE HandleDisconnection
  BY <1>6 DEF BufferedIsAnnounced, HandleDisconnection
<1>7. ASSUME NEW a \in Attempts, Resolve(a) PROVE BufferedIsAnnounced'
  BY <1>7 DEF BufferedIsAnnounced, Resolve
<1>8. ASSUME NEW a \in Attempts, DropAttempt(a) PROVE BufferedIsAnnounced'
  BY <1>8 DEF BufferedIsAnnounced, DropAttempt
<1>9. CASE LoopTop
  BY <1>9 DEF BufferedIsAnnounced, LoopTop, Announce
<1>10. CASE HandleAccept
  BY <1>10 DEF BufferedIsAnnounced, HandleAccept
<1>11. CASE HandleAcceptBuffered
  BY <1>11 DEF BufferedIsAnnounced, HandleAcceptBuffered
<1>12. CASE StartPoll
  BY <1>12 DEF BufferedIsAnnounced, StartPoll
<1>13. CASE HandleClose
  BY <1>13 DEF BufferedIsAnnounced, HandleClose
<1>14. CASE CommandsClosed
  BY <1>14 DEF BufferedIsAnnounced, CommandsClosed
<1>15. ASSUME NEW k \in Kinds, IncomingStream(k) PROVE BufferedIsAnnounced'
  BY <1>15 DEF BufferedIsAnnounced, IncomingStream
<1>16. CASE IncomingEnd
  BY <1>16 DEF BufferedIsAnnounced, IncomingEnd
<1>17. CASE IncomingError
  BY <1>17 DEF BufferedIsAnnounced, IncomingError
<1>18. CASE PollStream
  BY <1>18 DEF BufferedIsAnnounced, PollStream
<1>19. CASE PollTimeout
  BY <1>19 DEF BufferedIsAnnounced, PollTimeout
<1>20. CASE PollEnded
  BY <1>20 DEF BufferedIsAnnounced, PollEnded
<1>21. CASE PollError
  BY <1>21 DEF BufferedIsAnnounced, PollError
<1>22. CASE Exit
  BY <1>22 DEF BufferedIsAnnounced, Exit
<1>23. CASE Finish
  BY <1>23 DEF BufferedIsAnnounced, Finish
<1>24. ASSUME NEW k \in Kinds, PeerOpens(k) PROVE BufferedIsAnnounced'
  BY <1>24 DEF BufferedIsAnnounced, PeerOpens
<1>25. ASSUME NEW how \in {"ended", "closed", "reset"}, LinkDown(how) PROVE BufferedIsAnnounced'
  BY <1>25 DEF BufferedIsAnnounced, LinkDown
<1>26. CASE UNCHANGED vars
  BY <1>26 DEF BufferedIsAnnounced, vars
<1> QED
  BY <1>1, <1>2, <1>3, <1>4, <1>5, <1>6, <1>7, <1>8, <1>9, <1>10, <1>11, <1>12, <1>13, <1>14, <1>15, <1>16, <1>17, <1>18, <1>19, <1>20, <1>21, <1>22, <1>23, <1>24, <1>25, <1>26
     DEF Next, User, Plugins, FinishCall, TaskStep, Peer, UserAccept, AcceptorPoll, AcceptCalls

-----------------------------------------------------------------------------
(* The task accepts no stream that the peer has not opened. *)
LEMMA AcceptedOpened ==
  ASSUME TypeOK, \A k \in Kinds : accepted[k] <= opened[k], NEW k \in Kinds, AcceptNext(k)
  PROVE  \A j \in Kinds : accepted'[j] <= opened'[j]
<1>1. /\ accepted' = [accepted EXCEPT ![k] = accepted[k] + 1]
      /\ opened' = opened /\ accepted[k] < opened[k]
  BY DEF AcceptNext
<1> QED BY <1>1 DEF TypeOK

(* Every step keeps the buffered stream the last one taken of its kind. *)
LEMMA NewestStep ==
  ASSUME TypeOK, TaskShape, BufferedNewest, [Next]_vars
  PROVE  BufferedNewest'
<1> USE DEF bevy, flags, oneshots, task, quic
<1>1. ASSUME NEW kind \in AcceptCalls, StartAccept(kind) PROVE BufferedNewest'
  BY <1>1 DEF BufferedNewest, InBuffer, StartAccept
<1>2. CASE SendAccept
  BY <1>2 DEF BufferedNewest, InBuffer, SendAccept
<1>3. CASE StartClose
  BY <1>3 DEF BufferedNewest, InBuffer, StartClose
<1>4. CASE SendClose
  BY <1>4 DEF BufferedNewest, InBuffer, SendClose
<1>5. CASE DropConnection
  BY <1>5 DEF BufferedNewest, InBuffer, DropConnection
<1>6. CASE HandleDisconnection
  BY <1>6 DEF BufferedNewest, InBuffer, HandleDisconnection
<1>7. ASSUME NEW a \in Attempts, Resolve(a) PROVE BufferedNewest'
  BY <1>7 DEF BufferedNewest, InBuffer, Resolve
<1>8. ASSUME NEW a \in Attempts, DropAttempt(a) PROVE BufferedNewest'
  BY <1>8 DEF BufferedNewest, InBuffer, DropAttempt
<1>9. CASE LoopTop
  BY <1>9 DEF BufferedNewest, LoopTop, InBuffer
<1>10. CASE HandleAccept
  BY <1>10 DEF BufferedNewest, HandleAccept, TakeBuffered
<1>11. CASE HandleAcceptBuffered
  BY <1>11 DEF BufferedNewest, HandleAcceptBuffered, TakeBuffered
<1>12. CASE StartPoll
  BY <1>12 DEF BufferedNewest, StartPoll, Matches, InBuffer
<1>13. CASE HandleClose
  BY <1>13 DEF BufferedNewest, InBuffer, HandleClose
<1>14. CASE CommandsClosed
  BY <1>14 DEF BufferedNewest, InBuffer, CommandsClosed
<1>15. ASSUME NEW k \in Kinds, IncomingStream(k) PROVE BufferedNewest'
  <2>1. accepted[k] \in Nat /\ accepted' = [accepted EXCEPT ![k] = accepted[k] + 1]
    BY <1>15 DEF TypeOK, IncomingStream, AcceptNext
  <2>2. buffered' = <<k, accepted[k] + 1>> /\ pc' = "top"
    BY <1>15 DEF IncomingStream, NextStream
  <2>3. accepted'[k] = accepted[k] + 1
    BY <2>1 DEF TypeOK
  <2>4. \A j \in Kinds : accepted'[j] <= opened'[j]
    BY <1>15, AcceptedOpened DEF IncomingStream, BufferedNewest
  <2> QED BY <2>2, <2>3, <2>4 DEF BufferedNewest
<1>16. CASE IncomingEnd
  BY <1>16 DEF BufferedNewest, InBuffer, IncomingEnd
<1>17. CASE IncomingError
  BY <1>17 DEF BufferedNewest, InBuffer, IncomingError
<1>18. CASE PollStream
  <2> DEFINE k == Wanted[handling.kind]
  <2>1. k \in Kinds /\ accepted' = [accepted EXCEPT ![k] = accepted[k] + 1]
    BY <1>18, Handled DEF PollStream, AcceptNext
  <2>2. buffered' = buffered /\ pc' = "top"
    BY <1>18 DEF PollStream
  <2>3. ASSUME buffered # None PROVE buffered[2] = accepted'[buffered[1]]
    <3>1. buffered[1] \in Kinds /\ buffered[1] # k
      BY <1>18, <2>3 DEF TypeOK, Streams, BufferedNewest, InBuffer, PollStream
    <3>2. accepted'[buffered[1]] = accepted[buffered[1]]
      BY <2>1, <3>1 DEF TypeOK
    <3> QED BY <2>3, <3>2 DEF BufferedNewest
  <2>4. \A j \in Kinds : accepted'[j] <= opened'[j]
    BY <1>18, <2>1, AcceptedOpened DEF PollStream, BufferedNewest
  <2> QED BY <2>2, <2>3, <2>4 DEF BufferedNewest
<1>19. CASE PollTimeout
  BY <1>19 DEF BufferedNewest, InBuffer, PollTimeout
<1>20. CASE PollEnded
  BY <1>20 DEF BufferedNewest, InBuffer, PollEnded
<1>21. CASE PollError
  BY <1>21 DEF BufferedNewest, InBuffer, PollError
<1>22. CASE Exit
  BY <1>22 DEF BufferedNewest, Exit
<1>23. CASE Finish
  BY <1>23 DEF BufferedNewest, InBuffer, Finish
<1>24. ASSUME NEW k \in Kinds, PeerOpens(k) PROVE BufferedNewest'
  <2>1. opened' = [opened EXCEPT ![k] = opened[k] + 1]
    BY <1>24 DEF PeerOpens
  <2>2. \A j \in Kinds : opened[j] \in Nat /\ accepted[j] \in Nat /\ opened[j] <= opened'[j]
    BY <2>1 DEF TypeOK
  <2>3. \A j \in Kinds : accepted'[j] <= opened'[j]
    BY <1>24, <2>1, <2>2 DEF TypeOK, PeerOpens, BufferedNewest
  <2> QED BY <1>24, <2>3 DEF BufferedNewest, InBuffer, PeerOpens
<1>25. ASSUME NEW how \in {"ended", "closed", "reset"}, LinkDown(how) PROVE BufferedNewest'
  BY <1>25 DEF BufferedNewest, InBuffer, LinkDown
<1>26. CASE UNCHANGED vars
  BY <1>26 DEF BufferedNewest, InBuffer, vars
<1> QED
  BY <1>1, <1>2, <1>3, <1>4, <1>5, <1>6, <1>7, <1>8, <1>9, <1>10, <1>11, <1>12, <1>13, <1>14, <1>15, <1>16, <1>17, <1>18, <1>19, <1>20, <1>21, <1>22, <1>23, <1>24, <1>25, <1>26
     DEF Next, User, Plugins, FinishCall, TaskStep, Peer, UserAccept, AcceptorPoll, AcceptCalls

(* A stream that comes out of the buffer or off the connection, to be put into
   an empty channel or closed, is still in one place. *)
LEMMA AnswerAccounted ==
  ASSUME TypeOK, CarriedAnswered, EveryStreamAccountedFor,
         NEW a \in Attempts, attempt[a] \in Owed,
         NEW stream \in Streams \cup {None}, Answer(a, stream),
         owned' = owned,
         Taken' = Buffered' \cup Carried \cup owned \cup lost \cup ({stream} \ {None}),
         Buffered' \cap (Carried \cup owned \cup lost \cup {stream}) = {},
         stream \notin Carried \cup owned \cup lost
  PROVE  EveryStreamAccountedFor'
<1>1. CASE /\ carried[a] = None /\ carried' = [carried EXCEPT ![a] = stream]
           /\ lost' = lost
  <2>1. carried'[a] = stream /\ \A b \in Attempts \ {a} : carried'[b] = carried[b]
    BY <1>1 DEF TypeOK
  <2>2. Carried' = Carried \cup ({stream} \ {None})
    BY <1>1, <2>1 DEF Carried
  <2>3. \A b \in Attempts : carried[b] # None => carried[b] \in Carried
    BY DEF Carried
  <2>4. \A b, c \in Attempts : carried'[b] = carried'[c] /\ carried'[b] # None => b = c
    BY <2>1, <2>3 DEF EveryStreamAccountedFor
  <2> QED BY <1>1, <2>2, <2>4 DEF EveryStreamAccountedFor
<1>2. CASE carried' = carried /\ lost' = lost \cup ({stream} \ {None})
  <2>1. Carried' = Carried
    BY <1>2 DEF Carried
  <2>2. None \notin Carried
    BY DEF Carried
  <2> QED BY <1>2, <2>1, <2>2 DEF EveryStreamAccountedFor
<1> QED BY <1>1, <1>2, AnswerMoves

(* Streams stay where they are when nothing that holds one changes. *)
LEMMA Unmoved ==
  ASSUME EveryStreamAccountedFor, UNCHANGED <<buffered, carried, owned, lost, accepted>>
  PROVE  EveryStreamAccountedFor'
  BY DEF EveryStreamAccountedFor, Taken, Buffered, Carried

(* The stream in an attempt's channel, if there is one, goes to an entity or
   is closed. *)
LEMMA ChannelEmptied ==
  ASSUME TypeOK, EveryStreamAccountedFor, NEW a \in Attempts,
         carried' = [carried EXCEPT ![a] = None], UNCHANGED <<buffered, accepted>>,
         \/ owned' = owned \cup ({carried[a]} \ {None}) /\ lost' = lost
         \/ lost' = lost \cup ({carried[a]} \ {None}) /\ owned' = owned
  PROVE  EveryStreamAccountedFor'
<1>1. carried'[a] = None /\ \A b \in Attempts \ {a} : carried'[b] = carried[b]
  BY DEF TypeOK
<1>2. Carried' = Carried \ {carried[a]}
  BY <1>1 DEF Carried, EveryStreamAccountedFor
<1>3. {carried[a]} \ {None} \subseteq Carried
  BY DEF Carried
<1>4. Taken' = Taken /\ Buffered' = Buffered
  BY DEF Taken, Buffered
<1>5. \A b, c \in Attempts : carried'[b] = carried'[c] /\ carried'[b] # None => b = c
  BY <1>1 DEF EveryStreamAccountedFor
<1>6. /\ Taken' = Buffered' \cup Carried' \cup owned' \cup lost'
      /\ Buffered' \cap (Carried' \cup owned' \cup lost') = {}
      /\ Carried' \cap (owned' \cup lost') = {}
      /\ owned' \cap lost' = {}
  <2> DEFINE s == {carried[a]} \ {None}
  <2>1. None \notin Carried
    BY DEF Carried
  <2>2. Carried' = Carried \ s /\ s \subseteq Carried
    BY <1>2, <1>3, <2>1
  <2> QED BY <1>4, <2>2 DEF EveryStreamAccountedFor
<1> QED BY <1>5, <1>6 DEF EveryStreamAccountedFor

(* The buffered stream, if there is one, answers an attempt. *)
LEMMA BufferAccounted ==
  ASSUME TypeOK, CarriedAnswered, EveryStreamAccountedFor,
         NEW a \in Attempts, attempt[a] \in Owed, Answer(a, buffered),
         buffered' = None, UNCHANGED <<owned, accepted>>
  PROVE  EveryStreamAccountedFor'
<1>1. Buffered' = {} /\ Taken' = Taken
  BY DEF Buffered, Taken
<1>2. None \notin Carried \cup owned \cup lost
  BY ConstantsAssumption DEF TypeOK, Carried, ConstantsAssumption
<1>3. buffered \notin Carried \cup owned \cup lost
  BY <1>2 DEF EveryStreamAccountedFor, Buffered
<1>4. Taken' = Buffered' \cup Carried \cup owned \cup lost \cup ({buffered} \ {None})
  BY <1>1 DEF EveryStreamAccountedFor, Buffered
<1>5. buffered \in Streams \cup {None}
  BY DEF TypeOK
<1> QED BY <1>1, <1>3, <1>4, <1>5, AnswerAccounted

(* Every step keeps every stream in one place. *)
LEMMA AccountedStep ==
  ASSUME TypeOK, TaskShape, SendersMatch, CarriedAnswered,
         EveryStreamAccountedFor, [Next]_vars
  PROVE  EveryStreamAccountedFor'
<1> USE DEF bevy, flags, oneshots, task, quic
<1>1. ASSUME NEW kind \in AcceptCalls, StartAccept(kind) PROVE EveryStreamAccountedFor'
  BY <1>1, Unmoved DEF StartAccept
<1>2. CASE SendAccept
  BY <1>2, Unmoved DEF SendAccept
<1>3. CASE StartClose
  BY <1>3, Unmoved DEF StartClose
<1>4. CASE SendClose
  BY <1>4, Unmoved DEF SendClose
<1>5. CASE DropConnection
  BY <1>5, Unmoved DEF DropConnection
<1>6. CASE HandleDisconnection
  BY <1>6, Unmoved DEF HandleDisconnection
<1>7. ASSUME NEW a \in Attempts, Resolve(a) PROVE EveryStreamAccountedFor'
  BY <1>7, ChannelEmptied DEF Resolve
<1>8. ASSUME NEW a \in Attempts, DropAttempt(a) PROVE EveryStreamAccountedFor'
  BY <1>8, ChannelEmptied DEF DropAttempt
<1>9. CASE LoopTop
  BY <1>9, Unmoved DEF LoopTop
<1>10. CASE HandleAccept
  <2>1. /\ cmds # <<>> /\ Head(cmds).kind \in AcceptCalls
        /\ Answer(Head(cmds).to, buffered) /\ buffered' = None
        /\ UNCHANGED <<owned, accepted>>
    BY <1>10 DEF HandleAccept, TakeBuffered, AcceptCalls
  <2> QED BY <2>1, Owing, BufferAccounted
<1>11. CASE HandleAcceptBuffered
  <2>1. /\ cmds # <<>> /\ Head(cmds).kind \in AcceptCalls
        /\ Answer(Head(cmds).to, buffered) /\ buffered' = None
        /\ UNCHANGED <<owned, accepted>>
    BY <1>11, WantedKinds DEF HandleAcceptBuffered, TakeBuffered
  <2> QED BY <2>1, Owing, BufferAccounted
<1>12. CASE StartPoll
  BY <1>12, Unmoved DEF StartPoll
<1>13. CASE HandleClose
  BY <1>13, Unmoved DEF HandleClose
<1>14. CASE CommandsClosed
  BY <1>14, Unmoved DEF CommandsClosed
<1>15. ASSUME NEW k \in Kinds, IncomingStream(k) PROVE EveryStreamAccountedFor'
  <2> DEFINE s == NextStream(k)
  <2>1. s \in Streams /\ s \notin Taken /\ Taken' = Taken \cup {s}
    BY <1>15, NextStreamType DEF IncomingStream
  <2>2. Buffered = {} /\ Buffered' = {s}
    BY <1>15, <2>1, ConstantsAssumption
       DEF IncomingStream, Accepting, TaskShape, Buffered, ConstantsAssumption
  <2>3. Carried' = Carried /\ UNCHANGED <<carried, owned, lost>>
    BY <1>15 DEF IncomingStream, Carried
  <2> HIDE DEF s
  <2> QED BY <2>1, <2>2, <2>3 DEF EveryStreamAccountedFor
<1>16. CASE IncomingEnd
  BY <1>16, Unmoved DEF IncomingEnd
<1>17. CASE IncomingError
  BY <1>17, Unmoved DEF IncomingError
<1>18. CASE PollStream
  <2> DEFINE s == NextStream(Wanted[handling.kind])
  <2>1. s \in Streams /\ s \notin Taken /\ Taken' = Taken \cup {s}
    BY <1>18, Handled, NextStreamType DEF PollStream
  <2>2. /\ handling.to \in Attempts /\ attempt[handling.to] \in Owed
        /\ Answer(handling.to, s)
    BY <1>18, Owing DEF PollStream
  <2>3. Buffered' = Buffered /\ owned' = owned /\ s # None
    BY <1>18, <2>1, ConstantsAssumption DEF PollStream, Buffered, ConstantsAssumption
  <2> HIDE DEF s
  <2>4. Taken' = Buffered' \cup Carried \cup owned \cup lost \cup ({s} \ {None})
    BY <2>1, <2>3 DEF EveryStreamAccountedFor
  <2>5. /\ Buffered' \cap (Carried \cup owned \cup lost \cup {s}) = {}
        /\ s \notin Carried \cup owned \cup lost
    BY <2>1, <2>3 DEF EveryStreamAccountedFor
  <2> QED BY <2>1, <2>2, <2>3, <2>4, <2>5, AnswerAccounted
<1>19. CASE PollTimeout
  <2>1. /\ handling.to \in Attempts /\ attempt[handling.to] \in Owed
        /\ Answer(handling.to, None) /\ UNCHANGED <<buffered, owned, accepted>>
    BY <1>19, Owing DEF PollTimeout
  <2>2. Taken' = Taken /\ Buffered' = Buffered /\ None \notin Buffered
    BY <2>1 DEF Taken, Buffered
  <2>3. None \notin Carried \cup owned \cup lost
    BY ConstantsAssumption DEF TypeOK, Carried, ConstantsAssumption
  <2>4. /\ Taken' = Buffered' \cup Carried \cup owned \cup lost \cup ({None} \ {None})
        /\ Buffered' \cap (Carried \cup owned \cup lost \cup {None}) = {}
    BY <2>2 DEF EveryStreamAccountedFor
  <2> QED BY <2>1, <2>3, <2>4, AnswerAccounted
<1>20. CASE PollEnded
  <2>1. /\ handling.to \in Attempts /\ attempt[handling.to] \in Owed
        /\ Answer(handling.to, None) /\ UNCHANGED <<buffered, owned, accepted>>
    BY <1>20, Owing DEF PollEnded
  <2>2. Taken' = Taken /\ Buffered' = Buffered /\ None \notin Buffered
    BY <2>1 DEF Taken, Buffered
  <2>3. None \notin Carried \cup owned \cup lost
    BY ConstantsAssumption DEF TypeOK, Carried, ConstantsAssumption
  <2>4. /\ Taken' = Buffered' \cup Carried \cup owned \cup lost \cup ({None} \ {None})
        /\ Buffered' \cap (Carried \cup owned \cup lost \cup {None}) = {}
    BY <2>2 DEF EveryStreamAccountedFor
  <2> QED BY <2>1, <2>3, <2>4, AnswerAccounted
<1>21. CASE PollError
  BY <1>21, Unmoved DEF PollError, Fail
<1>22. CASE Exit
  <2>1. /\ buffered' = None /\ lost' = lost \cup ({buffered} \ {None})
        /\ UNCHANGED <<carried, owned, accepted>>
    BY <1>22 DEF Exit
  <2>2. Taken' = Taken /\ Buffered' = {} /\ Carried' = Carried /\ lost' = lost \cup Buffered
    BY <2>1 DEF Taken, Buffered, Carried
  <2> QED BY <2>1, <2>2 DEF EveryStreamAccountedFor
<1>23. CASE Finish
  BY <1>23, Unmoved DEF Finish
<1>24. ASSUME NEW k \in Kinds, PeerOpens(k) PROVE EveryStreamAccountedFor'
  BY <1>24, Unmoved DEF PeerOpens
<1>25. ASSUME NEW how \in {"ended", "closed", "reset"}, LinkDown(how) PROVE EveryStreamAccountedFor'
  BY <1>25, Unmoved DEF LinkDown
<1>26. CASE UNCHANGED vars
  BY <1>26, Unmoved DEF vars
<1> QED
  BY <1>1, <1>2, <1>3, <1>4, <1>5, <1>6, <1>7, <1>8, <1>9, <1>10, <1>11, <1>12, <1>13, <1>14, <1>15, <1>16, <1>17, <1>18, <1>19, <1>20, <1>21, <1>22, <1>23, <1>24, <1>25, <1>26
     DEF Next, User, Plugins, FinishCall, TaskStep, Peer, UserAccept, AcceptorPoll, AcceptCalls

-----------------------------------------------------------------------------
(* A new connection satisfies the invariant. *)
LEMMA InitInvariant == Init => IInv
<1> SUFFICES ASSUME Init PROVE IInv
  OBVIOUS
<1>1. TypeOK
  <2>1. cmds \in Queues
    BY ConstantsAssumption DEF Init, Queues, ConstantsAssumption
  <2>2. opened \in [Kinds -> 0 .. MaxOpened] /\ accepted \in [Kinds -> 0 .. MaxOpened]
    BY ConstantsAssumption DEF Init, ConstantsAssumption
  <2> QED BY <2>1, <2>2 DEF Init, TypeOK
<1>2. TaskShape /\ SendersMatch /\ CarriedAnswered /\ BufferedNewest /\ BufferedIsAnnounced
  BY DEF Init, TaskShape, SendersMatch, CarriedAnswered, BufferedNewest, BufferedIsAnnounced, Owed
<1>3. Taken = {} /\ Buffered = {} /\ Carried = {}
  BY DEF Init, Taken, Streams, Buffered, Carried
<1>4. EveryStreamAccountedFor
  BY <1>3 DEF Init, EveryStreamAccountedFor
<1> QED BY <1>1, <1>2, <1>4 DEF IInv

(* The inductive invariant holds in every reachable state. *)
THEOREM Invariance == Spec => []IInv
<1>1. IInv /\ [Next]_vars => IInv'
  BY TypeStep, ShapeStep, SendersStep, CarriedStep, NewestStep, AnnouncedStep, AccountedStep
     DEF IInv
<1> QED BY InitInvariant, <1>1, PTL DEF Spec

(* Every variable keeps its type. *)
THEOREM TypeCorrect == Spec => []TypeOK
<1>1. IInv => TypeOK
  BY DEF IInv
<1> QED BY Invariance, <1>1, PTL

(* No interleaving of the Bevy calls, the task, the attempts and the peer
   duplicates or leaks a stream that the task has accepted. *)
THEOREM StreamsAccountedFor == Spec => []EveryStreamAccountedFor
<1>1. IInv => EveryStreamAccountedFor
  BY DEF IInv
<1> QED BY Invariance, <1>1, PTL

(* No interleaving loses the wake-up for a buffered stream. *)
THEOREM NoLostWakeup == Spec => []BufferedIsAnnounced
<1>1. IInv => BufferedIsAnnounced
  BY DEF IInv
<1> QED BY Invariance, <1>1, PTL

(* Disconnected is triggered at most once, with no attempt left waiting. *)
THEOREM DisconnectOnce == Spec => []DisconnectedOnce
<1>1. IInv => DisconnectedOnce
  <2> SUFFICES ASSUME IInv PROVE DisconnectedOnce
    OBVIOUS
  <2>1. events <= 1
    BY DEF IInv, TaskShape
  <2>2. ASSUME events = 1, NEW a \in Attempts PROVE attempt[a] \notin {"queued", "orphan"}
    <3>1. handling = None /\ Len(cmds) = 0
      BY <2>2 DEF IInv, TaskShape
    <3> QED BY <3>1 DEF IInv, SendersMatch, Owed
  <2> QED BY <2>1, <2>2 DEF DisconnectedOnce
<1> QED BY Invariance, <1>1, PTL


-----------------------------------------------------------------------------
(* What a step may do once the connection is not open. *)
ClosedStep == /\ ~IsOpen'
              /\ \A a \in Attempts : carried'[a] \in {carried[a], None}

(* A connection that is not open stays so and hands out nothing. *)
LEMMA ClosedSteps ==
  ASSUME TypeOK, TaskShape, ~IsOpen, [Next]_vars
  PROVE  ClosedStep
<1> USE DEF bevy, flags, oneshots, task, quic
<1>1. ASSUME NEW kind \in AcceptCalls, StartAccept(kind) PROVE ClosedStep
  BY <1>1 DEF ClosedStep, IsOpen, TaskShape, Listening, Accepting, StartAccept
<1>2. CASE SendAccept
  BY <1>2 DEF ClosedStep, IsOpen, TaskShape, Listening, Accepting, SendAccept
<1>3. CASE StartClose
  BY <1>3 DEF ClosedStep, IsOpen, TaskShape, Listening, Accepting, StartClose
<1>4. CASE SendClose
  BY <1>4 DEF ClosedStep, IsOpen, TaskShape, Listening, Accepting, SendClose
<1>5. CASE DropConnection
  BY <1>5 DEF ClosedStep, IsOpen, TaskShape, Listening, Accepting, DropConnection
<1>6. CASE HandleDisconnection
  BY <1>6 DEF ClosedStep, IsOpen, TaskShape, Listening, Accepting, HandleDisconnection
<1>7. ASSUME NEW a \in Attempts, Resolve(a) PROVE ClosedStep
  BY <1>7 DEF ClosedStep, IsOpen, TypeOK, Resolve
<1>8. ASSUME NEW a \in Attempts, DropAttempt(a) PROVE ClosedStep
  BY <1>8 DEF ClosedStep, IsOpen, TypeOK, DropAttempt
<1>9. CASE LoopTop
  BY <1>9 DEF ClosedStep, IsOpen, TaskShape, Listening, Accepting, LoopTop
<1>10. CASE HandleAccept
  BY <1>10 DEF ClosedStep, IsOpen, TaskShape, Listening, Accepting, HandleAccept
<1>11. CASE HandleAcceptBuffered
  BY <1>11 DEF ClosedStep, IsOpen, TaskShape, Listening, Accepting, HandleAcceptBuffered
<1>12. CASE StartPoll
  BY <1>12 DEF ClosedStep, IsOpen, TaskShape, Listening, Accepting, StartPoll
<1>13. CASE HandleClose
  BY <1>13 DEF ClosedStep, IsOpen, TaskShape, Listening, Accepting, HandleClose
<1>14. CASE CommandsClosed
  BY <1>14 DEF ClosedStep, IsOpen, TaskShape, Listening, Accepting, CommandsClosed
<1>15. ASSUME NEW k \in Kinds, IncomingStream(k) PROVE ClosedStep
  BY <1>15 DEF ClosedStep, IsOpen, TaskShape, Listening, Accepting, IncomingStream
<1>16. CASE IncomingEnd
  BY <1>16 DEF ClosedStep, IsOpen, TaskShape, Listening, Accepting, IncomingEnd
<1>17. CASE IncomingError
  BY <1>17 DEF ClosedStep, IsOpen, TaskShape, Listening, Accepting, IncomingError
<1>18. CASE PollStream
  BY <1>18 DEF ClosedStep, IsOpen, TaskShape, Listening, Accepting, PollStream
<1>19. CASE PollTimeout
  BY <1>19 DEF ClosedStep, IsOpen, TaskShape, Listening, Accepting, PollTimeout
<1>20. CASE PollEnded
  BY <1>20 DEF ClosedStep, IsOpen, TaskShape, Listening, Accepting, PollEnded
<1>21. CASE PollError
  BY <1>21 DEF ClosedStep, IsOpen, TaskShape, Listening, Accepting, PollError
<1>22. CASE Exit
  BY <1>22 DEF ClosedStep, IsOpen, TaskShape, Listening, Accepting, Exit
<1>23. CASE Finish
  BY <1>23 DEF ClosedStep, IsOpen, TaskShape, Listening, Accepting, Finish
<1>24. ASSUME NEW k \in Kinds, PeerOpens(k) PROVE ClosedStep
  BY <1>24 DEF ClosedStep, IsOpen, TaskShape, Listening, Accepting, PeerOpens
<1>25. ASSUME NEW how \in {"ended", "closed", "reset"}, LinkDown(how) PROVE ClosedStep
  BY <1>25 DEF ClosedStep, IsOpen, TaskShape, Listening, Accepting, LinkDown
<1>26. CASE UNCHANGED vars
  BY <1>26 DEF ClosedStep, IsOpen, vars
<1> QED
  BY <1>1, <1>2, <1>3, <1>4, <1>5, <1>6, <1>7, <1>8, <1>9, <1>10, <1>11, <1>12, <1>13, <1>14, <1>15, <1>16, <1>17, <1>18, <1>19, <1>20, <1>21, <1>22, <1>23, <1>24, <1>25, <1>26
     DEF Next, User, Plugins, FinishCall, TaskStep, Peer, UserAccept, AcceptorPoll, AcceptCalls

(* is_open() never comes back to life, and nothing is handed out after it. *)
THEOREM ClosedForGood == Spec => ClosedStaysClosed
<1>1. IInv /\ [Next]_vars => [~IsOpen => ClosedStep]_vars
  BY ClosedSteps DEF IInv
<1> QED BY Invariance, <1>1, PTL DEF Spec, ClosedStaysClosed, ClosedStep

-----------------------------------------------------------------------------
(* Refinement: nothing that StreamHandoff speaks of changes. *)
LEMMA Stutters ==
  ASSUME UNCHANGED <<opened, accepted, buffered, owned, lost>>, Carried' = Carried
  PROVE  UNCHANGED Handoff!vars
  BY DEF Handoff!vars, Passed, InBuffer

(* What the attempts carry depends on nothing else. *)
LEMMA CarriedSame == carried' = carried => Carried' = Carried
  BY DEF Carried

(* A stream that leaves the buffer, or is polled, answers an attempt: it is
   offered to it, or closed. *)
LEMMA AnswerHandsOff ==
  ASSUME TypeOK, CarriedAnswered, NEW a \in Attempts, attempt[a] \in Owed,
         NEW k \in Kinds, <<k, Passed[k] + 1>> \in Streams, Answer(a, <<k, Passed[k] + 1>>),
         Passed[k] < opened[k], Passed' = [Passed EXCEPT ![k] = Passed[k] + 1],
         UNCHANGED <<opened, owned>>
  PROVE  Handoff!Offer(k) \/ Handoff!Discard(k)
<1> DEFINE s == <<k, Passed[k] + 1>>
<1>1. s \in Streams /\ s # None /\ {s} \ {None} = {s}
  BY ConstantsAssumption DEF ConstantsAssumption
<1>2. CASE /\ carried[a] = None /\ carried' = [carried EXCEPT ![a] = s] /\ lost' = lost
  <2>1. carried'[a] = s /\ \A b \in Attempts \ {a} : carried'[b] = carried[b]
    BY <1>2 DEF TypeOK
  <2> HIDE DEF s
  <2>2. Carried' = Carried \cup {s}
    BY <1>1, <1>2, <2>1 DEF Carried
  <2> USE DEF s
  <2> QED BY <1>2, <2>2 DEF Handoff!Offer
<1>3. CASE carried' = carried /\ lost' = lost \cup ({s} \ {None})
  BY <1>1, <1>3, CarriedSame DEF Handoff!Discard
<1> QED BY <1>1, <1>2, <1>3, AnswerMoves

(* Answering with nothing moves no stream. *)
LEMMA AnswerNothing ==
  ASSUME TypeOK, CarriedAnswered, NEW a \in Attempts, attempt[a] \in Owed, Answer(a, None)
  PROVE  Carried' = Carried /\ lost' = lost
<1>1. CASE /\ carried[a] = None /\ carried' = [carried EXCEPT ![a] = None] /\ lost' = lost
  <2>1. carried' = carried
    BY <1>1 DEF TypeOK
  <2> QED BY <1>1, <2>1, CarriedSame
<1>2. CASE carried' = carried /\ lost' = lost \cup ({None} \ {None})
  BY <1>2, CarriedSame
<1> QED BY <1>1, <1>2, AnswerMoves

(* Emptying the buffer hands on the stream in it. *)
LEMMA BufferPasses ==
  ASSUME TypeOK, BufferedNewest, buffered # None, buffered' = None,
         UNCHANGED <<opened, accepted>>, NEW k, k = buffered[1]
  PROVE  /\ k \in Kinds /\ buffered = <<k, Passed[k] + 1>> /\ Passed[k] < opened[k]
         /\ Passed' = [Passed EXCEPT ![k] = Passed[k] + 1]
<1>1. /\ k \in Kinds /\ buffered[2] = accepted[k] /\ accepted[k] <= opened[k]
      /\ buffered = <<k, accepted[k]>>
  BY DEF TypeOK, BufferedNewest, Streams
<1>2. accepted[k] \in Nat /\ opened[k] \in Nat
  BY <1>1 DEF TypeOK
<1>3. Passed[k] = accepted[k] - 1
  BY <1>1 DEF Passed, InBuffer
<1>4. Passed' = [j \in Kinds |-> accepted[j]]
  BY DEF Passed, InBuffer
<1>5. Passed' = [Passed EXCEPT ![k] = Passed[k] + 1]
  <2>1. Passed[k] + 1 = accepted[k]
    BY <1>2, <1>3
  <2>2. Passed = [j \in Kinds |-> IF j = k THEN accepted[k] - 1 ELSE accepted[j]]
    BY <1>1 DEF Passed, InBuffer
  <2> DEFINE P == Passed  Q == Passed'
  <2>3. /\ DOMAIN P = Kinds /\ Q = [j \in Kinds |-> accepted[j]]
        /\ \A j \in Kinds \ {k} : P[j] = accepted[j]
        /\ P = [j \in Kinds |-> P[j]]
    BY <1>4, <2>2
  <2>4. P[k] + 1 = accepted[k]
    BY <2>1
  <2> HIDE DEF P, Q
  <2>5. Q = [P EXCEPT ![k] = P[k] + 1]
    BY <2>3, <2>4
  <2> QED BY <2>5 DEF P, Q
<1>6. Passed[k] + 1 = accepted[k] /\ Passed[k] < opened[k]
  BY <1>1, <1>2, <1>3
<1> QED BY <1>1, <1>5, <1>6

(* Emptying a channel takes its stream, and no other, off the offer. *)
LEMMA ChannelTaken ==
  ASSUME TypeOK, EveryStreamAccountedFor, NEW a \in Attempts,
         carried' = [carried EXCEPT ![a] = None]
  PROVE  /\ Carried' = Carried \ {carried[a]}
         /\ carried[a] # None => carried[a] \in Carried
<1>1. carried'[a] = None /\ \A b \in Attempts \ {a} : carried'[b] = carried[b]
  BY DEF TypeOK
<1> QED BY <1>1 DEF Carried, EveryStreamAccountedFor

(* The answer that takes what is in the buffer offers or discards the oldest
   waiting stream of its kind, or changes nothing if the buffer is empty. *)
LEMMA BufferHandsOff ==
  ASSUME TypeOK, CarriedAnswered, BufferedNewest, NEW a \in Attempts, attempt[a] \in Owed,
         Answer(a, buffered), buffered' = None, UNCHANGED <<opened, accepted, owned>>
  PROVE  Handoff!Next \/ UNCHANGED Handoff!vars
<1>1. CASE buffered = None
  BY <1>1, AnswerNothing, Stutters
<1>2. CASE buffered # None
  <2> DEFINE k == buffered[1]
  <2>1. /\ k \in Kinds /\ buffered = <<k, Passed[k] + 1>> /\ Passed[k] < opened[k]
        /\ Passed' = [Passed EXCEPT ![k] = Passed[k] + 1]
    BY <1>2, BufferPasses
  <2>2. buffered \in Streams
    BY <1>2 DEF TypeOK
  <2> HIDE DEF k
  <2>3. Handoff!Offer(k) \/ Handoff!Discard(k)
    BY <2>1, <2>2, AnswerHandsOff
  <2> QED BY <2>1, <2>3 DEF Handoff!Next
<1> QED BY <1>1, <1>2

(* Every step is a step of StreamHandoff or changes nothing it speaks of. *)
LEMMA HandoffStep ==
  ASSUME IInv, [Next]_vars
  PROVE  Handoff!Next \/ UNCHANGED Handoff!vars
<1> USE DEF bevy, flags, oneshots, task, quic, IInv
<1>1. ASSUME NEW kind \in AcceptCalls, StartAccept(kind) PROVE Handoff!Next \/ UNCHANGED Handoff!vars
  BY <1>1, Stutters, CarriedSame DEF StartAccept
<1>2. CASE SendAccept
  BY <1>2, Stutters, CarriedSame DEF SendAccept
<1>3. CASE StartClose
  BY <1>3, Stutters, CarriedSame DEF StartClose
<1>4. CASE SendClose
  BY <1>4, Stutters, CarriedSame DEF SendClose
<1>5. CASE DropConnection
  BY <1>5, Stutters, CarriedSame DEF DropConnection
<1>6. CASE HandleDisconnection
  BY <1>6, Stutters, CarriedSame DEF HandleDisconnection
<1>7. ASSUME NEW a \in Attempts, Resolve(a) PROVE Handoff!Next \/ UNCHANGED Handoff!vars
  <2>1. /\ carried' = [carried EXCEPT ![a] = None] /\ owned' = owned \cup ({carried[a]} \ {None})
        /\ UNCHANGED <<opened, accepted, buffered, lost>>
    BY <1>7 DEF Resolve
  <2>2. Passed' = Passed
    BY <2>1 DEF Passed, InBuffer
  <2>3. CASE carried[a] = None
    <3>1. Carried' = Carried /\ owned' = owned
      BY <2>1, <2>3, ChannelTaken DEF Carried
    <3> QED BY <2>1, <3>1, Stutters
  <2>4. CASE carried[a] # None
    <3> DEFINE s == carried[a]
    <3>1. s \in Carried /\ Carried' = Carried \ {s}
      BY <2>1, <2>4, ChannelTaken
    <3>2. owned' = owned \cup {s}
      BY <2>1, <2>4
    <3> HIDE DEF s
    <3>3. Handoff!Own(s)
      BY <2>1, <2>2, <3>1, <3>2 DEF Handoff!Own
    <3> QED BY <3>1, <3>3 DEF Handoff!Next
  <2> QED BY <2>3, <2>4
<1>8. ASSUME NEW a \in Attempts, DropAttempt(a) PROVE Handoff!Next \/ UNCHANGED Handoff!vars
  <2>1. /\ carried' = [carried EXCEPT ![a] = None] /\ lost' = lost \cup ({carried[a]} \ {None})
        /\ UNCHANGED <<opened, accepted, buffered, owned>>
    BY <1>8 DEF DropAttempt
  <2>2. Passed' = Passed
    BY <2>1 DEF Passed, InBuffer
  <2>3. CASE carried[a] = None
    <3>1. Carried' = Carried /\ lost' = lost
      BY <2>1, <2>3, ChannelTaken DEF Carried
    <3> QED BY <2>1, <3>1, Stutters
  <2>4. CASE carried[a] # None
    <3> DEFINE s == carried[a]
    <3>1. s \in Carried /\ Carried' = Carried \ {s}
      BY <2>1, <2>4, ChannelTaken
    <3>2. lost' = lost \cup {s}
      BY <2>1, <2>4
    <3> HIDE DEF s
    <3>3. Handoff!Abandon(s)
      BY <2>1, <2>2, <3>1, <3>2 DEF Handoff!Abandon
    <3> QED BY <3>1, <3>3 DEF Handoff!Next
  <2> QED BY <2>3, <2>4
<1>9. CASE LoopTop
  BY <1>9, Stutters, CarriedSame DEF LoopTop
<1>10. CASE HandleAccept
  <2>1. /\ cmds # <<>> /\ Head(cmds).kind \in AcceptCalls
        /\ Answer(Head(cmds).to, buffered) /\ buffered' = None
        /\ UNCHANGED <<opened, owned, accepted>>
    BY <1>10 DEF HandleAccept, TakeBuffered, AcceptCalls
  <2> QED BY <2>1, Owing, BufferHandsOff
<1>11. CASE HandleAcceptBuffered
  <2>1. /\ cmds # <<>> /\ Head(cmds).kind \in AcceptCalls
        /\ Answer(Head(cmds).to, buffered) /\ buffered' = None
        /\ UNCHANGED <<opened, owned, accepted>>
    BY <1>11, WantedKinds DEF HandleAcceptBuffered, TakeBuffered
  <2> QED BY <2>1, Owing, BufferHandsOff
<1>12. CASE StartPoll
  BY <1>12, Stutters, CarriedSame DEF StartPoll
<1>13. CASE HandleClose
  BY <1>13, Stutters, CarriedSame DEF HandleClose
<1>14. CASE CommandsClosed
  BY <1>14, Stutters, CarriedSame DEF CommandsClosed
<1>15. ASSUME NEW k \in Kinds, IncomingStream(k) PROVE Handoff!Next \/ UNCHANGED Handoff!vars
  <2>1. buffered = None /\ buffered' = <<k, accepted[k] + 1>> /\ k = buffered'[1] /\ buffered' # None
    BY <1>15, NextStreamType, ConstantsAssumption
       DEF IncomingStream, Accepting, TaskShape, NextStream, ConstantsAssumption
  <2>2. accepted' = [accepted EXCEPT ![k] = accepted[k] + 1] /\ accepted[k] \in Nat
    BY <1>15 DEF TypeOK, IncomingStream, AcceptNext
  <2>3. \A j \in Kinds : (IF InBuffer(j)' THEN accepted'[j] - 1 ELSE accepted'[j]) = accepted[j]
    BY <2>1, <2>2 DEF TypeOK, InBuffer
  <2>4. Passed' = Passed
    BY <2>1, <2>3 DEF Passed, InBuffer
  <2> QED BY <1>15, <2>4, CarriedSame DEF IncomingStream, AcceptNext, Handoff!vars
<1>16. CASE IncomingEnd
  BY <1>16, Stutters, CarriedSame DEF IncomingEnd
<1>17. CASE IncomingError
  BY <1>17, Stutters, CarriedSame DEF IncomingError
<1>18. CASE PollStream
  <2> DEFINE k == Wanted[handling.kind]
  <2>1. /\ k \in Kinds /\ handling.to \in Attempts /\ attempt[handling.to] \in Owed
        /\ AcceptNext(k) /\ Answer(handling.to, NextStream(k)) /\ UNCHANGED <<buffered, opened, owned>>
    BY <1>18, Handled, Owing DEF PollStream, AcceptNext
  <2>2. ~InBuffer(k)
    BY <1>18 DEF BufferedNewest, PollStream
  <2> HIDE DEF k
  <2>3. /\ Passed[k] = accepted[k] /\ NextStream(k) = <<k, Passed[k] + 1>>
        /\ Passed[k] < opened[k] /\ NextStream(k) \in Streams
    BY <2>1, <2>2, NextStreamType DEF Passed, NextStream, AcceptNext
  <2>4. accepted' = [accepted EXCEPT ![k] = accepted[k] + 1]
    BY <2>1 DEF AcceptNext
  <2>5. Passed' = [Passed EXCEPT ![k] = Passed[k] + 1]
    BY <2>1, <2>2, <2>3, <2>4 DEF TypeOK, Passed, InBuffer
  <2>6. Handoff!Offer(k) \/ Handoff!Discard(k)
    BY <2>1, <2>3, <2>5, AnswerHandsOff
  <2> QED BY <2>1, <2>6 DEF Handoff!Next
<1>19. CASE PollTimeout
  <2>1. /\ Answer(handling.to, None) /\ pc = "poll"
        /\ UNCHANGED <<opened, accepted, buffered, owned>>
    BY <1>19 DEF PollTimeout
  <2> QED BY <2>1, Owing, AnswerNothing, Stutters
<1>20. CASE PollEnded
  <2>1. /\ Answer(handling.to, None) /\ pc = "poll"
        /\ UNCHANGED <<opened, accepted, buffered, owned>>
    BY <1>20 DEF PollEnded
  <2> QED BY <2>1, Owing, AnswerNothing, Stutters
<1>21. CASE PollError
  BY <1>21, Stutters, CarriedSame DEF PollError, Fail
<1>22. CASE Exit
  <2>1. /\ buffered' = None /\ lost' = lost \cup ({buffered} \ {None})
        /\ UNCHANGED <<opened, accepted, carried, owned>>
    BY <1>22 DEF Exit
  <2>2. CASE buffered = None
    BY <2>1, <2>2, CarriedSame, Stutters
  <2>3. CASE buffered # None
    <3> DEFINE k == buffered[1]
    <3>1. /\ k \in Kinds /\ buffered = <<k, Passed[k] + 1>> /\ Passed[k] < opened[k]
          /\ Passed' = [Passed EXCEPT ![k] = Passed[k] + 1]
      BY <2>1, <2>3, BufferPasses
    <3>2. lost' = lost \cup {buffered} /\ Carried' = Carried
      BY <2>1, <2>3, CarriedSame
    <3> HIDE DEF k
    <3> QED BY <2>1, <3>1, <3>2 DEF Handoff!Next, Handoff!Discard
  <2> QED BY <2>2, <2>3
<1>23. CASE Finish
  BY <1>23, Stutters, CarriedSame DEF Finish
<1>24. ASSUME NEW k \in Kinds, PeerOpens(k) PROVE Handoff!Next \/ UNCHANGED Handoff!vars
  <2>1. UNCHANGED <<accepted, buffered, carried, owned, lost>>
    BY <1>24 DEF PeerOpens
  <2>2. Passed' = Passed /\ Carried' = Carried
    BY <2>1, CarriedSame DEF Passed, InBuffer
  <2> QED BY <1>24, <2>1, <2>2 DEF PeerOpens, Handoff!Next, Handoff!Open
<1>25. ASSUME NEW how \in {"ended", "closed", "reset"}, LinkDown(how) PROVE Handoff!Next \/ UNCHANGED Handoff!vars
  BY <1>25, Stutters, CarriedSame DEF LinkDown
<1>26. CASE UNCHANGED vars
  BY <1>26, Stutters, CarriedSame DEF vars
<1> QED
  BY <1>1, <1>2, <1>3, <1>4, <1>5, <1>6, <1>7, <1>8, <1>9, <1>10, <1>11, <1>12, <1>13, <1>14, <1>15, <1>16, <1>17, <1>18, <1>19, <1>20, <1>21, <1>22, <1>23, <1>24, <1>25, <1>26
     DEF Next, User, Plugins, FinishCall, TaskStep, Peer, UserAccept, AcceptorPoll, AcceptCalls

(* The accept side of the connection implements StreamHandoff. *)
THEOREM ImplementsHandoff == Spec => HandoffSpec
<1>1. Init => Handoff!Init
  <2> SUFFICES ASSUME Init PROVE Handoff!Init
    OBVIOUS
  <2>1. Carried = {} /\ Passed = [k \in Kinds |-> 0]
    BY DEF Init, Carried, Passed, InBuffer
  <2> QED BY <2>1 DEF Init, Handoff!Init
<1>2. IInv /\ [Next]_vars => [Handoff!Next]_(Handoff!vars)
  BY HandoffStep
<1> QED BY Invariance, <1>1, <1>2, PTL DEF Spec, HandoffSpec, Handoff!Spec
=============================================================================
