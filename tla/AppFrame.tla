------------------------------ MODULE AppFrame ------------------------------
(***************************************************************************)
(* Frames of Bevy apps with bidirectional streams: what the systems of the *)
(* plugins do to the entities that have both halves of a stream, and with  *)
(* that to the packets, from one Session to the other.                     *)
(*                                                                         *)
(* An app runs its schedules in turn.  The systems of one schedule run one *)
(* after the other in any order, as the code orders none of them, and the  *)
(* commands they queue are applied at its end.  SendStream and             *)
(* ReceiveStream have the tasks in detail; here a task carries packets as  *)
(* their PipeSpec says, and ends.  The other end of a stream is in an app, *)
(* too, or elsewhere: in a program that has no such frames.  AppPipe says  *)
(* what all of this does to the packets of one direction of a stream.      *)
(***************************************************************************)
EXTENDS Naturals, Sequences, FiniteSets, SequencesExt

CONSTANTS
  Apps,         (* Bevy apps                                                *)
  Elsewhere,    (* the home of an end that is in none of them               *)
  Ends,         (* the ends of the streams: entities                        *)
  Home,         (* the app that an end belongs to                           *)
  Peer,         (* the other end of a stream                                *)
  Openers,      (* the ends that open their stream                          *)
  MaxPackets,   (* bound: packets that each end pushes                      *)
  OutboundSize, (* OUTBOUND_CHANNEL_SIZE                                    *)
  InboundSize,  (* INBOUND_CHANNEL_SIZE                                     *)
  TransferLimit,(* MAX_PACKET_TRANSFER                                      *)
  Failing,      (* the ends whose tasks may end by themselves               *)
  UserOps       (* what applications do: "Disconnect", "Despawn"            *)

ASSUME ConstantsAssumption ==
  /\ IsFiniteSet(Ends)
  /\ Elsewhere \notin Apps /\ Home \in [Ends -> Apps \cup {Elsewhere}]
  /\ Peer \in [Ends -> Ends] /\ \A e \in Ends : Peer[Peer[e]] = e
  /\ Openers \subseteq Ends /\ \A e \in Ends : e \in Openers <=> Peer[e] \notin Openers
  /\ MaxPackets \in [Ends -> Nat]
  /\ {OutboundSize, InboundSize, TransferLimit} \subseteq Nat \ {0}
  /\ Failing \subseteq Ends
  /\ UserOps \subseteq {"Disconnect", "Despawn"}

VARIABLES
  schedule,     (* the schedule an app is in                                *)
  todo,         (* its systems that have still to run                       *)
  visit,        (* the entities aeronet_session_recv has still to serve     *)
  buffer,       (* aeronet_session_recv's buffer                            *)
  commands,     (* deferred commands                                        *)
  entity,       (* an end has an attempt, its stream, or is gone            *)
  half,         (* QuicTaskState of the two halves of an end                *)
  asked,        (* the Disconnect observer has told both tasks to end       *)
  pushed,       (* packets that the application pushed at an end            *)
  backlog,      (* Session::send                                            *)
  wire,         (* packets between the outbound channel and the peer's task *)
  inbound,      (* the inbound channel                                      *)
  received,     (* all that Session::recv was ever given                    *)
  unread,       (* Session::recv is not empty                               *)
  events        (* Disconnected events for each half                        *)

frame == <<schedule, todo, visit, buffer, commands>>
stream == <<half, wire, inbound>>
session == <<pushed, backlog, received, unread>>
vars == <<frame, entity, stream, asked, session, events>>

Halves == {"send", "rec"}
Packets == UNION {{e} \X (1 .. MaxPackets[e]) : e \in Ends}

(* The systems of each schedule, and those of the application. *)
Systems ==
  [PreUpdate  |-> {"SessionRecv", "SessionSend"},
   Update     |-> {"Attempts", "RecDisconnections", "SendDisconnections", "Application"},
   PostUpdate |-> {"FireSend", "FireRec", "Application"}]

Following == [PreUpdate |-> "Update", Update |-> "PostUpdate", PostUpdate |-> "PreUpdate"]

TypeOK ==
  /\ schedule \in [Apps -> DOMAIN Systems]
  /\ todo \in [Apps -> SUBSET UNION Range(Systems)]
  /\ \A a \in Apps : todo[a] \subseteq Systems[schedule[a]]
  /\ visit \in [Apps -> Seq(Ends)] /\ buffer \in [Apps -> Seq(Packets)]
  /\ commands \in [Apps -> SUBSET ({"insert", "despawn"} \X Ends)]
  /\ entity \in [Ends -> {"attempt", "live", "gone"}]
  /\ half \in [Ends -> [Halves -> {"none", "running", "finished", "cached"}]]
  /\ asked \in [Ends -> BOOLEAN] /\ unread \in [Ends -> BOOLEAN]
  /\ pushed \in [Ends -> Nat] /\ \A e \in Ends : pushed[e] <= MaxPackets[e]
  /\ {backlog, wire, inbound, received} \subseteq [Ends -> Seq(Packets)]
  /\ \A e \in Ends : Len(inbound[e]) <= InboundSize
  /\ events \in [Ends -> [Halves -> Nat]]

Init ==
  /\ schedule = [a \in Apps |-> "Update"]
  /\ todo = [a \in Apps |-> Systems["Update"]]
  /\ visit = [a \in Apps |-> <<>>] /\ buffer = [a \in Apps |-> <<>>]
  /\ commands = [a \in Apps |-> {}]
  /\ entity = [e \in Ends |-> "attempt"]
  /\ half = [e \in Ends |-> [h \in Halves |-> "none"]]
  /\ asked = [e \in Ends |-> FALSE] /\ unread = [e \in Ends |-> FALSE]
  /\ pushed = [e \in Ends |-> 0]
  /\ backlog = [e \in Ends |-> <<>>] /\ wire = [e \in Ends |-> <<>>]
  /\ inbound = [e \in Ends |-> <<>>] /\ received = [e \in Ends |-> <<>>]
  /\ events = [e \in Ends |-> [h \in Halves |-> 0]]

-----------------------------------------------------------------------------
Local == {e \in Ends : Home[e] \in Apps}
Live(a) == {e \in Ends : Home[e] = a /\ entity[e] = "live"}

(* An app is free to run a system: none of its systems is blocked. *)
Runs(a, s) == visit[a] = <<>> /\ s \in todo[a] /\ todo' = [todo EXCEPT ![a] = @ \ {s}]

Ended(e, h) == half[e][h] \in {"finished", "cached"}

(* Variant of Reason: the reason goes to the first who asks. *)
ReasonOnce(e, h) == half[e][h] = "finished"

(* get_disconnect_reason is Some. *)
Reason(e, h) == Ended(e, h)

(* The reason is kept for the next who asks. *)
Cache(a, h) ==
  half' = [e \in Ends |->
             IF e \in Live(a) /\ Ended(e, h) THEN [half[e] EXCEPT ![h] = "cached"] ELSE half[e]]

-----------------------------------------------------------------------------
(* PreUpdate: aeronet_session_recv and aeronet_session_send.                *)

(* The query yields the entities in any order. *)
StartRecv(a) ==
  /\ Runs(a, "SessionRecv")
  /\ \E order \in SetToSeqs(Live(a)) : visit' = [visit EXCEPT ![a] = order]
  /\ UNCHANGED <<schedule, buffer, commands, entity, stream, asked, session, events>>

(* Variant of LeftInBuffer: the packets are copied to a session that is not
   empty. *)
LeftInBufferCopies(e, packets, size) == IF unread[e] THEN packets ELSE <<>>

(* An empty session is swapped with the truncated buffer; to another one the
   first packets are drained. *)
LeftInBuffer(e, packets, size) ==
  IF unread[e] THEN SubSeq(packets, size + 1, Len(packets)) ELSE <<>>

Smaller(m, n) == IF m < n THEN m ELSE n

(* recv_many waits for a packet or for the end of the task; what it returns
   goes to the entity's session by way of the buffer. *)
RecvEntity(a) ==
  /\ visit[a] # <<>>
  /\ LET e == Head(visit[a])
         size == Smaller(TransferLimit, Len(inbound[e]))
         packets == buffer[a] \o SubSeq(inbound[e], 1, size)
     IN /\ size > 0 \/ Ended(e, "rec")
        /\ inbound' = [inbound EXCEPT ![e] = SubSeq(@, size + 1, Len(@))]
        /\ received' = [received EXCEPT ![e] = @ \o SubSeq(packets, 1, size)]
        /\ unread' = [unread EXCEPT ![e] = @ \/ size > 0]
        /\ buffer' = [buffer EXCEPT ![a] =
                        IF Len(visit[a]) = 1 THEN <<>> ELSE LeftInBuffer(e, packets, size)]
  /\ visit' = [visit EXCEPT ![a] = Tail(@)]
  /\ UNCHANGED <<schedule, todo, commands, entity, half, wire, asked,
                 pushed, backlog, events>>

(* send_many_drain: all of the session, or what the channel has room for, and
   nothing once the task is gone. *)
Drained(e) ==
  IF Ended(e, "send") THEN {0}
  ELSE {n \in 0 .. Len(backlog[e]) : n = Len(backlog[e]) \/ Len(wire[e]) + n >= OutboundSize}

SessionSend(a) ==
  /\ Runs(a, "SessionSend")
  /\ \E n \in [Ends -> UNION {0 .. Len(backlog[e]) : e \in Ends}] :
       /\ \A e \in Ends : n[e] \in (IF e \in Live(a) THEN Drained(e) ELSE {0})
       /\ wire' = [e \in Ends |-> wire[e] \o SubSeq(backlog[e], 1, n[e])]
       /\ backlog' = [e \in Ends |-> SubSeq(backlog[e], n[e] + 1, Len(backlog[e]))]
  /\ UNCHANGED <<schedule, visit, buffer, commands, entity, half, inbound, asked,
                 pushed, received, unread, events>>

-----------------------------------------------------------------------------
(* Update: the attempt handlers, the disconnect handlers, the application.  *)

Queue(a, what, ends) == commands' = [commands EXCEPT ![a] = @ \cup ({what} \X ends)]

(* Attempts that have their stream are replaced by it. *)
Attempts(a) ==
  /\ Runs(a, "Attempts")
  /\ Queue(a, "insert", {e \in Ends : /\ Home[e] = a /\ entity[e] = "attempt"
                                      /\ \A h \in Halves : half[e][h] # "none"})
  /\ UNCHANGED <<schedule, visit, buffer, entity, stream, asked, session, events>>

(* Variant of HandleDisconnections: the entity stays. *)
HandleDisconnectionsKeepsEntity(a, h) ==
  /\ Cache(a, h)
  /\ UNCHANGED commands

HandleDisconnections(a, h) ==
  /\ Queue(a, "despawn", {e \in Live(a) : Reason(e, h)})
  /\ Cache(a, h)

RecDisconnections(a) ==
  /\ Runs(a, "RecDisconnections")
  /\ HandleDisconnections(a, "rec")
  /\ UNCHANGED <<schedule, visit, buffer, entity, wire, inbound, asked, session, events>>

SendDisconnections(a) ==
  /\ Runs(a, "SendDisconnections")
  /\ HandleDisconnections(a, "send")
  /\ UNCHANGED <<schedule, visit, buffer, entity, wire, inbound, asked, session, events>>

(* A system of the application, between two of the plugins'. *)
Applying(e) == e \in Local /\ entity[e] = "live" /\ "Application" \in todo[Home[e]]

Push(e) ==
  /\ Applying(e) /\ pushed[e] < MaxPackets[e]
  /\ pushed' = [pushed EXCEPT ![e] = @ + 1]
  /\ backlog' = [backlog EXCEPT ![e] = Append(@, <<e, pushed[e] + 1>>)]
  /\ UNCHANGED <<frame, entity, stream, asked, received, unread, events>>

(* It takes all that the session has received. *)
Consume(e) ==
  /\ Applying(e) /\ unread[e]
  /\ unread' = [unread EXCEPT ![e] = FALSE]
  /\ UNCHANGED <<frame, entity, stream, asked, pushed, backlog, received, events>>

(* The observer of Disconnect calls stop_send and close. *)
Disconnect(e) ==
  /\ "Disconnect" \in UserOps
  /\ Applying(e) /\ ~asked[e]
  /\ asked' = [asked EXCEPT ![e] = TRUE]
  /\ UNCHANGED <<frame, entity, stream, session, events>>

Despawn(e) ==
  /\ "Despawn" \in UserOps
  /\ Applying(e)
  /\ Queue(Home[e], "despawn", {e})
  /\ UNCHANGED <<schedule, todo, visit, buffer, entity, stream, asked, session, events>>

ApplicationDone(a) ==
  /\ Runs(a, "Application")
  /\ UNCHANGED <<schedule, visit, buffer, commands, entity, stream, asked, session, events>>

-----------------------------------------------------------------------------
(* PostUpdate: fire_send_disconnect_events asks the receive streams, and
   fire_rec_disconnect_events the send streams.                             *)

Fire(a, h) ==
  /\ events' = [e \in Ends |->
                  IF e \in Live(a) /\ Reason(e, h) THEN [events[e] EXCEPT ![h] = @ + 1]
                  ELSE events[e]]
  /\ Cache(a, h)
  /\ UNCHANGED <<schedule, visit, buffer, commands, entity, wire, inbound, asked, session>>

FireSend(a) == Runs(a, "FireSend") /\ Fire(a, "rec")
FireRec(a) == Runs(a, "FireRec") /\ Fire(a, "send")

-----------------------------------------------------------------------------
(* The end of a schedule: the commands are applied, and the next one begins.
   With an entity go its session and the receiver of its inbound channel. *)
NextSchedule(a) ==
  /\ todo[a] = {} /\ visit[a] = <<>>
  /\ schedule' = [schedule EXCEPT ![a] = Following[@]]
  /\ todo' = [todo EXCEPT ![a] = Systems[Following[schedule[a]]]]
  /\ commands' = [commands EXCEPT ![a] = {}]
  /\ LET Gone == {e \in Ends : <<"despawn", e>> \in commands[a]} IN
       /\ entity' = [e \in Ends |-> IF e \in Gone THEN "gone"
                                    ELSE IF <<"insert", e>> \in commands[a] THEN "live"
                                    ELSE entity[e]]
       /\ backlog' = [e \in Ends |-> IF e \in Gone THEN <<>> ELSE backlog[e]]
       /\ inbound' = [e \in Ends |-> IF e \in Gone THEN <<>> ELSE inbound[e]]
       /\ unread' = [e \in Ends |-> e \notin Gone /\ unread[e]]
  /\ UNCHANGED <<visit, buffer, half, wire, asked, pushed, received, events>>

-----------------------------------------------------------------------------
(* The tasks and s2n-quic.                                                  *)

(* A stream is open at once for the one that opens it; the peer is given it
   with its first packet, or with its end. *)
Known(e) == e \in Openers \/ wire[Peer[e]] # <<>> \/ Ended(Peer[e], "send")

(* The tasks of both halves start before the attempt hands the stream out. *)
TasksStart(e) ==
  /\ Known(e) /\ \A h \in Halves : half[e][h] = "none"
  /\ half' = [half EXCEPT ![e] = [h \in Halves |-> "running"]]
  /\ entity' = IF Home[e] = Elsewhere THEN [entity EXCEPT ![e] = "live"] ELSE entity
  /\ UNCHANGED <<frame, wire, inbound, asked, session, events>>

Receiving(e) == half[e]["rec"] # "none"

(* Variant of NoRoom: a packet is given back one too early. *)
NoRoomOffByOne(e) == Len(inbound[e]) + 1 >= InboundSize \/ Ended(e, "rec") \/ entity[e] = "gone"

(* Variant of NoRoom: an unbounded channel. *)
NoRoomUnbounded(e) == Ended(e, "rec") \/ entity[e] = "gone"

(* try_send into the inbound channel fails. *)
NoRoom(e) == Len(inbound[e]) = InboundSize \/ Ended(e, "rec") \/ entity[e] = "gone"

Arriving(e) == wire[e] # <<>> /\ wire' = [wire EXCEPT ![e] = Tail(@)]

(* A packet arrives at the peer's task and is put into the inbound channel,
   unless that is full or gone. *)
Carry(e) ==
  /\ Peer[e] \in Local /\ Receiving(Peer[e])
  /\ Arriving(e)
  /\ inbound' = [inbound EXCEPT ![Peer[e]] =
                   IF NoRoom(Peer[e]) THEN @ ELSE Append(@, Head(wire[e]))]
  /\ UNCHANGED <<frame, entity, half, asked, session, events>>

(* An end elsewhere receives all that arrives, until it stops. *)
CarryElsewhere(e) ==
  /\ Peer[e] \notin Local /\ Receiving(Peer[e])
  /\ Arriving(e)
  /\ received' = [received EXCEPT ![Peer[e]] =
                    IF Ended(Peer[e], "rec") THEN @ ELSE Append(@, Head(wire[e]))]
  /\ UNCHANGED <<frame, entity, half, inbound, asked, pushed, backlog, unread, events>>

(* A task ends, for any of its reasons. With the send task goes the end of
   what is on its way, with the receive task all that has not arrived. *)
TaskEnds(e, h) ==
  /\ half[e][h] = "running"
  /\ half' = [half EXCEPT ![e][h] = "finished"]
  /\ IF h = "send"
     THEN \E n \in 0 .. Len(wire[e]) : wire' = [wire EXCEPT ![e] = SubSeq(@, 1, n)]
     ELSE wire' = [wire EXCEPT ![Peer[e]] = <<>>]
  /\ UNCHANGED <<frame, entity, inbound, asked, session, events>>

(* An end elsewhere sends when it likes. *)
SendElsewhere(e) ==
  /\ Home[e] = Elsewhere /\ half[e]["send"] = "running" /\ pushed[e] < MaxPackets[e]
  /\ pushed' = [pushed EXCEPT ![e] = @ + 1]
  /\ wire' = [wire EXCEPT ![e] = Append(@, <<e, pushed[e] + 1>>)]
  /\ UNCHANGED <<frame, entity, half, inbound, asked, backlog, received, unread, events>>

EndsByItself(e, h) == e \in Failing /\ TaskEnds(e, h)

(* The task was told to end, or its component is gone. *)
EndsWhenTold(e, h) == (asked[e] \/ entity[e] = "gone") /\ TaskEnds(e, h)

Frame(a) == \/ StartRecv(a) \/ RecvEntity(a) \/ SessionSend(a)
            \/ Attempts(a) \/ RecDisconnections(a) \/ SendDisconnections(a)
            \/ ApplicationDone(a)
            \/ FireSend(a) \/ FireRec(a) \/ NextSchedule(a)

Network(e) == \/ TasksStart(e) \/ Carry(e) \/ CarryElsewhere(e) \/ SendElsewhere(e)
              \/ \E h \in Halves : EndsByItself(e, h) \/ EndsWhenTold(e, h)

User(e) == Push(e) \/ Consume(e) \/ Disconnect(e) \/ Despawn(e)

Next == \/ \E a \in Apps : Frame(a)
        \/ \E e \in Ends : User(e) \/ Network(e)

Spec == Init /\ [][Next]_vars

(* Each app goes on unless it is blocked, the runtime polls the tasks, and
   packets arrive.  A receive task that is told to end does, a send task may be
   held by its peer. *)
FairSpec ==
  /\ Spec
  /\ \A a \in Apps : WF_vars(Frame(a))
  /\ \A e \in Ends : /\ WF_vars(TasksStart(e)) /\ WF_vars(Carry(e)) /\ WF_vars(CarryElsewhere(e))
                      /\ WF_vars(EndsWhenTold(e, "rec"))

-----------------------------------------------------------------------------
(* The end of a half is announced at most once, after it ended, and for an
   entity that is there: the handler of Update, which despawns the entity,
   always comes between two runs of the systems of PostUpdate. *)
AnnouncedOnce ==
  \A e \in Ends, h \in Halves : events[e][h] <= (IF Ended(e, h) THEN 1 ELSE 0)

(* While an app's frames go on, an entity goes when one of its tasks ended or
   was told to, whichever system read the reason first. *)
EndedGoes ==
  \A e \in Local :
    []<><<NextSchedule(Home[e])>>_vars =>
       ((\E h \in Halves : Ended(e, h)) \/ asked[e] ~> entity[e] = "gone")

-----------------------------------------------------------------------------
(* Statements of the source that the code does not live up to.              *)

(* QuicAeronetPacketPlugin "handles pushing and draining packets to and from
   the Session packet buffers": a packet left in a session is drained, unless
   the stream ends. *)
SessionDrained ==
  \A e \in Local : backlog[e] # <<>> ~> backlog[e] = <<>> \/ Ended(e, "send")
=============================================================================
