--------------------------- MODULE ConnectionTask ---------------------------
(***************************************************************************)
(* One QUIC connection: the QuicConnection component that Bevy systems     *)
(* call, the async ConnectionTask it spawned, the command channel and the  *)
(* two atomic flags they share, the oneshot channel of every accept        *)
(* attempt, and the s2n-quic connection underneath (external).             *)
(*                                                                         *)
(* Bevy gives one system at a time access to the component, so at most one *)
(* call is in progress; the task and the peer run concurrently with it.  A *)
(* call is split where the task can observe it: between its access to a    *)
(* flag and its try_send.  The task is split at its awaits.                *)
(***************************************************************************)
EXTENDS Naturals, Sequences, FiniteSets

CONSTANTS
  Attempts,     (* accept attempts that can be outstanding at one time      *)
  MaxOpened,    (* bound: streams of each kind the peer opens               *)
  ChannelSize,  (* CONNECTION_CTRL_CHANNEL_SIZE                             *)
  UserOps,      (* what the application does beside running the plugins     *)
  None          (* Rust's Option::None                                      *)

AcceptCalls == {"Accept", "AcceptReceive", "AcceptBidirectional"}
Kinds == {"Receive", "Bidirectional"}
Streams == Kinds \X (1 .. MaxOpened)

(* ConnectionCommand: an accept with its respond_to, or a close. *)
Commands == [kind : AcceptCalls, to : Attempts] \cup [kind : {"Close"}, to : {None}]

ASSUME ConstantsAssumption ==
  /\ MaxOpened \in Nat
  /\ ChannelSize \in Nat \ {0}
  /\ UserOps \subseteq AcceptCalls \cup {"Close", "DropAttempt", "DropConnection"}
  /\ None \notin Attempts \cup Streams \cup Commands

VARIABLES
  component,    (* the QuicConnection component: "live" or "removed"        *)
  call,         (* the call between its flag access and its try_send        *)
  pending,      (* StreamFlag pending_stream                                *)
  openFlag,     (* OpenFlag is_open                                         *)
  cmds,         (* the mpsc command channel                                 *)
  attempt,      (* joint state of an attempt and its oneshot channel        *)
  carried,      (* the stream in an attempt's oneshot channel               *)
  pc,           (* where the task is                                        *)
  handling,     (* the command whose accept poll is awaited                 *)
  buffered,     (* ConnectionTask::buffered_stream                          *)
  disconnect,   (* ConnectionTask::disconnect_flag                          *)
  link,         (* s2n-quic: what accept reports once no stream waits       *)
  opened,       (* s2n-quic: streams of each kind the peer has opened       *)
  accepted,     (* s2n-quic: streams of each kind the task has accepted     *)
  owned,        (* streams that are components of an entity                 *)
  lost,         (* streams closed before any entity had them                *)
  events        (* Disconnected events triggered for the connection         *)

bevy == <<component, call, events>>
flags == <<pending, openFlag>>
oneshots == <<attempt, carried, lost>>
task == <<pc, handling, buffered, disconnect>>
quic == <<link, opened, accepted>>
vars == <<bevy, flags, cmds, oneshots, task, quic, owned>>

(* What the bounded mpsc channel can hold. *)
Queues == {q \in Seq(Commands) : Len(q) <= ChannelSize}

TypeOK ==
  /\ component \in {"live", "removed"}
  /\ call \in AcceptCalls \cup {"Close", "none"}
  /\ pending \in BOOLEAN /\ openFlag \in BOOLEAN
  /\ cmds \in Queues
  /\ attempt \in [Attempts -> {"free", "queued", "orphan", "answered", "failed", "closed"}]
  /\ carried \in [Attempts -> Streams \cup {None}]
  /\ pc \in {"top", "recv", "select", "poll", "dropped", "finished"}
  /\ handling \in Commands \cup {None}
  /\ buffered \in Streams \cup {None}
  /\ disconnect \in {"none", "PeerClosed", "ConnectionError", "MspcChannelClosed"}
  /\ link \in {"open", "ended", "closed", "reset"}
  /\ opened \in [Kinds -> 0 .. MaxOpened]
  /\ accepted \in [Kinds -> 0 .. MaxOpened]
  /\ owned \subseteq Streams /\ lost \subseteq Streams
  /\ events \in Nat

Init ==
  /\ component = "live" /\ call = "none" /\ events = 0
  /\ pending = FALSE /\ openFlag = TRUE
  /\ cmds = <<>>
  /\ attempt = [a \in Attempts |-> "free"]
  /\ carried = [a \in Attempts |-> None]
  /\ pc = "top" /\ handling = None /\ buffered = None /\ disconnect = "none"
  /\ link = "open"
  /\ opened = [k \in Kinds |-> 0] /\ accepted = [k \in Kinds |-> 0]
  /\ owned = {} /\ lost = {}

-----------------------------------------------------------------------------
(* The QuicConnection component, called by Bevy systems.                    *)

Idle == component = "live" /\ call = "none"
IsOpen == pc # "finished" /\ openFlag
ShouldPollAccept == pending /\ IsOpen
ReceiverAlive == pc \notin {"dropped", "finished"}

(* The part of accept_stream, accept_receive_stream and
   accept_bidirectional_stream before the command is sent.  The model bounds
   the outstanding attempts by Attempts. *)
StartAccept(kind) ==
  /\ Idle
  /\ \E a \in Attempts : attempt[a] = "free"
  /\ pending' = FALSE
  /\ call' = kind
  /\ UNCHANGED <<component, events, openFlag, cmds, oneshots, task, quic, owned>>

(* Variant of HasRoom: an unbounded channel. *)
RoomUnbounded == ReceiverAlive

(* try_send succeeds. *)
HasRoom == ReceiverAlive /\ Len(cmds) < ChannelSize

(* try_send of the command; a full or closed channel is an Err for the caller
   and leaves no attempt behind. *)
SendAccept ==
  /\ call \in AcceptCalls
  /\ call' = "none"
  /\ \/ /\ HasRoom
        /\ \E a \in Attempts :
             /\ attempt[a] = "free"
             /\ attempt' = [attempt EXCEPT ![a] = "queued"]
             /\ cmds' = Append(cmds, [kind |-> call, to |-> a])
     \/ /\ ~HasRoom
        /\ UNCHANGED <<attempt, cmds>>
  /\ UNCHANGED <<component, events, flags, carried, lost, task, quic, owned>>

(* The acceptor systems of server and client. *)
AcceptorPoll == ShouldPollAccept /\ StartAccept("Accept")

UserAccept(kind) == kind \in UserOps /\ StartAccept(kind)

(* close() on a connection that is_open() says is open. *)
StartClose ==
  /\ "Close" \in UserOps
  /\ Idle /\ IsOpen
  /\ call' = "Close"
  /\ UNCHANGED <<component, events, flags, cmds, oneshots, task, quic, owned>>

CloseLink == link' = IF link = "open" THEN "closed" ELSE link

(* Variant of ForceClose: a Close that does not fit in the channel is only
   logged. *)
ForceCloseOnlyLogs == UNCHANGED link

(* conn_handle.close, when the command could not be queued. *)
ForceClose == CloseLink

SendClose ==
  /\ call = "Close"
  /\ call' = "none"
  /\ \/ /\ HasRoom
        /\ cmds' = Append(cmds, [kind |-> "Close", to |-> None])
        /\ UNCHANGED link
     \/ /\ ~HasRoom
        /\ ForceClose
        /\ UNCHANGED cmds
  /\ UNCHANGED <<component, events, flags, oneshots, task, opened, accepted, owned>>

(* The application removes the component or despawns its entity. *)
DropConnection ==
  /\ "DropConnection" \in UserOps
  /\ Idle
  /\ component' = "removed"
  /\ UNCHANGED <<call, events, flags, cmds, oneshots, task, quic, owned>>

(* Variant of HandleDisconnection: the component stays on its entity. *)
HandleDisconnectionKeepsComponent ==
  /\ Idle
  /\ pc = "finished"
  /\ events' = events + 1
  /\ UNCHANGED <<component, call, flags, cmds, oneshots, task, quic, owned>>

(* get_disconnect_reason returns Some once the task has finished; the handler
   system triggers Disconnected and removes the component. *)
HandleDisconnection ==
  /\ Idle
  /\ pc = "finished"
  /\ events' = events + 1
  /\ component' = "removed"
  /\ UNCHANGED <<call, flags, cmds, oneshots, task, quic, owned>>

-----------------------------------------------------------------------------
(* Accept attempts, each holding the receiver of a oneshot channel:
     free      the model's slot holds no attempt
     queued    the attempt waits, the task holds the sender
     orphan    the attempt was dropped, the task still holds the sender
     answered  the channel holds Ok(Some(carried)) or Ok(None)
     failed    the channel holds Err
     closed    the sender was dropped without a word                         *)

(* attempt_result of an attempt whose channel holds a value, then what the
   handler system does with its entity.  An empty channel is Pending, and a
   closed one too: resolve_result asks is_empty() first, which is true of a
   channel whose sender is gone. *)
Resolve(a) ==
  /\ attempt[a] \in {"answered", "failed"}
  /\ attempt' = [attempt EXCEPT ![a] = "free"]
  /\ carried' = [carried EXCEPT ![a] = None]
  /\ owned' = owned \cup ({carried[a]} \ {None})
  /\ UNCHANGED <<bevy, flags, cmds, lost, task, quic>>

(* The application drops an attempt, with the stream it may hold. *)
DropAttempt(a) ==
  /\ "DropAttempt" \in UserOps
  /\ attempt[a] \notin {"free", "orphan"}
  /\ attempt' = [attempt EXCEPT ![a] = IF @ = "queued" THEN "orphan" ELSE "free"]
  /\ carried' = [carried EXCEPT ![a] = None]
  /\ lost' = lost \cup ({carried[a]} \ {None})
  /\ UNCHANGED <<bevy, flags, cmds, task, quic, owned>>

(* respond_to.send(Ok(stream)): a stream nobody waits for is dropped. *)
Answer(a, stream) ==
  IF attempt[a] = "queued"
  THEN /\ attempt' = [attempt EXCEPT ![a] = "answered"]
       /\ carried' = [carried EXCEPT ![a] = stream]
       /\ UNCHANGED lost
  ELSE /\ attempt' = [attempt EXCEPT ![a] = "free"]
       /\ lost' = lost \cup ({stream} \ {None})
       /\ UNCHANGED carried

(* respond_to.send(Err(..)) *)
Fail(a) ==
  /\ attempt' = [attempt EXCEPT ![a] = IF @ = "queued" THEN "failed" ELSE "free"]
  /\ UNCHANGED <<carried, lost>>

-----------------------------------------------------------------------------
(* The async task: ConnectionTask::start and the handlers it awaits.        *)

(* Variant of Announce: the flag is not raised at the head of the loop. *)
AnnounceNothing == UNCHANGED pending

(* set_true at the head of the loop, before parking with a buffered stream. *)
Announce == pending' = TRUE

LoopTop ==
  /\ pc = "top" /\ disconnect = "none"
  /\ \/ /\ buffered # None
        /\ Announce
        /\ pc' = "recv"
     \/ /\ buffered = None
        /\ pc' = "select"
        /\ UNCHANGED pending
  /\ UNCHANGED <<bevy, openFlag, cmds, oneshots, handling, buffered, disconnect, quic, owned>>

(* The task waits for a command: alone, or first in the biased select. *)
Listening == pc \in {"recv", "select"}

(* Variant of TakeBuffered: the stream is copied out of the buffer. *)
TakeForgotten == UNCHANGED buffered

(* Option::take *)
TakeBuffered == buffered' = None

(* ConnectionCommand::Accept: the buffered stream or nothing, at once. *)
HandleAccept ==
  /\ Listening /\ cmds # <<>>
  /\ Head(cmds).kind = "Accept"
  /\ Answer(Head(cmds).to, buffered)
  /\ TakeBuffered
  /\ cmds' = Tail(cmds)
  /\ pc' = "top"
  /\ UNCHANGED <<bevy, flags, handling, disconnect, quic, owned>>

Wanted == [AcceptReceive |-> "Receive", AcceptBidirectional |-> "Bidirectional"]

(* Variant of Matches: the buffer is not looked at. *)
MatchesNothing(kind) == FALSE

(* The buffered stream is the next one of the kind a command asks for. *)
Matches(kind) == buffered # None /\ buffered[1] = Wanted[kind]

(* AcceptReceive and AcceptBidirectional with a matching stream buffered. *)
HandleAcceptBuffered ==
  /\ Listening /\ cmds # <<>>
  /\ Head(cmds).kind \in DOMAIN Wanted
  /\ Matches(Head(cmds).kind)
  /\ Answer(Head(cmds).to, buffered)
  /\ TakeBuffered
  /\ cmds' = Tail(cmds)
  /\ pc' = "top"
  /\ UNCHANGED <<bevy, flags, handling, disconnect, quic, owned>>

(* The same commands with nothing, or the other kind, in the buffer: a stream
   of the other kind stays there and the connection is polled. *)
StartPoll ==
  /\ Listening /\ cmds # <<>>
  /\ Head(cmds).kind \in DOMAIN Wanted
  /\ ~Matches(Head(cmds).kind)
  /\ handling' = Head(cmds)
  /\ cmds' = Tail(cmds)
  /\ pc' = "poll"
  /\ UNCHANGED <<bevy, flags, oneshots, buffered, disconnect, quic, owned>>

HandleClose ==
  /\ Listening /\ cmds # <<>>
  /\ Head(cmds).kind = "Close"
  /\ CloseLink
  /\ cmds' = Tail(cmds)
  /\ pc' = "top"
  /\ UNCHANGED <<bevy, flags, oneshots, handling, buffered, disconnect, opened, accepted, owned>>

(* Variant of CommandsClosed: only the select! notices. *)
CommandsClosedInSelect ==
  /\ pc = "select" /\ cmds = <<>> /\ component = "removed"
  /\ disconnect' = "MspcChannelClosed"
  /\ pc' = "top"
  /\ UNCHANGED <<bevy, flags, cmds, oneshots, handling, buffered, quic, owned>>

(* Every sender is gone and the channel is drained. *)
CommandsClosed ==
  /\ Listening /\ cmds = <<>> /\ component = "removed"
  /\ disconnect' = "MspcChannelClosed"
  /\ pc' = "top"
  /\ UNCHANGED <<bevy, flags, cmds, oneshots, handling, buffered, quic, owned>>

(* s2n-quic hands out the streams of one kind in the order of their ids. *)
AcceptNext(k) ==
  /\ accepted[k] < opened[k]
  /\ accepted' = [accepted EXCEPT ![k] = @ + 1]
  /\ UNCHANGED <<link, opened>>
NextStream(k) == <<k, accepted[k] + 1>>

(* The second branch of the biased select: no command is ready. *)
Accepting == pc = "select" /\ cmds = <<>> /\ component = "live"

IncomingStream(k) ==
  /\ Accepting
  /\ AcceptNext(k)
  /\ buffered' = NextStream(k)
  /\ pc' = "top"
  /\ UNCHANGED <<bevy, flags, cmds, oneshots, handling, disconnect, owned>>

(* accept() returned Ok(None). *)
IncomingEnd ==
  /\ Accepting
  /\ link = "ended"
  /\ disconnect' = "PeerClosed"
  /\ pc' = "top"
  /\ UNCHANGED <<bevy, flags, cmds, oneshots, handling, buffered, quic, owned>>

(* The error is one of the kinds ConnectionErrorDisconnected counts as closed. *)
NoteClosed == openFlag' = (openFlag /\ link # "closed")

(* Variant of RecordError: handle_cmd_result ignores the error. *)
RecordErrorForgotten == UNCHANGED disconnect

RecordError == disconnect' = "ConnectionError"

(* accept() returned an error. *)
IncomingError ==
  /\ Accepting
  /\ link \in {"closed", "reset"}
  /\ NoteClosed
  /\ RecordError
  /\ pc' = "top"
  /\ UNCHANGED <<bevy, pending, cmds, oneshots, handling, buffered, quic, owned>>

(* accept_receive and accept_bidirectional, awaited for at most
   ACCEPT_MISMATCH_TIMEOUT.  The timeout polls the accept before its timer, so
   it only fires while there is nothing to report. *)
PollStream ==
  /\ pc = "poll"
  /\ LET k == Wanted[handling.kind] IN
       /\ AcceptNext(k)
       /\ Answer(handling.to, NextStream(k))
  /\ handling' = None
  /\ pc' = "top"
  /\ UNCHANGED <<bevy, flags, cmds, buffered, disconnect, owned>>

(* Variant of PollTimeout: with a stream buffered the task goes straight back
   to its command channel. *)
PollTimeoutKeepsWaiting ==
  /\ pc = "poll"
  /\ link = "open"
  /\ accepted[Wanted[handling.kind]] = opened[Wanted[handling.kind]]
  /\ Answer(handling.to, None)
  /\ handling' = None
  /\ pc' = IF buffered = None THEN "top" ELSE "recv"
  /\ UNCHANGED <<bevy, flags, cmds, buffered, disconnect, quic, owned>>

(* Variant of PollTimeout: the accept is awaited without a timeout. *)
PollTimeoutNever == FALSE /\ UNCHANGED vars

PollTimeout ==
  /\ pc = "poll"
  /\ link = "open"
  /\ accepted[Wanted[handling.kind]] = opened[Wanted[handling.kind]]
  /\ Answer(handling.to, None)
  /\ handling' = None
  /\ pc' = "top"
  /\ UNCHANGED <<bevy, flags, cmds, buffered, disconnect, quic, owned>>

PollEnded ==
  /\ pc = "poll"
  /\ link = "ended"
  /\ Answer(handling.to, None)
  /\ handling' = None
  /\ pc' = "top"
  /\ UNCHANGED <<bevy, flags, cmds, buffered, disconnect, quic, owned>>

PollError ==
  /\ pc = "poll"
  /\ link \in {"closed", "reset"}
  /\ Fail(handling.to)
  /\ NoteClosed
  /\ RecordError
  /\ handling' = None
  /\ pc' = "top"
  /\ UNCHANGED <<bevy, pending, cmds, buffered, quic, owned>>

Queued == {cmds[i].to : i \in DOMAIN cmds} \ {None}

(* start() returns: the command receiver goes, with every oneshot sender that
   is still in the channel, and so does the buffered stream. *)
Exit ==
  /\ pc = "top" /\ disconnect # "none"
  /\ pc' = "dropped"
  /\ cmds' = <<>>
  /\ attempt' = [a \in Attempts |->
                   IF a \in Queued
                   THEN IF attempt[a] = "queued" THEN "closed" ELSE "free"
                   ELSE attempt[a]]
  /\ buffered' = None
  /\ lost' = lost \cup ({buffered} \ {None})
  /\ UNCHANGED <<bevy, flags, carried, handling, disconnect, quic, owned>>

(* The runtime marks the JoinHandle finished. *)
Finish ==
  /\ pc = "dropped"
  /\ pc' = "finished"
  /\ UNCHANGED <<bevy, flags, cmds, oneshots, handling, buffered, disconnect, quic, owned>>

-----------------------------------------------------------------------------
(* The peer and the network, seen through s2n-quic.                         *)

PeerOpens(k) ==
  /\ link = "open" /\ opened[k] < MaxOpened
  /\ opened' = [opened EXCEPT ![k] = @ + 1]
  /\ UNCHANGED <<bevy, flags, cmds, oneshots, task, link, accepted, owned>>

(* The connection ends: without an error (ended), with one that is_closed()
   recognises (closed), or with another one, a stateless reset for example. *)
LinkDown(how) ==
  /\ link = "open"
  /\ link' = how
  /\ UNCHANGED <<bevy, flags, cmds, oneshots, task, opened, accepted, owned>>

-----------------------------------------------------------------------------
User == \/ \E kind \in AcceptCalls : UserAccept(kind)
        \/ StartClose \/ DropConnection
        \/ \E a \in Attempts : DropAttempt(a)

Plugins == \/ AcceptorPoll \/ HandleDisconnection
           \/ \E a \in Attempts : Resolve(a)

FinishCall == SendAccept \/ SendClose

TaskStep == \/ LoopTop \/ HandleAccept \/ HandleAcceptBuffered \/ StartPoll
            \/ HandleClose \/ CommandsClosed
            \/ (\E k \in Kinds : IncomingStream(k)) \/ IncomingEnd \/ IncomingError
            \/ PollStream \/ PollTimeout \/ PollEnded \/ PollError
            \/ Exit \/ Finish

Peer == \/ \E k \in Kinds : PeerOpens(k)
        \/ \E how \in {"ended", "closed", "reset"} : LinkDown(how)

Next == User \/ Plugins \/ FinishCall \/ TaskStep \/ Peer

Spec == Init /\ [][Next]_vars

(* The runtime polls a task that can make progress, a call runs to its end,
   and Bevy runs every plugin system in every frame.  Nothing is assumed of
   the application or of the peer. *)
Fairness == /\ WF_vars(TaskStep) /\ WF_vars(FinishCall)
            /\ \A a \in Attempts : WF_vars(Resolve(a))
            /\ WF_vars(AcceptorPoll) /\ WF_vars(HandleDisconnection)

FairSpec == Spec /\ Fairness

-----------------------------------------------------------------------------
(* Safety.                                                                  *)

Buffered == {buffered} \ {None}
Carried == {carried[a] : a \in Attempts} \ {None}
Taken == {s \in Streams : s[2] <= accepted[s[1]]}

(* A stream the task took from s2n-quic is in exactly one place: in the
   task's buffer, in the channel of exactly one attempt, on an entity, or
   closed.  No interleaving of polls, answers, dropped attempts and the task's
   exit duplicates a stream, hands it to two attempts or leaks it. *)
EveryStreamAccountedFor ==
  /\ Taken = Buffered \cup Carried \cup owned \cup lost
  /\ Buffered \cap (Carried \cup owned \cup lost) = {}
  /\ Carried \cap (owned \cup lost) = {}
  /\ owned \cap lost = {}
  /\ \A a, b \in Attempts : carried[a] = carried[b] /\ carried[a] # None => a = b

(* No wake-up is lost: while the task sleeps on its command channel with a
   stream in the buffer, and no command is on its way, should_poll_accept's
   flag is up.  The accept functions clear the flag before they send, may fail
   to send, and the task's answer may leave the buffer as it was. *)
BufferedIsAnnounced ==
  (pc = "recv" /\ cmds = <<>> /\ call \notin AcceptCalls) => pending

(* The Disconnected event is triggered once, and only for a task that is done
   with every attempt: none waits for an answer that nobody will give. *)
DisconnectedOnce ==
  /\ events <= 1
  /\ events = 1 => \A a \in Attempts : attempt[a] \notin {"queued", "orphan"}

(* is_open() does not come back to life, and a connection that is not open
   hands no stream to an attempt. *)
ClosedStaysClosed ==
  [][~IsOpen => /\ ~IsOpen'
                /\ \A a \in Attempts : carried'[a] \in {carried[a], None}]_vars

(* The accept side implements StreamHandoff: a buffered stream is one that has
   not left the peer's queue yet, so a poll for one kind must never overtake
   a buffered stream of that kind. *)
InBuffer(k) == buffered # None /\ buffered[1] = k

(* Streams of each kind that the task has handed on. *)
Passed == [k \in Kinds |-> IF InBuffer(k) THEN accepted[k] - 1 ELSE accepted[k]]

Handoff == INSTANCE StreamHandoff WITH taken <- Passed, offered <- Carried

HandoffSpec == Handoff!Spec

-----------------------------------------------------------------------------
(* Liveness, under FairSpec.                                                *)

(* With the acceptor plugin and an application that leaves the connection
   alone, every stream the peer opens is taken off the connection and reaches
   an entity, unless the connection goes down. *)
PeerStreamDelivered ==
  \A s \in Streams : s[2] <= opened[s[1]] ~> s \in owned \/ link # "open"

(* With the acceptor plugin the end of the connection is noticed, even by a
   task that sleeps on its command channel with a stream buffered: the event
   fires and the component goes. *)
ShutdownNoticed == link # "open" ~> component = "removed" /\ events = 1

(* close() takes effect, through the queue or around it. *)
CloseTakesEffect == call = "Close" ~> link # "open"

(* A task whose component is dropped runs to its end. *)
DropEndsTask == component = "removed" ~> pc = "finished"

(* The task answers every command or drops it: it is never stuck on a peer
   that opens no stream of the kind asked for. *)
AttemptsAnswered == \A a \in Attempts : attempt[a] = "queued" ~> attempt[a] # "queued"

-----------------------------------------------------------------------------
(* A statement of the source that the code does not live up to.             *)

(* stream/mod.rs: attempts "are all handled internally", a failure included.
   So an accept attempt that nobody drops comes to its end. *)
AttemptsSettle == \A a \in Attempts : attempt[a] = "queued" ~> attempt[a] = "free"
=============================================================================
