----------------------------- MODULE SendStream -----------------------------
(***************************************************************************)
(* One QuicSendStream: the component and its Aeronet session on the Bevy   *)
(* side, the SendTask it spawned, the outbound and control channels        *)
(* between them, and the s2n-quic send stream underneath (external).       *)
(* Packets are numbered in the order in which the application pushes them. *)
(*                                                                         *)
(* A call of a Bevy system is split at each of its channel operations, the *)
(* task at its awaits.  The channel of logged errors is left out.          *)
(***************************************************************************)
EXTENDS Naturals, Sequences

CONSTANTS
  MaxPackets,   (* bound: packets the application pushes                    *)
  OutboundSize, (* OUTBOUND_CHANNEL_SIZE                                    *)
  ControlSize,  (* CONTROL_CHANNEL_SIZE                                     *)
  BatchSize     (* MAX_OUTBOUND_BUF_SIZE                                    *)

ASSUME SizesAssumption ==
  /\ MaxPackets \in Nat
  /\ {OutboundSize, ControlSize, BatchSize} \subseteq Nat \ {0}

VARIABLES
  component,    (* the QuicSendStream component: "live" or "removed"        *)
  call,         (* the call in progress: "Drain", "Close", "Flush" or none  *)
  pushed,       (* packets the application has pushed so far                *)
  backlog,      (* Session::send                                            *)
  sent,         (* send_many_drain's sent_count                             *)
  outbound,     (* the data channel                                         *)
  control,      (* the control channel                                      *)
  pc,           (* where the task is                                        *)
  batch,        (* send_buf, less what s2n-quic has taken of it             *)
  disconnect,   (* SendTask::disconnect_flag                                *)
  stream,       (* s2n-quic: the state of the send stream                   *)
  wire          (* s2n-quic: the packets it has taken for the peer          *)

bevy == <<component, call, pushed, backlog, sent>>
task == <<pc, batch, disconnect>>
quic == <<stream, wire>>
vars == <<bevy, outbound, control, task, quic>>

Packets == 1 .. MaxPackets
Reasons == {"MspcChannelClosed", "InvalidStream", "Reset", "UserClosed"}

TypeOK ==
  /\ component \in {"live", "removed"}
  /\ call \in {"none", "Drain", "Close", "Flush"}
  /\ pushed \in 0 .. MaxPackets /\ sent \in 0 .. Len(backlog)
  /\ backlog \in Seq(Packets) /\ batch \in Seq(Packets) /\ wire \in Seq(Packets)
  /\ outbound \in Seq(Packets) /\ Len(outbound) <= OutboundSize
  /\ control \in Seq({"Close", "Flush"}) /\ Len(control) <= ControlSize
  /\ pc \in {"select", "write", "close", "flush", "check", "finished"}
  /\ disconnect \in Reasons \cup {"none"}
  /\ stream \in {"open", "closed", "reset", "invalid", "dead"}

Init ==
  /\ component = "live" /\ call = "none" /\ pushed = 0
  /\ backlog = <<>> /\ sent = 0
  /\ outbound = <<>> /\ control = <<>>
  /\ pc = "select" /\ batch = <<>> /\ disconnect = "none"
  /\ stream = "open" /\ wire = <<>>

-----------------------------------------------------------------------------
(* The Bevy side.                                                           *)

Idle == component = "live" /\ call = "none"
ReceiverAlive == pc # "finished"

(* The application leaves a packet in its session. *)
Push ==
  /\ Idle /\ pushed < MaxPackets
  /\ pushed' = pushed + 1
  /\ backlog' = Append(backlog, pushed + 1)
  /\ UNCHANGED <<component, call, sent, outbound, control, task, quic>>

(* aeronet_session_send calls send_many_drain, in every frame. *)
StartDrain ==
  /\ Idle /\ backlog # <<>>
  /\ call' = "Drain" /\ sent' = 0
  /\ UNCHANGED <<component, pushed, backlog, outbound, control, task, quic>>

(* Variant of CanSend: an unbounded channel. *)
CanSendUnbounded == ReceiverAlive

CanSend == ReceiverAlive /\ Len(outbound) < OutboundSize

(* try_send of the next item. *)
DrainItem ==
  /\ call = "Drain" /\ sent < Len(backlog) /\ CanSend
  /\ outbound' = Append(outbound, backlog[sent + 1])
  /\ sent' = sent + 1
  /\ UNCHANGED <<component, call, pushed, backlog, control, task, quic>>

(* Variant of Unsent: a loop that counts the item it failed on. *)
UnsentOffByOne ==
  SubSeq(backlog, IF sent < Len(backlog) THEN sent + 2 ELSE sent + 1, Len(backlog))

(* drain(..sent_count) *)
Unsent == SubSeq(backlog, sent + 1, Len(backlog))

(* The channel is full or closed, or the items are all sent. *)
FinishDrain ==
  /\ call = "Drain" /\ (sent = Len(backlog) \/ ~CanSend)
  /\ backlog' = Unsent
  /\ call' = "none" /\ sent' = 0
  /\ UNCHANGED <<component, pushed, outbound, control, task, quic>>

(* close() and flush() block the calling system until the control channel has
   room or its receiver is gone. *)
StartControl(cmd) ==
  /\ Idle
  /\ call' = cmd
  /\ UNCHANGED <<component, pushed, backlog, sent, outbound, control, task, quic>>

(* Variant of SendControl: it waits for room, even if the task is gone. *)
SendControlWaits ==
  /\ call \in {"Close", "Flush"}
  /\ ReceiverAlive /\ Len(control) < ControlSize
  /\ control' = Append(control, call)
  /\ call' = "none"
  /\ UNCHANGED <<component, pushed, backlog, sent, outbound, task, quic>>

SendControl ==
  /\ call \in {"Close", "Flush"}
  /\ \/ /\ ReceiverAlive /\ Len(control) < ControlSize
        /\ control' = Append(control, call)
     \/ /\ ~ReceiverAlive
        /\ UNCHANGED control
  /\ call' = "none"
  /\ UNCHANGED <<component, pushed, backlog, sent, outbound, task, quic>>

(* The entity is despawned, and its session with it: by the application, by
   the disconnection of the stream's other half, or because this task has
   finished. *)
Despawn ==
  /\ Idle
  /\ component' = "removed" /\ backlog' = <<>>
  /\ UNCHANGED <<call, pushed, sent, outbound, control, task, quic>>

HandleDisconnection == pc = "finished" /\ Despawn

-----------------------------------------------------------------------------
(* SendTask::start.                                                         *)

SendersGone == component = "removed"

Taken == IF Len(outbound) < BatchSize THEN Len(outbound) ELSE BatchSize

(* Variant of TakeBatch: what does not fit in the batch is discarded. *)
TakeBatchDropsRest ==
  /\ pc = "select" /\ outbound # <<>>
  /\ batch' = SubSeq(outbound, 1, Taken)
  /\ outbound' = <<>>
  /\ pc' = "write"
  /\ UNCHANGED <<bevy, control, disconnect, quic>>

(* recv_many *)
TakeBatch ==
  /\ pc = "select" /\ outbound # <<>>
  /\ batch' = SubSeq(outbound, 1, Taken)
  /\ outbound' = SubSeq(outbound, Taken + 1, Len(outbound))
  /\ pc' = "write"
  /\ UNCHANGED <<bevy, control, disconnect, quic>>

(* recv_many returned 0; the empty batch is still sent. *)
OutboundClosed ==
  /\ pc = "select" /\ outbound = <<>> /\ SendersGone
  /\ disconnect' = "MspcChannelClosed"
  /\ pc' = "write"
  /\ UNCHANGED <<bevy, outbound, control, batch, quic>>

(* s2n-quic takes the next packet of the batch. *)
WritePacket ==
  /\ pc = "write" /\ batch # <<>> /\ stream = "open"
  /\ wire' = Append(wire, Head(batch))
  /\ batch' = Tail(batch)
  /\ UNCHANGED <<bevy, outbound, control, pc, disconnect, stream>>

WriteDone ==
  /\ pc = "write" /\ batch = <<>>
  /\ pc' = "check"
  /\ UNCHANGED <<bevy, outbound, control, batch, disconnect, quic>>

(* Variant of ReasonOf: every other error is taken for InvalidStream. *)
ReasonOfLumps(status) == IF status = "reset" THEN "Reset" ELSE "InvalidStream"

(* Variant of ReasonOf: an invalid stream is only logged, too. *)
ReasonOfReset(status) == IF status = "reset" THEN "Reset" ELSE disconnect

(* What an error of send_vectored means for the task: an error it does not
   list, the connection's own for one, is only logged. *)
ReasonOf(status) ==
  CASE status = "reset" -> "Reset"
    [] status \in {"invalid", "closed"} -> "InvalidStream"
    [] OTHER -> disconnect

(* send_buf is cleared whatever the result. *)
WriteError ==
  /\ pc = "write" /\ stream # "open"
  /\ batch' = <<>>
  /\ disconnect' = ReasonOf(stream)
  /\ pc' = "check"
  /\ UNCHANGED <<bevy, outbound, control, quic>>

TakeControl ==
  /\ pc = "select" /\ control # <<>>
  /\ pc' = IF Head(control) = "Close" THEN "close" ELSE "flush"
  /\ control' = Tail(control)
  /\ UNCHANGED <<bevy, outbound, batch, disconnect, quic>>

ControlClosed ==
  /\ pc = "select" /\ control = <<>> /\ SendersGone
  /\ disconnect' = "MspcChannelClosed"
  /\ pc' = "check"
  /\ UNCHANGED <<bevy, outbound, control, batch, quic>>

(* Variant of CloseSucceeds: the task goes on after the close. *)
CloseSucceedsNoQuit ==
  /\ pc = "close" /\ stream = "open"
  /\ stream' = "closed" /\ pc' = "check"
  /\ UNCHANGED <<bevy, outbound, control, batch, disconnect, wire>>

(* close().await returned: all the stream has taken is with the peer. *)
CloseSucceeds ==
  /\ pc = "close" /\ stream = "open"
  /\ stream' = "closed"
  /\ disconnect' = "UserClosed" /\ pc' = "check"
  /\ UNCHANGED <<bevy, outbound, control, batch, wire>>

(* Variant of CloseFails: the error of the close is only logged. *)
CloseFailsOnlyLogs ==
  /\ pc = "close" /\ stream # "open"
  /\ pc' = "check"
  /\ UNCHANGED <<bevy, outbound, control, batch, disconnect, quic>>

CloseFails ==
  /\ pc = "close" /\ stream # "open"
  /\ disconnect' = "UserClosed" /\ pc' = "check"
  /\ UNCHANGED <<bevy, outbound, control, batch, quic>>

(* flush().await returned, with or without an error. *)
FlushDone ==
  /\ pc = "flush"
  /\ pc' = "check"
  /\ UNCHANGED <<bevy, outbound, control, batch, disconnect, quic>>

(* Variant of Check: only a close breaks the loop. *)
CheckUserClosedOnly ==
  /\ pc = "check"
  /\ \/ /\ disconnect # "UserClosed"
        /\ pc' = "select"
        /\ UNCHANGED <<outbound, control>>
     \/ /\ disconnect = "UserClosed"
        /\ pc' = "finished"
        /\ outbound' = <<>> /\ control' = <<>>
  /\ UNCHANGED <<bevy, batch, disconnect, quic>>

(* The end of the loop body.  Once the task returns, its channels are gone
   with what they held. *)
Check ==
  /\ pc = "check"
  /\ \/ /\ disconnect = "none"
        /\ pc' = "select"
        /\ UNCHANGED <<outbound, control>>
     \/ /\ disconnect # "none"
        /\ pc' = "finished"
        /\ outbound' = <<>> /\ control' = <<>>
  /\ UNCHANGED <<bevy, batch, disconnect, quic>>

-----------------------------------------------------------------------------
(* The peer resets the stream, or the connection goes down under it. *)
StreamFails(how) ==
  /\ stream = "open"
  /\ stream' = how
  /\ UNCHANGED <<bevy, outbound, control, task, wire>>

User == Push \/ StartControl("Close") \/ StartControl("Flush") \/ Despawn
Calls == DrainItem \/ FinishDrain \/ SendControl
Writing == WritePacket \/ WriteDone \/ WriteError
SelectControl == TakeControl \/ ControlClosed
SelectOutbound == TakeBatch \/ OutboundClosed
TaskStep == \/ SelectOutbound \/ SelectControl \/ Writing
            \/ CloseSucceeds \/ CloseFails \/ FlushDone \/ Check

Next == \/ User \/ Calls \/ StartDrain \/ HandleDisconnection \/ TaskStep
        \/ \E how \in {"reset", "invalid", "dead"} : StreamFails(how)

Spec == Init /\ [][Next]_vars

(* The task is in send_vectored, close or flush of an open stream: how long
   that takes is the peer's to say, which may give no credit and acknowledge
   nothing while it keeps the connection alive. *)
AwaitsPeer ==
  /\ stream = "open"
  /\ \/ pc = "write" /\ batch # <<>>
     \/ pc = "flush" /\ wire # <<>>
     \/ pc = "close"

(* The runtime polls the task, and select! without biased picks at random
   among the ready branches, so none is passed over for ever.  The peer and
   the network owe nothing, and the application need not act. *)
Fairness == /\ WF_vars(Calls) /\ WF_vars(~AwaitsPeer /\ TaskStep)
            /\ SF_vars(SelectControl) /\ SF_vars(SelectOutbound)
            /\ SF_vars(StartDrain) /\ WF_vars(HandleDisconnection)

FairSpec == Spec /\ Fairness

-----------------------------------------------------------------------------
(* The stream is a pipe from the application's pushes to s2n-quic: what is cut
   off is only the end of what was pushed.  The pipe is cut by the end of the
   stream, of its task or of its component; nothing else drops a packet. *)
Working == stream = "open" /\ pc # "finished"

Waiting == IF Working THEN batch \o outbound \o Unsent ELSE <<>>

Pipe == INSTANCE PacketPipe WITH
  Capacity <- MaxPackets, offered <- pushed, queue <- Waiting,
  delivered <- wire, cut <- ~Working \/ component = "removed"

(* The peer is given a gapless front of what the application pushed, each
   packet once and in order, whatever fails, fills up or is dropped. *)
PipeSpec == Pipe!Spec

(* "Send stream dropped {} messages" says how many: when a close ends the task,
   whether it succeeds or fails, the packets that s2n-quic does not have are
   exactly those that the task counts in its channel and those still in the
   session, even if a drain is in progress.  A connection that died is
   excepted: a write that fails with it throws its batch away uncounted. *)
LossIsCounted ==
  [][ (/\ pc # "finished" /\ pc' = "finished" /\ disconnect = "UserClosed"
       /\ component = "live" /\ stream # "dead")
      => wire \o outbound \o Unsent = [i \in 1 .. pushed |-> i] ]_vars

(* The reason given for the end is the true one: the channels close only
   because the component is gone, a reset is the peer's, and a stream closed
   by the user is finished or was beyond that. *)
ReasonIsTrue ==
  /\ disconnect = "MspcChannelClosed" => component = "removed"
  /\ disconnect = "Reset" => stream = "reset"
  /\ disconnect = "InvalidStream" => stream = "invalid"
  /\ disconnect = "UserClosed" => stream # "open"

(* Nothing follows the end of a stream that was closed in order: the task does
   not try to write after it, which would fail with SendAfterFinish. *)
NoSendAfterFinish == stream = "closed" => pc \in {"check", "finished"} /\ disconnect # "none"

(* close() takes effect even under steady traffic: the system that calls it
   comes back, and the task ends, unless the peer holds the task for ever. *)
CloseEndsTask ==
  call = "Close" ~> (call = "none" /\ pc = "finished") \/ []AwaitsPeer

(* A call of close or flush that blocks a system comes back, with a place in the
   channel or because the task is gone, unless the peer holds the task for ever. *)
CallReturns == call \in {"Close", "Flush"} ~> call = "none" \/ []AwaitsPeer

(* A despawned stream ends its task, unless the peer holds the task for ever:
   a task in send_vectored does not see that its channels are closed. *)
DespawnEndsTask == component = "removed" ~> pc = "finished" \/ []AwaitsPeer

(* What the application pushed reaches the stream, unless the stream fails or
   is closed or despawned first, or the peer holds the task for ever. *)
PushedIsWritten ==
  \A p \in Packets : pushed >= p ~> \/ p <= Len(wire) \/ stream # "open"
                                    \/ component = "removed" \/ disconnect # "none"
                                    \/ []AwaitsPeer

(* is_open: while the task runs "the stream should still be open, if not the
   task should finish on its own". *)
EndsWithStream == stream # "open" ~> pc = "finished"
=============================================================================
