--------------------------- MODULE ReceiveStream ---------------------------
(***************************************************************************)
(* One QuicReceiveStream with its Aeronet session on the Bevy side, the    *)
(* RecTask it spawned, the inbound and control channels between them, and  *)
(* the s2n-quic receive stream underneath (external).  Packets are         *)
(* numbered in the order in which the peer sends them.                     *)
(*                                                                         *)
(* A frame of the Bevy app is PreUpdate, where aeronet_session_recv runs   *)
(* and may block, then Update, with the application's systems and the      *)
(* disconnect handler.  The task is split at its awaits and at each        *)
(* try_send.  The channel of logged errors is left out.                    *)
(***************************************************************************)
EXTENDS Naturals, Sequences, FiniteSets, Functions

CONSTANTS
  MaxPackets,   (* bound: packets the peer sends                            *)
  InboundSize,  (* INBOUND_CHANNEL_SIZE                                     *)
  ControlSize,  (* CONTROL_CHANNEL_SIZE                                     *)
  BatchSize,    (* INBOUND_BUFF_SIZE                                        *)
  TransferLimit,(* MAX_PACKET_TRANSFER                                      *)
  UserOps       (* what the application does: "Stop", "Despawn"             *)

ASSUME SizesAssumption ==
  /\ MaxPackets \in Nat
  /\ {InboundSize, ControlSize, BatchSize, TransferLimit} \subseteq Nat \ {0}
  /\ UserOps \subseteq {"Stop", "Despawn"}

VARIABLES
  component,    (* the QuicReceiveStream component: "live" or "removed"     *)
  phase,        (* the schedule the frame is in                             *)
  stopping,     (* a stop_send call is in progress                          *)
  session,      (* all that Session::recv was ever given                    *)
  inbound,      (* the data channel                                         *)
  control,      (* the control channel, which carries StopSend only: length *)
  pc,           (* where the task is                                        *)
  batch,        (* read_buf, less what was transferred                      *)
  fin,          (* receive_vectored said the stream is no longer open       *)
  disconnect,   (* RecTask::disconnect_flag                                 *)
  dropped,      (* packets a full channel gave back                         *)
  stream,       (* s2n-quic: the state of the receive stream                *)
  arrived,      (* s2n-quic: packets the peer has sent                      *)
  read          (* s2n-quic: packets the task has taken                     *)

bevy == <<component, phase, stopping, session>>
task == <<pc, batch, fin, disconnect, dropped>>
quic == <<stream, arrived, read>>
vars == <<bevy, inbound, control, task, quic>>

Packets == 1 .. MaxPackets
Failures == [reset |-> "Reset", invalid |-> "InvalidStream", dead |-> "ConnectionError"]
Reasons == Range(Failures) \cup {"PeerClosed", "UserClosed", "MspcChannelClosed"}

TypeOK ==
  /\ component \in {"live", "removed"}
  /\ phase \in {"PreUpdate", "Update"}
  /\ stopping \in BOOLEAN /\ fin \in BOOLEAN
  /\ session \in Seq(Packets) /\ batch \in Seq(Packets)
  /\ inbound \in Seq(Packets) /\ Len(inbound) <= InboundSize
  /\ control \in 0 .. ControlSize
  /\ pc \in {"select", "transfer", "check", "drain", "finished"}
  /\ disconnect \in Reasons \cup {"none"}
  /\ dropped \subseteq Packets
  /\ stream \in DOMAIN Failures \cup {"open", "ended"}
  /\ arrived \in 0 .. MaxPackets /\ read \in 0 .. arrived

Init ==
  /\ component = "live" /\ phase = "PreUpdate"
  /\ stopping = FALSE /\ session = <<>>
  /\ inbound = <<>> /\ control = 0
  /\ pc = "select" /\ batch = <<>> /\ fin = FALSE
  /\ disconnect = "none" /\ dropped = {}
  /\ stream = "open" /\ arrived = 0 /\ read = 0

-----------------------------------------------------------------------------
(* The Bevy side.                                                           *)

First(n, q) == SubSeq(q, 1, IF Len(q) < n THEN Len(q) ELSE n)

(* Variant of Rest: the packet after the last one taken is skipped. *)
RestSkipsOne(n, q) == SubSeq(q, n + 2, Len(q))

Rest(n, q) == SubSeq(q, n + 1, Len(q))

(* Variant of SessionRecv: the buffers are swapped even if the session still
   holds packets. *)
SessionRecvSwaps ==
  /\ component = "live" /\ phase = "PreUpdate" /\ inbound # <<>>
  /\ session' = First(TransferLimit, inbound)
  /\ inbound' = Rest(TransferLimit, inbound)
  /\ phase' = "Update"
  /\ UNCHANGED <<component, stopping, control, task, quic>>

(* aeronet_session_recv: recv_many blocks the frame until the channel holds a
   packet, and the batch goes behind what the session already holds. *)
SessionRecv ==
  /\ component = "live" /\ phase = "PreUpdate" /\ inbound # <<>>
  /\ session' = session \o First(TransferLimit, inbound)
  /\ inbound' = Rest(TransferLimit, inbound)
  /\ phase' = "Update"
  /\ UNCHANGED <<component, stopping, control, task, quic>>

(* Variant of SessionRecvClosed: the component holds a sender of its own
   channel, which therefore never closes. *)
SessionRecvNeverCloses == FALSE /\ UNCHANGED vars

(* recv_many returns 0: the task is gone and its packets are read. *)
SessionRecvClosed ==
  /\ component = "live" /\ phase = "PreUpdate" /\ inbound = <<>> /\ pc = "finished"
  /\ phase' = "Update"
  /\ UNCHANGED <<component, stopping, session, inbound, control, task, quic>>

Updating == component = "live" /\ phase = "Update" /\ ~stopping

(* stop_send, for one from the Disconnect observer, blocks the calling system
   until the control channel has room or its receiver is gone. *)
StartStop ==
  /\ "Stop" \in UserOps /\ Updating
  /\ stopping' = TRUE
  /\ UNCHANGED <<component, phase, session, inbound, control, task, quic>>

SendStop ==
  /\ stopping
  /\ \/ pc # "finished" /\ control < ControlSize /\ control' = control + 1
     \/ pc = "finished" /\ UNCHANGED control
  /\ stopping' = FALSE
  /\ UNCHANGED <<component, phase, session, inbound, task, quic>>

(* The entity goes, with what its channel holds. *)
Remove ==
  /\ component' = "removed"
  /\ inbound' = <<>>
  /\ UNCHANGED <<phase, stopping, session, control, task, quic>>

(* The application, or the end of the stream's other half, despawns it. *)
Despawn == "Despawn" \in UserOps /\ Updating /\ Remove

HandleDisconnection == Updating /\ pc = "finished" /\ Remove

(* get_disconnect_reason is None; the frame ends and the next one begins. *)
NextFrame ==
  /\ Updating /\ pc # "finished"
  /\ phase' = "PreUpdate"
  /\ UNCHANGED <<component, stopping, session, inbound, control, task, quic>>

-----------------------------------------------------------------------------
(* RecTask::start.                                                          *)

(* receive_vectored, the first branch of the biased select, has a result. *)
ReceiveReady == stream # "open" \/ read < arrived

Unread == arrived - read

(* A batch of what is waiting.  The end of the stream is reported with the
   last packets, or by itself. *)
ReceiveBatch ==
  /\ pc = "select" /\ ReceiveReady /\ stream \in {"open", "ended"}
  /\ \E n \in 0 .. BatchSize, end \in BOOLEAN :
       /\ n <= Unread
       /\ end => stream = "ended" /\ n = Unread
       /\ n = 0 => end
       /\ batch' = [i \in 1 .. n |-> read + i]
       /\ read' = read + n
       /\ fin' = end
  /\ pc' = "transfer"
  /\ UNCHANGED <<bevy, inbound, control, disconnect, dropped, stream, arrived>>

(* Variant of InboundFull: one packet too many. *)
InboundFullOffByOne == Len(inbound) > InboundSize

InboundFull == Len(inbound) = InboundSize

(* Variant of Transfer: a full channel is taken for a closed one. *)
TransferFullCloses(p) ==
  IF component = "removed" \/ InboundFull
  THEN disconnect' = "MspcChannelClosed" /\ UNCHANGED <<inbound, dropped>>
  ELSE inbound' = Append(inbound, p) /\ UNCHANGED <<dropped, disconnect>>

(* transfer_payload_data *)
Transfer(p) ==
  IF component = "removed"
  THEN disconnect' = "MspcChannelClosed" /\ UNCHANGED <<inbound, dropped>>
  ELSE /\ IF InboundFull
          THEN dropped' = dropped \cup {p} /\ UNCHANGED inbound
          ELSE inbound' = Append(inbound, p) /\ UNCHANGED dropped
       /\ UNCHANGED disconnect

TransferNext ==
  /\ pc = "transfer" /\ batch # <<>>
  /\ Transfer(Head(batch))
  /\ batch' = Tail(batch)
  /\ UNCHANGED <<bevy, control, pc, fin, quic>>

TransferDone ==
  /\ pc = "transfer" /\ batch = <<>>
  /\ disconnect' = IF fin THEN "PeerClosed" ELSE disconnect
  /\ pc' = "check" /\ fin' = FALSE
  /\ UNCHANGED <<bevy, inbound, control, batch, dropped, quic>>

(* Variant of ReceiveError: the error is only logged. *)
ReceiveErrorOnlyLogs ==
  /\ pc = "select" /\ stream \in DOMAIN Failures
  /\ pc' = "check"
  /\ UNCHANGED <<bevy, inbound, control, batch, fin, disconnect, dropped, quic>>

(* The errors that a read can meet.  The others of s2n-quic's stream errors,
   which the code only logs, are of a write or of a buffer that is not empty. *)
ReceiveError ==
  /\ pc = "select" /\ stream \in DOMAIN Failures
  /\ disconnect' = Failures[stream]
  /\ pc' = "check"
  /\ UNCHANGED <<bevy, inbound, control, batch, fin, dropped, quic>>

(* Variant of TakeStop: the peer is told to stop, the task is not. *)
TakeStopForgetsFlag ==
  /\ pc = "select" /\ ~ReceiveReady /\ control > 0
  /\ control' = control - 1
  /\ pc' = "check"
  /\ UNCHANGED <<bevy, inbound, batch, fin, disconnect, dropped, quic>>

(* stop_sending, whose error is only logged. *)
TakeStop ==
  /\ pc = "select" /\ ~ReceiveReady /\ control > 0
  /\ control' = control - 1
  /\ disconnect' = "UserClosed"
  /\ pc' = "check"
  /\ UNCHANGED <<bevy, inbound, batch, fin, dropped, quic>>

(* Variant of ControlClosed: None is taken for a spurious wake-up. *)
ControlClosedIgnored ==
  /\ pc = "select" /\ ~ReceiveReady /\ control = 0 /\ component = "removed"
  /\ pc' = "check"
  /\ UNCHANGED <<bevy, inbound, control, batch, fin, disconnect, dropped, quic>>

(* Every sender of the control channel is gone. *)
ControlClosed ==
  /\ pc = "select" /\ ~ReceiveReady /\ control = 0 /\ component = "removed"
  /\ disconnect' = "MspcChannelClosed"
  /\ pc' = "check"
  /\ UNCHANGED <<bevy, inbound, control, batch, fin, dropped, quic>>

(* The end of the loop body, and the stop_sending after the loop. *)
Check ==
  /\ pc = "check"
  /\ pc' = IF disconnect = "none" THEN "select" ELSE "drain"
  /\ UNCHANGED <<bevy, inbound, control, batch, fin, disconnect, dropped, quic>>

(* receive() may still hand out what has arrived. *)
DrainPacket ==
  /\ pc = "drain" /\ stream \in {"open", "ended"} /\ read < arrived
  /\ Transfer(read + 1)
  /\ read' = read + 1
  /\ UNCHANGED <<bevy, control, pc, batch, fin, stream, arrived>>

(* receive() returns None or an error, and the task its reason. *)
DrainEnd ==
  /\ pc = "drain"
  /\ pc' = "finished"
  /\ control' = 0
  /\ UNCHANGED <<bevy, inbound, batch, fin, disconnect, dropped, quic>>

-----------------------------------------------------------------------------
(* The peer and the network, seen through s2n-quic.                         *)

PeerSends ==
  /\ stream = "open" /\ arrived < MaxPackets
  /\ arrived' = arrived + 1
  /\ UNCHANGED <<bevy, inbound, control, task, stream, read>>

(* The peer finishes or resets the stream, or the connection goes down. *)
StreamEnds(how) ==
  /\ stream = "open"
  /\ stream' = how
  /\ UNCHANGED <<bevy, inbound, control, task, arrived, read>>

User == StartStop \/ Despawn
Calls == SessionRecv \/ SessionRecvClosed \/ SendStop
EndFrame == HandleDisconnection \/ NextFrame
TaskStep == \/ ReceiveBatch \/ TransferNext \/ TransferDone \/ ReceiveError
            \/ TakeStop \/ ControlClosed \/ Check \/ DrainPacket \/ DrainEnd
Peer == PeerSends \/ \E how \in DOMAIN Failures \cup {"ended"} : StreamEnds(how)

Next == User \/ Calls \/ EndFrame \/ TaskStep \/ Peer

Spec == Init /\ [][Next]_vars

(* A blocked call goes on when it can, the application makes only so many calls
   in a frame, and the runtime polls the task.  MaxPackets makes the peer fall
   silent in the end: without that the biased select might never get to the
   control channel.  Of s2n-quic it is assumed that receive() returns, with an
   error if nothing else, once the stream was told to stop. *)
FairSpec == Spec /\ WF_vars(Calls) /\ SF_vars(EndFrame) /\ WF_vars(TaskStep)

-----------------------------------------------------------------------------
Delivered == session \o inbound \o batch

Increasing(s) == \A i, j \in DOMAIN s : i < j => s[i] < s[j]

(* While the component lives every packet the task has read is in one place,
   and the application reads them in order.  A packet is dropped only behind
   InboundSize packets that were kept. *)
PacketsConserved ==
  component = "live" =>
     /\ Increasing(Delivered)
     /\ Range(Delivered) \cup dropped = 1 .. read
     /\ Range(Delivered) \cap dropped = {}
     /\ \A p \in dropped : Cardinality((1 .. p) \ dropped) >= InboundSize

(* The stream is a pipe from the peer to the session, which keeps InboundSize
   packets in any case.  It is cut when the stream fails, the component goes or
   the task ends; what the channel holds at the end of the task is still there
   for the session. *)
Unreceived ==
  IF stream \in DOMAIN Failures \/ pc = "finished" THEN <<>>
  ELSE [i \in 1 .. Unread |-> read + i]

Pipe == INSTANCE PacketPipe WITH
  Capacity <- InboundSize, offered <- arrived, delivered <- session,
  queue <- IF component = "removed" THEN <<>> ELSE inbound \o batch \o Unreceived,
  cut <- component = "removed" \/ stream \in DOMAIN Failures \/ pc = "finished"

(* The session is given what the peer sent in order, each packet at most once,
   and without a gap but for the packets that a full channel gave back. *)
PipeSpec == Pipe!Spec

(* The reason given for the end is the true one: the peer closed means that
   all of what it sent has been read, a closed channel that the component is
   gone, and a failure is the one that the stream met. *)
ReasonIsTrue ==
  /\ disconnect = "PeerClosed" => stream = "ended" /\ read = arrived /\ batch = <<>>
  /\ disconnect = "MspcChannelClosed" => component = "removed"
  /\ \A f \in DOMAIN Failures : disconnect = Failures[f] => stream = f

(* The end of the stream is noticed and the entity despawned, even while a
   frame is blocked on the stream's data. *)
EndNoticed == stream # "open" ~> component = "removed"

(* A frame that waits for the stream goes on once the peer sends something or
   ends the stream. *)
FrameReleased ==
  component = "live" /\ phase = "PreUpdate" /\ ReceiveReady
    ~> phase = "Update" \/ component = "removed"

(* stop_send comes back, and ends the task of a peer that falls silent. *)
StopEndsTask == stopping ~> ~stopping /\ pc = "finished"

(* A despawned stream ends its task when its peer falls silent. *)
DespawnEndsTask == component = "removed" ~> pc = "finished"

(* A packet that was sent on a stream that did not fail reaches the session or
   a full channel, unless the application stops or loses the stream first. *)
PacketsArrive ==
  \A p \in Packets :
    arrived >= p ~> \/ p \in Range(session) \cup dropped
                    \/ stream \in DOMAIN Failures
                    \/ component = "removed" \/ disconnect = "UserClosed"

(* INBOUND_CHANNEL_SIZE: so many messages "can sit between async and bevy
   before being dropped".  So an application that neither stops nor despawns
   the stream is given all that was read, but for what did not fit. *)
DroppedOnlyWhenFull ==
  Cardinality(Range(Delivered)) + Cardinality(dropped) = read
=============================================================================
