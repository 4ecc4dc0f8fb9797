------------------------------ MODULE AppPipe -------------------------------
(***************************************************************************)
(* What an application can rely on, from session to session: one direction *)
(* of one stream among all those of AppFrame, seen as a PacketPipe.        *)
(***************************************************************************)
EXTENDS AppFrame

CONSTANT From   (* the end that sends: any end                              *)

ASSUME FromAssumption == From \in Ends

To == Peer[From]

(* A packet of another stream would have no place in the pipe: it is numbered
   0. *)
Numbers(packets) ==
  [i \in DOMAIN packets |-> IF packets[i][1] = From THEN packets[i][2] ELSE 0]

(* The end of the sending task, or of its entity, cuts the pipe before the
   wire, and that of the receiving one behind it. *)
CutIn == Ended(From, "send") \/ entity[From] = "gone"
CutOut == Ended(To, "rec") \/ entity[To] = "gone"
Cut == CutIn \/ CutOut

OnWire == IF CutOut THEN <<>> ELSE wire[From]
ToSend == IF Cut THEN <<>> ELSE backlog[From]
InPipe == inbound[To] \o OnWire \o ToSend

Pipe == INSTANCE PacketPipe WITH
  Capacity <- InboundSize, offered <- pushed[From], queue <- Numbers(InPipe),
  delivered <- Numbers(received[To]), cut <- Cut

(* End to end: what one application pushes into its session comes out of the
   other's session in order, each packet once and none of another entity's,
   but for those that a full inbound channel gave back; and the loss of a half
   or of an entity costs the end of the packets only. *)
EndToEnd == Pipe!Spec
=============================================================================
