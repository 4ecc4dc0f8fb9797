----------------------------- MODULE PacketPipe -----------------------------
(***************************************************************************)
(* What every stage of a stream promises about the packets that are put    *)
(* into it, and what the stages promise together: they come out in order,  *)
(* each at most once; none is dropped before Capacity others wait in front *)
(* of it; and once the pipe is cut, what comes out is the front of what    *)
(* was in it.  Packets are numbered in the order in which they are put in. *)
(*                                                                         *)
(* SendStream and ReceiveStream implement it, and so does a stream from    *)
(* session to session, in AppPipe.                                         *)
(***************************************************************************)
EXTENDS Naturals, Sequences, SequencesExt

CONSTANT Capacity   (* the packets that are kept in any case               *)

VARIABLES
  offered,    (* packets put in so far                                      *)
  queue,      (* packets in the pipe                                        *)
  delivered,  (* packets taken out                                          *)
  cut         (* nothing that is put in arrives any more                    *)

pipe == <<offered, queue, delivered, cut>>

Init == offered = 0 /\ queue = <<>> /\ delivered = <<>> /\ cut = FALSE

Offer ==
  /\ offered' = offered + 1
  /\ queue' = IF cut THEN queue ELSE Append(queue, offered + 1)
  /\ UNCHANGED <<delivered, cut>>

Deliver(n) ==
  /\ delivered' = delivered \o SubSeq(queue, 1, n)
  /\ queue' = SubSeq(queue, n + 1, Len(queue))
  /\ UNCHANGED <<offered, cut>>

Drop(i) ==
  /\ i > Capacity
  /\ queue' = RemoveAt(queue, i)
  /\ UNCHANGED <<offered, delivered, cut>>

Cut(n) ==
  /\ cut' = TRUE
  /\ queue' = SubSeq(queue, 1, n)
  /\ UNCHANGED <<offered, delivered>>

Next == \/ Offer
        \/ \E n \in DOMAIN queue : Deliver(n) \/ Drop(n)
        \/ \E n \in 0 .. Len(queue) : Cut(n)

Spec == Init /\ [][Next]_pipe
=============================================================================
