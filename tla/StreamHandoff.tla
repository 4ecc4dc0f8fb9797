--------------------------- MODULE StreamHandoff ----------------------------
(***************************************************************************)
(* What the accept side of a QuicConnection promises an application about  *)
(* the streams its peer opens, with no queue, flag, oneshot channel or     *)
(* async task in it:                                                       *)
(*                                                                         *)
(*  - streams of one kind leave the peer's queue in the order in which the *)
(*    peer opened them, each at most once;                                 *)
(*  - a stream that left the queue is on its way to the application in     *)
(*    exactly one place, then the application owns it, or it is closed.    *)
(*                                                                         *)
(* ConnectionTask is shown to implement this specification.                *)
(***************************************************************************)
EXTENDS Naturals

CONSTANTS Kinds,       (* kinds of peer stream: PeerStream in s2n-quic      *)
          MaxOpened    (* streams of each kind the peer may open            *)

VARIABLES opened,      (* streams of each kind the peer has opened          *)
          taken,       (* streams of each kind that left the peer's queue   *)
          offered,     (* streams an attempt holds, not yet an entity's     *)
          owned,       (* streams that became components of an entity       *)
          lost         (* streams closed without ever reaching an entity    *)

vars == <<opened, taken, offered, owned, lost>>

Init == /\ opened = [k \in Kinds |-> 0]
        /\ taken  = [k \in Kinds |-> 0]
        /\ offered = {} /\ owned = {} /\ lost = {}

(* The peer opens its next stream of kind k. *)
Open(k) == /\ opened[k] < MaxOpened
           /\ opened' = [opened EXCEPT ![k] = @ + 1]
           /\ UNCHANGED <<taken, offered, owned, lost>>

(* The oldest waiting stream of kind k is offered to an attempt. *)
Offer(k) == /\ taken[k] < opened[k]
            /\ taken' = [taken EXCEPT ![k] = @ + 1]
            /\ offered' = offered \cup {<<k, taken[k] + 1>>}
            /\ UNCHANGED <<opened, owned, lost>>

(* The oldest waiting stream of kind k is closed instead: nobody is left to
   take it. *)
Discard(k) == /\ taken[k] < opened[k]
              /\ taken' = [taken EXCEPT ![k] = @ + 1]
              /\ lost' = lost \cup {<<k, taken[k] + 1>>}
              /\ UNCHANGED <<opened, offered, owned>>

(* An attempt resolves: its stream becomes a component of its entity. *)
Own(s) == /\ s \in offered
          /\ offered' = offered \ {s}
          /\ owned' = owned \cup {s}
          /\ UNCHANGED <<opened, taken, lost>>

(* An attempt is dropped with a stream in it, which is closed. *)
Abandon(s) == /\ s \in offered
              /\ offered' = offered \ {s}
              /\ lost' = lost \cup {s}
              /\ UNCHANGED <<opened, taken, owned>>

Next == \/ \E k \in Kinds : Open(k) \/ Offer(k) \/ Discard(k)
        \/ \E s \in offered : Own(s) \/ Abandon(s)

Spec == Init /\ [][Next]_vars
=============================================================================
