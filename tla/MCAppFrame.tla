----------------------------- MODULE MCAppFrame -----------------------------
(***************************************************************************)
(* TLC instances of AppFrame: an app that is at one end of two streams,    *)
(* whose other ends are elsewhere, and two apps with a stream between them.*)
(***************************************************************************)
EXTENDS AppPipe, TLC

CONSTANTS e1, e2, r1, r2, a1, a2

(* One app, two streams: e1 opens the one, r2 the other. *)
OneApp == {a1}
FourEnds == {e1, e2, r1, r2}
FourHomes == (e1 :> a1) @@ (e2 :> a1) @@ (r1 :> Elsewhere) @@ (r2 :> Elsewhere)
FourPeers == (e1 :> r1) @@ (r1 :> e1) @@ (e2 :> r2) @@ (r2 :> e2)
FourOpeners == {e1, r2}
FourMax == (e1 :> 1) @@ (r1 :> 2) @@ (e2 :> 0) @@ (r2 :> 1)
FirstFails == {e1}

(* One app, one stream. *)
OneEnds == {e1, r1}
OneHomes == (e1 :> a1) @@ (r1 :> Elsewhere)
OnePeers == (e1 :> r1) @@ (r1 :> e1)
OneOpeners == {e1}
OneMax == (e1 :> 1) @@ (r1 :> 1)

(* Two apps, one stream between them. *)
TwoApps == {a1, a2}
TwoEnds == {e1, e2}
TwoHomes == (e1 :> a1) @@ (e2 :> a2)
TwoPeers == (e1 :> e2) @@ (e2 :> e1)
TwoMax == (e1 :> 1) @@ (e2 :> 1)

(* EndToEnd of every end at once, in a form in which TLC takes it. *)
PipeOf(e) == INSTANCE AppPipe WITH From <- e

EveryPipe ==
  /\ \A e \in Ends : PipeOf(e)!Pipe!Init
  /\ [][\A e \in Ends : UNCHANGED PipeOf(e)!Pipe!pipe \/ PipeOf(e)!Pipe!Next]_vars

Everything == {"Disconnect", "Despawn"}
Nothing == {}
=============================================================================
