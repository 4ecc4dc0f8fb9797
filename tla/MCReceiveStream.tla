--------------------------- MODULE MCReceiveStream ---------------------------
(* TLC instances of ReceiveStream: what the application does. *)
EXTENDS ReceiveStream

Everything == {"Stop", "Despawn"}
Nothing == {}
=============================================================================
