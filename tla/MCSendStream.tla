---------------------------- MODULE MCSendStream ----------------------------
(* TLC instances of SendStream: the .cfg files give the sizes. *)
EXTENDS SendStream
=============================================================================
