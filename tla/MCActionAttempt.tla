--------------------------- MODULE MCActionAttempt ---------------------------
(* TLC checks ActionAttempt as it is: its states are finite. *)
EXTENDS ActionAttempt
=============================================================================
