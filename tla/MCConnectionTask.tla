-------------------------- MODULE MCConnectionTask --------------------------
(***************************************************************************)
(* TLC instances of ConnectionTask.                                        *)
(***************************************************************************)
EXTENDS ConnectionTask, TLC

CONSTANTS a1, a2   (* the accept attempts *)

MCAttempts == {a1, a2}

(* Attempts are interchangeable. *)
Symmetry == Permutations(Attempts)

NoUser == {}
Users == {"Accept", "AcceptReceive", "AcceptBidirectional", "Close",
          "DropAttempt", "DropConnection"}
Closers == {"AcceptReceive", "Close", "DropConnection"}
Askers == {"AcceptReceive", "AcceptBidirectional"}
=============================================================================
