------------------------- MODULE ActionAttemptProofs -------------------------
(***************************************************************************)
(* Proofs about ActionAttempt: the result of an attempt is taken from its  *)
(* task once, and the connection or stream in it is never without an owner *)
(* that was told of it, whatever the order of the task, the handlers, the  *)
(* commands they queued and the application.                               *)
(***************************************************************************)
EXTENDS ActionAttempt, TLAPS

(* The result of the task is fixed once it ends, and what the attempt keeps of
   it is fixed once it is asked for. *)
ResultKept ==
  /\ source = "running" <=> outcome = "unknown"
  /\ outcome \in Outcomes \cup {"unknown"} \/ source = "closed"
  /\ source = "closed" => outcome = "crashed" /\ ~Joined
  /\ source = "taken" <=> returned # "nothing"
  /\ returned # "nothing" => returned = Kept

(* The attempt leaves its entity only after it was asked, through the commands
   of the handler that asked it; an attempt that has given its Ok to somebody
   other than the handler is removed, not replaced. *)
EntityFollows ==
  /\ returned = "nothing" => entity \in {"attempt", "gone"} /\ queued = "nothing"
  /\ queued # "nothing" => entity \in {"attempt", "gone"}
  /\ queued = "insert" <=> holder = "commands"
  /\ queued = "remove" /\ returned = "Consumed" => outcome = "none" \/ holder = "application"
  /\ entity = "bare" /\ returned = "Consumed" => outcome = "none" \/ holder = "application"
  /\ entity = "result" <=> holder = "entity"

(* Where the connection or stream is, if there is one. *)
HolderFollows ==
  /\ outcome # "some" => holder = "nobody"
  /\ outcome = "some" /\ returned = "nothing" =>
       holder = IF entity = "gone" THEN "closed" ELSE "attempt"
  /\ outcome = "some" /\ returned # "nothing" => holder \notin {"nobody", "attempt"}
  /\ holder = "closed" => entity = "gone"

(* The inductive invariant. *)
IInv == TypeOK /\ JoinedOnce /\ ResultKept /\ EntityFollows /\ HolderFollows
-----------------------------------------------------------------------------
(* A task ends in one of the ways of a task that ran. *)
LEMMA OutcomesAre ==
  /\ Outcomes \subseteq {"some", "none", "failed", "crashed"}
  /\ "unknown" \notin Outcomes
  /\ ~Joined => "crashed" \notin Outcomes
  BY DEF Outcomes

(* What is kept is an error, and it is never "nothing". *)
LEMMA KeptIs == Kept \in Errors /\ Kept # "nothing" /\ (Kept = "Consumed" <=> outcome \notin {"failed", "crashed"})
  BY DEF Kept, Errors

(* Whoever asks, the first who does takes the result and leaves an error to
   keep; nobody joins the task after that. *)
LEMMA AskTakes ==
  ASSUME IInv, Ask, ~Pending
  PROVE  /\ source' = "taken" /\ returned' = Kept /\ source \in {"ready", "taken"}
         /\ First <=> returned = "nothing"
         /\ ~First => returned' = returned
<1> USE DEF IInv, ResultKept
<1>1. CASE First
  BY <1>1 DEF Ask, First, Resolved, Remember, TypeOK, JoinedOnce
<1>2. CASE ~First
  BY <1>2 DEF Ask, First, Pending
<1> QED BY <1>1, <1>2

(* Every step keeps the invariant. *)
LEMMA InvariantStep ==
  ASSUME IInv, [Next]_vars
  PROVE  IInv'
<1> USE DEF IInv
<1>1. ASSUME NEW how \in Outcomes, TaskEnds(how) PROVE IInv'
  <2>1. /\ outcome = "unknown" /\ returned = "nothing" /\ source = "running"
        /\ holder = "nobody" /\ queued = "nothing" /\ entity \in {"attempt", "gone"}
    BY <1>1 DEF TaskEnds, ResultKept, HolderFollows, EntityFollows
  <2>2. TypeOK' /\ JoinedOnce' /\ Outcomes' = Outcomes /\ Joined' = Joined
    BY <1>1, OutcomesAre DEF TaskEnds, TypeOK, JoinedOnce, Outcomes, Joined
  <2>3. ResultKept'
    BY <1>1, <2>1, <2>2, OutcomesAre DEF TaskEnds, ResultKept
  <2>4. EntityFollows' /\ HolderFollows'
    BY <1>1, <2>1 DEF TaskEnds, EntityFollows, HolderFollows
  <2> QED BY <2>2, <2>3, <2>4
<1>2. CASE SenderDropped
  BY <1>2 DEF SenderDropped, TypeOK, JoinedOnce, ResultKept, EntityFollows, HolderFollows,
              Joined, Outcomes
<1>3. ASSUME ~Pending, Ask, UNCHANGED <<kind, outcome>>
      PROVE  source' = "taken" /\ returned' \in Errors /\ JoinedOnce' /\ ResultKept'
  <2>1. source' = "taken" /\ returned' = Kept /\ source \in {"ready", "taken"}
    BY <1>3, AskTakes
  <2>2. Kept' = Kept /\ Outcomes' = Outcomes /\ Joined' = Joined
    BY <1>3 DEF Kept, Outcomes, Joined
  <2> QED BY <1>3, <2>1, <2>2, KeptIs DEF JoinedOnce, ResultKept
<1>4. CASE HandleOk
  <2>1. First /\ Ask /\ ~Pending /\ returned = "nothing" /\ outcome \in {"some", "none"}
    BY <1>4 DEF HandleOk, GetsOk, First, Pending
  <2>2. source' = "taken" /\ returned' \in Errors /\ returned' # "nothing" /\ JoinedOnce' /\ ResultKept'
    BY <1>3, <1>4, <2>1, KeptIs, AskTakes DEF HandleOk, Errors
  <2>3. entity = "attempt" /\ UNCHANGED <<kind, outcome, entity>>
    BY <1>4 DEF HandleOk, Handling
  <2>4. \/ outcome = "some" /\ queued' = "insert" /\ holder' = "commands"
        \/ outcome = "none" /\ queued' = "despawn" /\ holder' = holder
    BY <1>4, <2>1 DEF HandleOk
  <2>5. TypeOK'
    BY <2>2, <2>3, <2>4 DEF TypeOK
  <2> QED BY <2>1, <2>2, <2>3, <2>4, <2>5 DEF EntityFollows, HolderFollows
<1>5. CASE HandleError
  <2>1. /\ ~Pending /\ Ask /\ entity = "attempt" /\ queued = "nothing" /\ queued' = "remove"
        /\ UNCHANGED <<kind, outcome, entity, holder>>
    BY <1>5 DEF HandleError, Handling, IsError
  <2>2. source' = "taken" /\ returned' \in Errors /\ returned' # "nothing" /\ JoinedOnce' /\ ResultKept'
    BY <1>3, <2>1, KeptIs, AskTakes DEF Errors
  <2>3. returned' = Kept /\ (returned = "nothing" => outcome \notin {"some", "none"})
    BY <1>5, <2>1, AskTakes DEF HandleError, IsError, GetsOk
  <2>4. returned' = "Consumed" => outcome = "none" \/ holder = "application"
    (* Somebody asked before, and the handler did not: its commands would
       still be queued, or the attempt gone. *)
    BY <2>1, <2>3, KeptIs, AskTakes DEF TypeOK, ResultKept, EntityFollows, HolderFollows
  <2>5. TypeOK'
    BY <2>1, <2>2 DEF TypeOK
  <2>6. outcome = "some" => returned # "nothing"
    BY <2>3
  <2> QED BY <2>1, <2>2, <2>4, <2>5, <2>6 DEF EntityFollows, HolderFollows
<1>6. CASE ApplyCommands
  <2>1. ResultKept' /\ JoinedOnce' /\ TypeOK'
    BY <1>6 DEF ApplyCommands, TypeOK, JoinedOnce, ResultKept, Kept, Outcomes, Joined
  <2>2. returned # "nothing" /\ entity \in {"attempt", "gone"}
    BY <1>6 DEF ApplyCommands, EntityFollows
  <2>3. CASE entity = "gone"
    <3>1. queued' = "nothing" /\ UNCHANGED <<kind, source, outcome, returned>>
      BY <1>6 DEF ApplyCommands
    <3>2. entity' = "gone"
      BY <1>6, <2>3 DEF ApplyCommands
    <3>3. holder' \in {"closed", holder} /\ holder' # "commands"
      BY <1>6, <2>3 DEF ApplyCommands
    <3>4. holder' = "closed" => holder \in {"closed", "attempt", "commands"}
      BY <1>6, <2>3 DEF ApplyCommands
    <3> QED BY <2>1, <2>2, <2>3, <3>1, <3>2, <3>3, <3>4 DEF EntityFollows, HolderFollows
  <2>4. CASE entity = "attempt"
    <3>1. holder \notin {"entity", "closed"} /\ (outcome = "some" => holder # "attempt")
      BY <2>2, <2>4 DEF EntityFollows, HolderFollows
    <3>2. CASE queued = "insert"
      <4>1. entity' = "result" /\ holder' = "entity" /\ outcome = "some"
        BY <1>6, <2>4, <3>2 DEF ApplyCommands, EntityFollows, HolderFollows
      <4> QED BY <1>6, <2>1, <2>2, <4>1 DEF ApplyCommands, EntityFollows, HolderFollows
    <3>3. CASE queued # "insert"
      <4>1. holder # "commands" /\ (outcome # "some" => holder = "nobody")
        BY <3>3 DEF EntityFollows, HolderFollows
      <4>2. holder' = holder
        BY <1>6, <3>1, <4>1 DEF ApplyCommands
      <4>3. \/ queued = "despawn" /\ entity' = "gone"
            \/ queued = "remove" /\ entity' = "bare"
        BY <1>6, <2>4, <3>3 DEF ApplyCommands, TypeOK
      <4> QED BY <1>6, <2>1, <2>2, <3>1, <4>1, <4>2, <4>3
                 DEF ApplyCommands, EntityFollows, HolderFollows
    <3> QED BY <3>2, <3>3
  <2> QED BY <2>2, <2>3, <2>4
<1>7. CASE AppAsks
  <2>1. /\ ~Pending /\ Ask /\ entity = "attempt" /\ UNCHANGED <<kind, outcome, entity, queued>>
        /\ holder' = IF GetsOk /\ outcome = "some" THEN "application" ELSE holder
    BY <1>7 DEF AppAsks
  <2>2. source' = "taken" /\ returned' \in Errors /\ returned' # "nothing" /\ JoinedOnce' /\ ResultKept'
    BY <1>3, <2>1, KeptIs, AskTakes DEF Errors
  <2>3. GetsOk <=> returned = "nothing" /\ outcome \in {"some", "none"}
    BY <2>1, AskTakes DEF GetsOk
  <2>4. TypeOK'
    BY <2>1, <2>2 DEF TypeOK
  <2>5. CASE returned = "nothing"
    BY <2>1, <2>2, <2>3, <2>4, <2>5 DEF EntityFollows, HolderFollows
  <2>6. CASE returned # "nothing"
    <3>1. holder' = holder /\ returned' = returned
      BY <2>1, <2>3, <2>6, AskTakes
    <3> QED BY <2>1, <2>2, <2>4, <2>6, <3>1 DEF EntityFollows, HolderFollows
  <2> QED BY <2>5, <2>6
<1>8. CASE AppDespawns
  <2>1. ResultKept' /\ JoinedOnce' /\ TypeOK'
    BY <1>8 DEF AppDespawns, TypeOK, JoinedOnce, ResultKept, Kept, Outcomes, Joined
  <2>2. EntityFollows' /\ HolderFollows'
    BY <1>8 DEF AppDespawns, TypeOK, EntityFollows, HolderFollows
  <2> QED BY <2>1, <2>2
<1>9. CASE UNCHANGED vars
  BY <1>9 DEF vars, TypeOK, JoinedOnce, ResultKept, EntityFollows, HolderFollows,
              Kept, Outcomes, Joined
<1> QED BY <1>1, <1>2, <1>4, <1>5, <1>6, <1>7, <1>8, <1>9 DEF Next, Handlers
-----------------------------------------------------------------------------
(* An attempt starts with a task that runs, on an entity that waits for it. *)
LEMMA InitInvariant == Init => IInv
  BY DEF Init, IInv, TypeOK, JoinedOnce, ResultKept, EntityFollows, HolderFollows

(* The inductive invariant holds whatever runs in what order. *)
THEOREM Invariance == Spec => []IInv
<1>1. IInv /\ [Next]_vars => IInv'
  BY InvariantStep
<1> QED BY InitInvariant, <1>1, PTL DEF Spec

(* Every variable keeps its type. *)
THEOREM TypeCorrect == Spec => []TypeOK
<1>1. IInv => TypeOK
  BY DEF IInv
<1> QED BY Invariance, <1>1, PTL

(* No JoinHandle is polled again after it gave its result, so no call of
   attempt_result panics. *)
THEOREM NoSecondJoin == Spec => []JoinedOnce
<1>1. IInv => JoinedOnce
  BY DEF IInv
<1> QED BY Invariance, <1>1, PTL

(* A connection or stream that was made belongs to the one who was told Ok, and
   is closed only with its entity. *)
THEOREM Delivered == Spec => []ResultDelivered
<1>1. IInv => ResultDelivered
  BY DEF IInv, TypeOK, ResultKept, EntityFollows, HolderFollows, ResultDelivered
<1> QED BY Invariance, <1>1, PTL

(* Every error that an attempt gives is the one its task ended with. *)
THEOREM ErrorsAreTrue == Spec => []ErrorIsTrue
<1>1. IInv => ErrorIsTrue
  BY DEF IInv, ResultKept, EntityFollows, HolderFollows, ErrorIsTrue, Kept
<1> QED BY Invariance, <1>1, PTL
=============================================================================
