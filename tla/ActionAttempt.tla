---------------------------- MODULE ActionAttempt ---------------------------
(***************************************************************************)
(* One QuicActionAttempt on its entity: the async task that works for it,  *)
(* the JoinHandle or oneshot receiver that holds the task's result, the    *)
(* handler system that turns the result into components, and an            *)
(* application that may ask the attempt for its result too.                *)
(*                                                                         *)
(* Systems run one at a time; the commands of a handler are applied before *)
(* its next run.  The default features are modelled: a failed attempt      *)
(* leaves no error component behind.                                       *)
(***************************************************************************)
EXTENDS Naturals

VARIABLES
  kind,         (* what is attempted, and through which provider            *)
  source,       (* the provider: JoinHandle or oneshot receiver             *)
  outcome,      (* how the task ended                                       *)
  returned,     (* QuicActionAttempt::returned_value                        *)
  entity,       (* the entity has the attempt, its result, neither, or is   *)
                (* gone                                                     *)
  queued,       (* what the handler's commands will do to the entity        *)
  holder        (* where the connection or stream is                        *)

vars == <<kind, source, outcome, returned, entity, queued, holder>>

(* The attempts that the crate creates. *)
Attempts ==
  {<<"Connection", "join">>, <<"Bidirectional", "join">>, <<"Send", "join">>,
   <<"Peer", "oneshot">>, <<"Receive", "oneshot">>, <<"Bidirectional", "oneshot">>}

Errors == {"ConnectionFailed", "Crashed", "Consumed"}

TypeOK ==
  /\ kind \in Attempts
  /\ source \in {"running", "ready", "closed", "taken", "panicked"}
  /\ outcome \in {"unknown", "some", "none", "failed", "crashed"}
  /\ returned \in Errors \cup {"nothing"}
  /\ entity \in {"attempt", "result", "bare", "gone"}
  /\ queued \in {"nothing", "insert", "remove", "despawn"}
  /\ holder \in {"nobody", "attempt", "commands", "entity", "application", "closed"}

Init ==
  /\ kind \in Attempts
  /\ source = "running" /\ outcome = "unknown" /\ returned = "nothing"
  /\ entity = "attempt" /\ queued = "nothing" /\ holder = "nobody"

Joined == kind[2] = "join"

-----------------------------------------------------------------------------
(* The async task.                                                          *)

(* What opening or connecting can end with is Some, an error of the
   connection, or a panic.  An accept answers with a stream, with none, or
   with an error, or its oneshot sender is dropped. *)
Outcomes == IF Joined THEN {"some", "failed", "crashed"} ELSE {"some", "none", "failed"}

(* A result that no attempt waits for is dropped where it was made. *)
TaskEnds(how) ==
  /\ source = "running"
  /\ source' = "ready" /\ outcome' = how
  /\ holder' = IF how # "some" THEN holder ELSE IF entity = "gone" THEN "closed" ELSE "attempt"
  /\ UNCHANGED <<kind, returned, entity, queued>>

SenderDropped ==
  /\ source = "running" /\ ~Joined
  /\ source' = "closed" /\ outcome' = "crashed"
  /\ UNCHANGED <<kind, returned, entity, queued, holder>>

-----------------------------------------------------------------------------
(* resolve_result has something: is_finished() of a JoinHandle, which stays
   true once it was joined, or !is_empty() of a oneshot receiver. *)
Resolved == IF Joined THEN source # "running" ELSE source = "ready"

(* Variant of Kept: an attempt whose result was taken is pending again. *)
KeptAsPending == IF outcome \in {"some", "none"} THEN "Pending" ELSE "Crashed"

(* Variant of Kept: every error is taken for a crash. *)
KeptAsCrashed == IF outcome \in {"some", "none"} THEN "Consumed" ELSE "Crashed"

(* The Err that attempt_result keeps, or Consumed for an Ok. *)
Kept == CASE outcome = "failed" -> "ConnectionFailed"
          [] outcome = "crashed" -> "Crashed"
          [] OTHER -> "Consumed"

(* Variant of Remember: only errors are kept. *)
RememberErrors == returned' = IF Kept = "Consumed" THEN returned ELSE Kept

Remember == returned' = Kept

Pending == returned = "nothing" /\ ~Resolved
First == returned = "nothing" /\ Resolved

(* What attempt_result does to the attempt.  A JoinHandle that is joined for
   the second time panics. *)
Ask ==
  \/ First /\ Remember /\ source' = IF source = "taken" THEN "panicked" ELSE "taken"
  \/ ~First /\ UNCHANGED <<returned, source>>

(* The first to ask gets the Ok. *)
GetsOk == First /\ outcome \in {"some", "none"}

-----------------------------------------------------------------------------
(* The handlers of stream/plugin.rs and connection/plugin.rs, in Update.    *)

(* The attempts some system asks for: none does for a send stream. *)
Handled == kind[1] # "Send"

Handling == Handled /\ entity = "attempt" /\ queued = "nothing"

HandleOk ==
  /\ Handling /\ GetsOk /\ Ask
  /\ IF outcome = "some"
     THEN queued' = "insert" /\ holder' = "commands"
     ELSE queued' = "despawn" /\ UNCHANGED holder
  /\ UNCHANGED <<kind, outcome, entity>>

(* Variant of IsError: a pending attempt is not skipped. *)
IsErrorOrPending == ~GetsOk

(* Variant of IsError: a consumed attempt is skipped, too. *)
IsErrorNotConsumed == ~GetsOk /\ ~Pending /\ returned # "Consumed"

IsError == ~GetsOk /\ ~Pending

(* Failed, crashed or consumed: logged, and the attempt removed. *)
HandleError ==
  /\ Handling /\ IsError /\ Ask
  /\ queued' = "remove"
  /\ UNCHANGED <<kind, outcome, entity, holder>>

(* Bevy applies the commands.  With the attempt goes what it still holds, and
   what was to be inserted into an entity that is gone is dropped. *)
ApplyCommands ==
  /\ queued # "nothing"
  /\ entity' = IF entity = "gone" \/ queued = "despawn" THEN "gone"
               ELSE IF queued = "insert" THEN "result" ELSE "bare"
  /\ holder' = CASE holder = "commands" -> IF entity = "gone" THEN "closed" ELSE "entity"
                 [] holder = "attempt" -> "closed"
                 [] OTHER -> holder
  /\ queued' = "nothing"
  /\ UNCHANGED <<kind, source, outcome, returned>>

-----------------------------------------------------------------------------
(* The application, between two systems.                                    *)

(* It asks the attempt for its result, and keeps a connection or stream. *)
AppAsks ==
  /\ entity = "attempt" /\ ~Pending /\ Ask
  /\ holder' = IF GetsOk /\ outcome = "some" THEN "application" ELSE holder
  /\ UNCHANGED <<kind, outcome, entity, queued>>

(* It despawns the entity, and may do so between a handler and the commands
   that the handler queued. *)
AppDespawns ==
  /\ entity # "gone"
  /\ entity' = "gone"
  /\ holder' = IF holder \in {"attempt", "entity"} THEN "closed" ELSE holder
  /\ UNCHANGED <<kind, source, outcome, returned, queued>>

Handlers == HandleOk \/ HandleError \/ ApplyCommands

Next == \/ \E how \in Outcomes : TaskEnds(how)
        \/ SenderDropped
        \/ Handlers \/ AppAsks \/ AppDespawns

Spec == Init /\ [][Next]_vars

(* Bevy runs every handler in every frame. *)
FairSpec == Spec /\ WF_vars(Handlers)

-----------------------------------------------------------------------------
(* No JoinHandle is joined twice, whoever asks and however often: that is a
   panic in the thread that runs the app. *)
JoinedOnce == source # "panicked"

(* A connection or stream that was made ends up with the one who was told Ok,
   the handler or the application, and is closed only with its entity; no
   handler throws an attempt away that still holds one, or whose task still
   may make one. *)
ResultDelivered ==
  /\ outcome = "some" /\ returned = "Consumed" => holder \notin {"nobody", "attempt"}
  /\ holder = "closed" => entity = "gone"
  /\ entity = "bare" => source # "running" /\ holder \in {"nobody", "application"}
  /\ entity = "result" => holder = "entity"

(* An error is reported for a task that ended with that error, and Consumed
   only if somebody else has the result. *)
ErrorIsTrue ==
  /\ returned = "ConnectionFailed" => outcome = "failed"
  /\ returned = "Crashed" => outcome = "crashed"
  /\ returned = "Consumed" /\ entity = "bare" => outcome = "none" \/ holder = "application"

(* An attempt whose result is there leaves its entity: it is replaced by the
   result, or removed. *)
AttemptReplaced == kind[1] # "Send" /\ source = "ready" ~> entity # "attempt"
=============================================================================
