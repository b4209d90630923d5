----------------------------- MODULE AsyncCalls -----------------------------
(***************************************************************************)
(* What whoever makes a call may count on of its future, however the call  *)
(* is made and whatever the threads around it do: the promise of a call is *)
(* set at most once, to a refusal only if the call never got under way     *)
(* (MessagePumpCallBase and CancelHelper,                                  *)
(* src/cpp/bosdyn/client/service_client/message_pump.h).  MessagePump and  *)
(* StreamCalls model the code that keeps this.                             *)
(***************************************************************************)

CONSTANT Calls

VARIABLES life,     \* what has become of the future of each call
          down,     \* has a shutdown been requested?
          caught    \* the calls that were promised but not begun then

Settled == {"refused", "answered", "cancelled"}

Becomes(c, before, after) ==
  /\ life[c] \in before
  /\ life' = [life EXCEPT ![c] = after]
  /\ UNCHANGED <<down, caught>>

(* The future is handed out before the call is begun. *)
Promise(c) == ~down /\ Becomes(c, {"none"}, "promised")

Refuse(c) == Becomes(c, {"none", "promised"}, "refused")

(* Once a shutdown was requested, only a call it caught can still begin. *)
Begin(c) == (down => c \in caught) /\ Becomes(c, {"none", "promised"}, "underway")

Answer(c) == ~down /\ Becomes(c, {"underway"}, "answered")

Cancel(c) == Becomes(c, {"underway"}, "cancelled")

Shutdown ==
  /\ ~down /\ down' = TRUE
  /\ caught' = {c \in Calls : life[c] = "promised"}
  /\ UNCHANGED life

(* Only a call that was begun behind the back of a shutdown is forgotten:  *)
(* its promise is broken when the call object is destroyed.                *)
Abandon(forgotten) ==
  /\ forgotten \subseteq caught
  /\ \A c \in forgotten : life[c] = "underway"
  /\ life' = [c \in Calls |-> IF c \in forgotten THEN "broken" ELSE life[c]]
  /\ UNCHANGED <<down, caught>>

-----------------------------------------------------------------------------
Init == life = [c \in Calls |-> "none"] /\ down = FALSE /\ caught = {}

Next ==
  \/ \E c \in Calls :
       Promise(c) \/ Refuse(c) \/ Begin(c) \/ Answer(c) \/ Cancel(c)
  \/ Shutdown
  \/ \E forgotten \in SUBSET Calls : Abandon(forgotten)

Spec == Init /\ [][Next]_<<life, down, caught>>
=============================================================================
