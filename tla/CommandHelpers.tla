---------------------------- MODULE CommandHelpers ----------------------------
(***************************************************************************)
(* The functions that give the robot a command and block until it is done: *)
(*   arm, gripper, stand, trajectory   BlockUntil...: the program has sent *)
(*                                     the command, they ask for feedback  *)
(*   motorsOff   SafePowerOffMotors: the robot sits, its motors go off     *)
(*   power       PowerCommand, for motors, ports and the radio             *)
(*   robotOff    SafePowerOffRobot, SafePowerCycleRobot: motorsOff, then   *)
(*               the power command for the computer, by the same deadline  *)
(*   services    WaitForAllServices                                        *)
(*   dock        BlockingDock: a number of attempts, then the prep pose    *)
(* A behaviour is one call of one of them.  Time passes in calls and in    *)
(* sleeps; a call to the robot fails after RpcTime at the latest.          *)
(***************************************************************************)
EXTENDS Integers

CONSTANTS Timeout,  \* of the function, where it has one
          Poll,     \* poll_period, 1 / update_frequency, interval
          RpcTime,  \* what a call takes at most
          Attempts, \* num_attempts of BlockingDock
          Jobs      \* the functions considered

ASSUME HelpersAssumption ==
  /\ Timeout \in Nat \ {0} /\ Poll \in Nat \ {0} /\ RpcTime \in Nat
  /\ Attempts \in Nat \ {0}
  /\ Jobs \subseteq {"arm", "gripper", "stand", "trajectory", "motorsOff", "power",
                     "robotOff", "services", "dock"}

VARIABLES job,      \* the function
          timed,    \* has it got a timeout?
          pc,       \* where it is
          stage,    \* robotOff, dock: "first" or "last", the closing command
          now,      \* the time since the call; it stands still if not timed
          deadline, \* end_time of the function that is running
          took,     \* call_time: how long the call took that has just ended
          answer,   \* what the robot, or gRPC, has answered
          made,     \* dock: attempts_made
          told,     \* dock: early_end() says so
          outcome,  \* the status returned
          command,  \* robot: what became of the latest command
          motors,   \* robot: are they on?
          computer  \* robot: is it on?

vars == <<job, timed, pc, stage, now, deadline, took, answer, made, told, outcome,
          command, motors, computer>>
robot  == <<command, motors, computer>>
asked  == <<job, timed>>
course == <<stage, deadline, made>>

Blocking == {"arm", "gripper", "stand", "trajectory"}
Polling  == {"motorsOff", "power", "robotOff"}  \* they poll by the future

Longer(a, b) == IF a < b THEN b ELSE a

(* Only a timed call looks at the clock. *)
Passes(d) == now' = IF timed THEN now + d ELSE now

Return(status) == pc' = "returned" /\ outcome' = status

-----------------------------------------------------------------------------
(* The robot, external: it carries out, gives up or replaces the command   *)
(* it has; of a power command, only what it switches off is followed.      *)

IsForMotors == job = "motorsOff" \/ (job = "robotOff" /\ stage = "first")
IsForRobot  == job = "robotOff" /\ stage = "last"

(* Until the command for the computer is sent, the one before may go on.   *)
Achieve ==
  /\ command = "running"
  /\ command' = "reached"
  /\ motors' = (motors /\ ~IsForMotors /\ ~IsForRobot)
  /\ computer' = (computer /\ (IsForRobot => pc = "send"))
  /\ UNCHANGED <<asked, course, pc, now, took, answer, told, outcome>>

GiveUp ==
  /\ command = "running"
  /\ command' \in {"failed", "overridden"}
  /\ UNCHANGED <<asked, course, pc, now, took, answer, told, outcome, motors, computer>>

-----------------------------------------------------------------------------
(* Before the command *)

Unsent == Blocking \cup {"services"}

(* The Robot functions look their clients up first, three at the most; for *)
(* one that it has not got EnsureServiceClient may call the directory, and *)
(* wait for it.                                                            *)
LookupTime ==
  CASE job = "motorsOff" -> 3 * RpcTime
    [] job = "power"     -> RpcTime
    [] OTHER             -> 0

(* Only then does the timeout begin.  BlockingDock also starts the time    *)
(* sync thread.                                                            *)
Prepare ==
  /\ pc = "call"
  /\ \E d \in 0 .. LookupTime : Passes(d)
  /\ deadline' = now' + Timeout
  /\ \/ pc' = (IF job \in Unsent THEN "check" ELSE IF job = "dock" THEN "build" ELSE "send")
        /\ UNCHANGED outcome
     \/ job \notin Unsent /\ Return("error")
  /\ UNCHANGED <<asked, stage, made, took, answer, told, robot>>

(* DockingCommandBuilder has no endpoint whose clock it could name. *)
BuildFails ==
  /\ pc = "build"
  /\ Return("error")
  /\ UNCHANGED <<asked, course, now, took, answer, told, robot>>

Build ==
  /\ pc = "build"
  /\ ~told
  /\ pc' = "send"
  /\ made' = IF stage = "first" THEN made + 1 ELSE made
  /\ UNCHANGED <<asked, stage, deadline, now, took, answer, told, outcome, robot>>

(* An attempt is not made once the program has called for an end; the      *)
(* closing command is sent, and its answer not waited for.                 *)
BuildInVain ==
  /\ pc = "build"
  /\ told
  /\ command' \in (IF stage = "first" THEN {command} ELSE {command, "running"})
  /\ Return("cancelled")
  /\ UNCHANGED <<asked, course, now, took, answer, told, motors, computer>>

-----------------------------------------------------------------------------
(* The command *)

CallTakesTime == \E d \in 0 .. RpcTime : Passes(d)

Accepted ==
  /\ pc = "send"
  /\ command' = "running"
  /\ pc' = IF job = "dock" THEN "poll" ELSE "check"
  /\ CallTakesTime
  /\ UNCHANGED <<asked, course, took, answer, told, outcome, motors, computer>>

(* STATUS_SUCCESS: a power command may be done at once. *)
DoneAtOnce ==
  /\ pc = "send" /\ (job = "power" \/ IsForRobot)
  /\ command' = "reached"
  /\ motors' = (motors /\ ~IsForRobot) /\ computer' = (computer /\ ~IsForRobot)
  /\ CallTakesTime
  /\ Return("success")
  /\ UNCHANGED <<asked, course, took, answer, told>>

(* What follows a command for docking that came to nothing *)
NextAttempt ==
  /\ pc' = "build"
  /\ stage' = IF made < Attempts THEN "first" ELSE "last"
  /\ UNCHANGED outcome

(* Refused, or the answer is lost: for BlockingDock it was an attempt. *)
NotAccepted ==
  /\ pc = "send"
  /\ command' \in {command, "running"}
  /\ CallTakesTime
  /\ IF job = "dock" /\ stage = "first" THEN NextAttempt
                                       ELSE Return("error") /\ UNCHANGED stage
  /\ UNCHANGED <<asked, deadline, made, took, answer, told, motors, computer>>

(* BlockingDock looks at early_end while it waits for the answer. *)
AbandonSend ==
  /\ pc = "send" /\ job = "dock" /\ told
  /\ command' \in {command, "running"}
  /\ Return("cancelled")
  /\ UNCHANGED <<asked, course, now, took, answer, told, motors, computer>>

(* early_end() turns true, the program's doing. *)
Tell ==
  /\ job = "dock" /\ ~told /\ pc # "returned"
  /\ told' = TRUE
  /\ UNCHANGED <<asked, course, pc, now, took, answer, outcome, robot>>

-----------------------------------------------------------------------------
(* The loop: look at the clock, ask, judge the answer, sleep *)

(* WaitForAllServices asks once before it looks at the clock. *)
Check ==
  /\ pc = "check"
  /\ IF timed /\ now >= deadline /\ ~(job = "services" /\ answer = "none")
     THEN Return("timeout")
     ELSE pc' = "poll" /\ UNCHANGED outcome
  /\ UNCHANGED <<asked, course, now, took, answer, told, robot>>

(* The robot answers with what has become of the command, or of its motors *)
(* or services; or the call fails, in a way worth a retry or not.          *)
Answer ==
  /\ pc = "poll"
  /\ answer' \in {IF IsForMotors THEN (IF motors THEN "running" ELSE "reached") ELSE command,
                  "rpcTimeout", "rpcError"}
  /\ pc' = "answered"
  /\ UNCHANGED <<asked, course, now, took, told, outcome, robot>>

(* Mutant: motors that are on their way off are taken for motors off. *)
VerdictNotOn(seen) ==
  CASE seen = "reached" -> "success"
    [] seen = "running" -> IF IsForMotors THEN "success" ELSE "again"
    [] OTHER -> "error"

(* The feedback of a call that failed is empty: the arm's function, which  *)
(* looks for a kind of feedback it knows, takes that for an error, the     *)
(* others in Blocking for a goal not reached.  Only the arm's function     *)
(* tells a command that has failed from one under way.                     *)
VerdictOnFailure(seen) ==
  CASE job = "arm" \/ job \in Polling -> "error"
    [] job \in Unsent \ {"arm"} -> IF seen = "rpcError" THEN "error" ELSE "again"
    [] job = "dock" -> IF seen \in {"rpcTimeout", "rpcError"} THEN "again" ELSE "error"

Verdict(seen) ==
  CASE seen = "reached" -> "success"
    [] seen = "running" -> "again"
    [] OTHER -> VerdictOnFailure(seen)

AskAgain == pc' = "sleep" /\ UNCHANGED <<stage, outcome>>

(* How the closing command ends changes nothing. *)
AfterAttempt(verdict) ==
  IF stage = "last" THEN Return("retriesExceeded") /\ UNCHANGED stage
  ELSE IF verdict = "success" THEN Return("success") /\ UNCHANGED stage
  ELSE NextAttempt

(* Mutant: the end is left to the robot. *)
JudgeDockingUntold(verdict) ==
  \/ verdict = "again" /\ AskAgain
  \/ verdict # "again" /\ AfterAttempt(verdict)

(* WaitOnFeedback ends with an answer or by the program. *)
JudgeDocking(verdict) ==
  \/ verdict = "again" /\ ~told /\ AskAgain
  \/ (verdict # "again" \/ told) /\ AfterAttempt(verdict)

(* Mutant: the computer gets the whole timeout anew. *)
GoOnAnew ==
  /\ stage' = "last" /\ pc' = "send"
  /\ deadline' = now' + Timeout
  /\ UNCHANGED outcome

(* PowerOffRobot, with what is left of the time, even if that is nothing *)
GoOn ==
  /\ stage' = "last" /\ pc' = "send"
  /\ UNCHANGED <<deadline, outcome>>

(* Mutant: the computer goes off whatever became of the motors. *)
JudgeRegardless(verdict) ==
  CASE verdict = "again" -> AskAgain /\ UNCHANGED deadline
    [] verdict # "again" /\ job = "robotOff" /\ stage = "first" -> GoOn
    [] OTHER -> Return(verdict) /\ UNCHANGED <<stage, deadline>>

Judge(verdict) ==
  CASE verdict = "again" -> AskAgain /\ UNCHANGED deadline
    [] job = "robotOff" /\ stage = "first" /\ verdict = "success" -> GoOn
    [] OTHER -> Return(verdict) /\ UNCHANGED <<stage, deadline>>

(* The power functions leave a call that outlasts the deadline. *)
AnswerAfter(d) ==
  /\ took' = IF timed THEN d ELSE 0
  /\ IF job \in Polling /\ now + d > deadline
     THEN now' = deadline /\ Return("timeout") /\ UNCHANGED <<stage, deadline>>
     ELSE /\ Passes(d)
          /\ IF job = "dock" THEN JudgeDocking(Verdict(answer)) /\ UNCHANGED deadline
                             ELSE Judge(Verdict(answer))

AnswerArrives ==
  /\ pc = "answered"
  /\ \E d \in 0 .. RpcTime : AnswerAfter(d)
  /\ UNCHANGED <<asked, made, answer, told, robot>>

(* The power functions sleep for the rest of a period. *)
Sleep ==
  /\ pc = "sleep"
  /\ Passes(IF job \in Polling THEN Longer(0, Poll - took) ELSE Poll)
  /\ pc' = IF job = "dock" THEN "poll" ELSE "check"
  /\ UNCHANGED <<asked, course, took, answer, told, outcome, robot>>

-----------------------------------------------------------------------------

Init ==
  /\ job \in Jobs
  /\ timed \in (IF job = "dock" THEN {FALSE} ELSE IF job \in Blocking THEN BOOLEAN ELSE {TRUE})
  /\ pc = "call" /\ stage = "first" /\ now = 0 /\ took = 0 /\ answer = "none"
  /\ deadline = Timeout
  /\ made = 0 /\ told = FALSE /\ outcome = "none"
  /\ command = (IF job \in Unsent THEN "running" ELSE "none")
  /\ motors \in BOOLEAN /\ computer = TRUE

Helper ==
  \/ Prepare
  \/ BuildFails
  \/ Build
  \/ BuildInVain
  \/ Accepted
  \/ DoneAtOnce
  \/ NotAccepted
  \/ AbandonSend
  \/ Check
  \/ Answer
  \/ AnswerArrives
  \/ Sleep

Next ==
  \/ Helper
  \/ Achieve
  \/ GiveUp
  \/ Tell

Spec == Init /\ [][Next]_vars

(* The thread of the program runs and calls end.  The robot need not do    *)
(* what it is told, nor answer what it is asked.                           *)
FairSpec == Spec /\ WF_vars(Helper)

-----------------------------------------------------------------------------
(* Properties *)

(* A success is what the robot has really reached: for SafePowerOffRobot   *)
(* the motors and the computer are off, for BlockingDock the robot stands  *)
(* in the dock by the latest attempt, whichever answers were lost, late or *)
(* about the command before.                                               *)
SuccessIsTrue ==
  outcome = "success" =>
    CASE job = "motorsOff" -> ~motors
      [] job = "robotOff"  -> ~motors /\ ~computer
      [] job = "dock"      -> command = "reached" /\ stage = "first"
      [] OTHER             -> command = "reached"

(* A function with a timeout is back after it, one call and one sleep at   *)
(* the latest, although SafePowerOffRobot runs two functions in a row and  *)
(* neither of their first calls has a deadline.  What the functions of the *)
(* Robot take to look their clients up comes before it all.                *)
Punctual == timed => now <= LookupTime + Timeout + RpcTime + Poll

(* What robot.h:201 and power_client_helper.h:29 say of the timeout, "Max  *)
(* time this function will block for": it does not hold, for the lookup    *)
(* and the command are not subject to it.                                  *)
BlocksNoLonger == job \in {"motorsOff", "power", "robotOff"} => now <= Timeout

(* SafePowerOffRobot and SafePowerCycleRobot switch the computer off only  *)
(* when the motors are: not after a failed command to sit, a failed        *)
(* question for the state, or a timeout.                                   *)
ComputerGoesLast == [][computer /\ ~computer' => ~motors]_vars

(* What has a timeout returns, and so does BlockingDock once the program   *)
(* calls for an end, even if the robot neither moves nor answers.          *)
Returns == (timed \/ told) ~> pc = "returned"
=============================================================================
