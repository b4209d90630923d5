--------------------------- MODULE EstopKeepAlive ---------------------------
(***************************************************************************)
(* The software E-Stop: an endpoint that checks in with the robot by       *)
(* answering its challenges, and a thread that does so periodically at the *)
(* stop level the program desires                                          *)
(* (src/cpp/bosdyn/client/estop/estop_keepalive.{h,cpp} and                *)
(* estop_endpoint.{h,cpp}).                                                *)
(*                                                                         *)
(* The thread holds m_keepalive_mutex for the whole of a check-in, and     *)
(* waits on a condition variable between check-ins; the program's other    *)
(* threads need the mutex to set the stop level.  Time passes in ticks,    *)
(* never while a thread has something to do that takes no time.            *)
(***************************************************************************)
EXTENDS Naturals

CONSTANTS Interval,  \* m_rpc_interval, in ticks
          RpcTime,   \* the time a check-in may take
          MaxLost    \* bound: calls that fail with an RPC error

ASSUME TimeAssumption ==
  Interval \in Nat \ {0} /\ RpcTime \in Nat /\ MaxLost \in Nat

VARIABLES alive,      \* m_thread_is_alive
          at,         \* where the keep-alive is: its constructor or its thread
          desired,    \* m_desired_stop_level
          status,     \* m_status_and_message, without the message
          first,      \* endpoint: m_locked_first_checkin
          challenge,  \* endpoint: m_challenge, seen from the robot
          call,       \* the check-in under way
          program,    \* what the program's thread is in the middle of
          wanted,     \* the argument of the program's last SetStopLevel
          registered, \* robot: does it know the endpoint?
          expecting,  \* robot: has it given a challenge to answer?
          asserted,   \* robot: the level of the last valid check-in
          elapsed,    \* ticks since exec_start_ns
          lag,        \* ticks the robot has been without the desired level
          silence,    \* ticks since the last valid check-in
          lost        \* the calls that failed so far

keepAlive == <<alive, at, desired, status>>
endpoint == <<first, challenge>>
app == <<program, wanted>>
robot == <<registered, expecting, asserted>>
clocks == <<elapsed, lag, silence>>
vars == <<alive, at, desired, status, first, challenge, call, program, wanted,
          registered, expecting, asserted, elapsed, lag, silence, lost>>

Level == {"CUT", "SETTLE_THEN_CUT", "NONE"}
Status == {"OK", "ERROR", "DISABLED"}
Verdict == {"PENDING", "OK", "UNKNOWN_ENDPOINT", "INCORRECT", "RPC_ERROR"}

Call == [at      : {"none", "sent", "served", "done"},
         level   : Level,
         answers : {"none", "current", "stale"},
         verdict : Verdict]

NoCall == [at |-> "none", level |-> "NONE", answers |-> "none", verdict |-> "PENDING"]

(* CheckIn holds the mutex until its call has completed. *)
MutexFree == at \notin {"first", "checkin"}

InTime == RpcTime + (IF Interval < RpcTime THEN RpcTime ELSE Interval)

-----------------------------------------------------------------------------
(* A check-in: EstopKeepAlive::CheckIn and EstopEndpoint::CheckInAtLevel *)

(* Mutant: a check-in is at the default level. *)
CheckInAtDefault ==
  call' = [at |-> "sent", level |-> "NONE", answers |-> challenge, verdict |-> "PENDING"]

CheckIn ==
  call' = [at |-> "sent", level |-> desired, answers |-> challenge, verdict |-> "PENDING"]

(* Mutant: the challenge of a valid check-in's answer is not kept. *)
KeepFirstChallenge ==
  /\ challenge' = IF ~first THEN challenge
                  ELSE IF call.verdict \in {"OK", "INCORRECT"} THEN "current" ELSE "none"
  /\ first' = FALSE

(* The first check-in takes over whatever challenge the response has,      *)
(* none if there was no response; later ones do if they were valid.        *)
TakeChallenge ==
  /\ challenge' = IF ~first /\ call.verdict # "OK" THEN challenge
                  ELSE IF call.verdict \in {"OK", "INCORRECT"} THEN "current" ELSE "none"
  /\ first' = FALSE

(* What CheckInAtLevel returns: the first check-in suppresses errors. *)
Result == IF first THEN "OK" ELSE call.verdict

-----------------------------------------------------------------------------
(* The constructor checks in once and ignores the result ... *)

FirstCheckIn ==
  /\ at = "construct"
  /\ CheckIn
  /\ at' = "first"
  /\ elapsed' = 0
  /\ UNCHANGED <<alive, desired, status, endpoint, app, robot, lag, silence, lost>>

FirstCheckedIn ==
  /\ at = "first"
  /\ call.at = "done"
  /\ TakeChallenge
  /\ at' = "head"
  /\ call' = NoCall
  /\ UNCHANGED <<alive, desired, status, app, robot, clocks, lost>>

(* ... and starts the thread: PeriodicCheckIn. *)

(* Mutant: the loop goes on when it is stopped. *)
LoopForever ==
  /\ at = "head"
  /\ at' = "checkin" /\ CheckIn /\ elapsed' = 0
  /\ UNCHANGED <<alive, desired, status, endpoint, app, robot, lag, silence, lost>>

Loop ==
  /\ at = "head"
  /\ IF alive
     THEN at' = "checkin" /\ CheckIn /\ elapsed' = 0
     ELSE at' = "ended" /\ UNCHANGED <<call, elapsed>>
  /\ UNCHANGED <<alive, desired, status, endpoint, app, robot, lag, silence, lost>>

(* The check-in returns and the mutex is released. *)
CheckedIn ==
  /\ at = "checkin"
  /\ call.at = "done"
  /\ TakeChallenge
  /\ call' = [call EXCEPT !.verdict = Result]
  /\ at' = "judge"
  /\ UNCHANGED <<alive, desired, status, app, robot, clocks, lost>>

UpdateStatus(s) == status' = IF status = "DISABLED" THEN status ELSE s

(* SendOk and SendError; a robot that does not know the endpoint disables  *)
(* the keep-alive, which stops the thread.                                 *)
Judge ==
  /\ at = "judge"
  /\ CASE call.verdict = "OK" -> UpdateStatus("OK") /\ UNCHANGED alive
       [] call.verdict = "UNKNOWN_ENDPOINT" -> UpdateStatus("DISABLED") /\ alive' = FALSE
       [] OTHER -> UpdateStatus("ERROR") /\ UNCHANGED alive
  /\ at' = "unlocked"
  /\ call' = NoCall
  /\ UNCHANGED <<desired, endpoint, app, robot, clocks, lost>>

(* Mutant: the time the check-in took is not deducted. *)
WaitFromNow ==
  /\ at = "unlocked"
  /\ at' = "waiting"
  /\ elapsed' = 0
  /\ UNCHANGED <<alive, desired, status, endpoint, call, app, robot, lag, silence, lost>>

WaitFor ==
  /\ at = "unlocked"
  /\ at' = "waiting"
  /\ UNCHANGED <<alive, desired, status, endpoint, call, app, robot, clocks, lost>>

(* wait_for has no predicate: it returns in time, or spuriously before. *)
WakeUp ==
  /\ at = "waiting"
  /\ at' = "head"
  /\ UNCHANGED <<alive, desired, status, endpoint, call, app, robot, clocks, lost>>

(* A signal reaches the thread only while it waits. *)
NotifyOne == at' = IF at = "waiting" THEN "head" ELSE at

-----------------------------------------------------------------------------
(* The program's thread, once the constructor has returned *)

AskForLevel(l) ==
  /\ at \notin {"construct", "first"}
  /\ program = "idle"
  /\ wanted' = l
  /\ program' = "setting"
  /\ UNCHANGED <<keepAlive, endpoint, call, robot, clocks, lost>>

SetStopLevel ==
  /\ program = "setting"
  /\ MutexFree
  /\ program' = "idle"
  /\ IF desired = wanted THEN UNCHANGED <<desired, at, lag>>
     ELSE desired' = wanted /\ NotifyOne /\ lag' = 0
  /\ UNCHANGED <<alive, status, endpoint, call, wanted, robot, elapsed, silence, lost>>

(* StopKeepAliveThread stops the thread, then needs the mutex. *)
StopThread ==
  /\ at \notin {"construct", "first"}
  /\ program = "idle"
  /\ alive
  /\ alive' = FALSE
  /\ NotifyOne
  /\ program' = "stopping"
  /\ UNCHANGED <<desired, status, endpoint, call, wanted, robot, clocks, lost>>

Disable ==
  /\ program = "stopping"
  /\ MutexFree
  /\ UpdateStatus("DISABLED")
  /\ program' = "idle"
  /\ UNCHANGED <<alive, at, desired, endpoint, call, wanted, robot, clocks, lost>>

(* The destructor stops the thread and joins it. *)
Destroy ==
  /\ at \notin {"construct", "first"}
  /\ program = "idle"
  /\ alive' = FALSE
  /\ NotifyOne
  /\ program' = "joining"
  /\ UNCHANGED <<desired, status, endpoint, call, wanted, robot, clocks, lost>>

Join ==
  /\ program = "joining"
  /\ at = "ended"
  /\ program' = "destroyed"
  /\ UNCHANGED <<keepAlive, endpoint, call, wanted, robot, clocks, lost>>

-----------------------------------------------------------------------------
(* The robot: a check-in is valid if it answers the robot's challenge, if  *)
(* it gave one, and every answer has the next challenge                    *)
(* (protos/bosdyn/api/estop.proto:94).                                     *)

Valid == registered /\ (expecting => call.answers = "current")

Serve ==
  /\ call.at = "sent"
  /\ call' = [call EXCEPT !.at = "served",
                          !.verdict = IF ~registered THEN "UNKNOWN_ENDPOINT"
                                      ELSE IF Valid THEN "OK" ELSE "INCORRECT"]
  /\ expecting' = (expecting \/ registered)
  /\ challenge' = IF Valid /\ challenge = "current" THEN "stale" ELSE challenge
  /\ IF Valid THEN asserted' = call.level /\ silence' = 0
              ELSE UNCHANGED <<asserted, silence>>
  /\ lag' = IF Valid /\ call.level = desired THEN 0 ELSE lag
  /\ UNCHANGED <<keepAlive, first, app, registered, elapsed, lost>>

Answer ==
  /\ call.at = "served"
  /\ call' = [call EXCEPT !.at = "done"]
  /\ UNCHANGED <<keepAlive, endpoint, app, robot, clocks, lost>>

(* The request or its answer is lost, or comes too late. *)
RpcError ==
  /\ call.at \in {"sent", "served"}
  /\ lost < MaxLost
  /\ lost' = lost + 1
  /\ call' = [call EXCEPT !.at = "done", !.verdict = "RPC_ERROR"]
  /\ UNCHANGED <<keepAlive, endpoint, app, robot, clocks>>

(* Another client replaces the E-Stop configuration. *)
Forget ==
  /\ registered
  /\ registered' = FALSE
  /\ UNCHANGED <<keepAlive, endpoint, call, app, expecting, asserted, clocks, lost>>

-----------------------------------------------------------------------------
Tick ==
  /\ program \in {"setting", "stopping"} => ~MutexFree
  /\ \/ at \in {"first", "checkin"} /\ call.at # "done" /\ elapsed < RpcTime
     \/ at = "waiting" /\ elapsed < Interval
  /\ elapsed' = elapsed + 1
  /\ lag' = IF asserted # desired /\ lag <= InTime THEN lag + 1 ELSE lag
  /\ silence' = IF silence <= InTime THEN silence + 1 ELSE silence
  /\ UNCHANGED <<keepAlive, endpoint, call, app, robot, lost>>

(* The endpoint was registered, which has made the first check-in, or it   *)
(* was just made, or it takes over another client's configuration.         *)
Init ==
  /\ alive = TRUE /\ at = "construct" /\ desired = "NONE" /\ status = "OK"
  /\ \/ first = FALSE /\ challenge = "current" /\ expecting = TRUE
     \/ first = TRUE /\ challenge = "none" /\ expecting \in BOOLEAN
  /\ call = NoCall
  /\ program = "idle" /\ wanted = "NONE"
  /\ registered = TRUE /\ asserted = "CUT"
  /\ elapsed = 0 /\ lag = 0 /\ silence = 0 /\ lost = 0

Thread ==
  \/ FirstCheckIn \/ FirstCheckedIn
  \/ Loop \/ CheckedIn \/ Judge \/ WaitFor \/ WakeUp

Finish == SetStopLevel \/ Disable \/ Join

Next ==
  \/ Thread
  \/ (\E l \in Level : AskForLevel(l)) \/ StopThread \/ Destroy \/ Finish
  \/ Serve \/ Answer \/ RpcError \/ Forget
  \/ Tick

Spec == Init /\ [][Next]_vars

(* Threads run, calls are served and answered, or fail in the end. *)
FairSpec ==
  /\ Spec
  /\ WF_vars(Thread) /\ WF_vars(Finish)
  /\ WF_vars(Serve) /\ WF_vars(Answer)

-----------------------------------------------------------------------------
TypeOK ==
  /\ alive \in BOOLEAN
  /\ at \in {"construct", "first", "head", "checkin", "judge", "unlocked", "waiting", "ended"}
  /\ desired \in Level /\ wanted \in Level /\ asserted \in Level
  /\ status \in Status
  /\ first \in BOOLEAN /\ registered \in BOOLEAN /\ expecting \in BOOLEAN
  /\ challenge \in {"none", "current", "stale"}
  /\ call \in Call
  /\ program \in {"idle", "setting", "stopping", "joining", "destroyed"}
  /\ elapsed \in Nat /\ lag \in Nat /\ silence \in Nat /\ lost \in 0 .. MaxLost

(* Once disabled, by the program or because the robot forgot the endpoint, *)
(* the keep-alive never shows another status, whatever check-in was under  *)
(* way at the time (estop_keepalive.cpp:55).                               *)
StaysDisabled == [][status = "DISABLED" => status' = "DISABLED"]_vars

(* While calls get through, the robot never waits longer for a valid       *)
(* check-in than the interval and a call (estop_keepalive.cpp:133).        *)
SilenceIsBounded ==
  lost = 0 /\ alive /\ registered /\ at \notin {"construct", "first"} => silence <= InTime

(* While calls get through, a stop level is asserted within an interval    *)
(* and a call of the time it was set, even if its signal was lost          *)
(* (estop_keepalive.cpp:68, estop_keepalive.cpp:144).                      *)
StopArrivesInTime ==
  lost = 0 /\ alive /\ registered /\ desired # asserted => lag <= InTime

(* Setting another stop level wakes the thread: it never waits with a      *)
(* level it has not sent (estop_keepalive.cpp:72).                         *)
SettingWakes ==
  at = "waiting" /\ alive /\ registered => desired = asserted

(* While calls get through, valid check-ins come again and again until the *)
(* keep-alive is stopped or the robot forgets the endpoint                 *)
(* (estop_endpoint.cpp:166, estop_keepalive.cpp:94).                       *)
ChecksInForever ==
  []<>((at = "judge" /\ call.verdict = "OK") \/ ~alive \/ ~registered \/ lost > 0)

(* The keep-alive keeps the E-Stop from timing out (estop_keepalive.h:31), *)
(* a failed call notwithstanding.                                          *)
ResumesCheckIn ==
  []<>((at = "judge" /\ call.verdict = "OK") \/ ~alive \/ ~registered)

(* A keep-alive that is stopped ends its thread, and the call or the       *)
(* destructor that stops it returns (estop_keepalive.cpp:49,               *)
(* estop_keepalive.cpp:77).                                                *)
StopEnds == ~alive ~> (at = "ended" /\ program \in {"idle", "destroyed"})
=============================================================================
