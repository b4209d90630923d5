------------------------ MODULE EstopKeepAliveProofs ------------------------
(***************************************************************************)
(* Theorems about the software E-Stop for every interval between check-ins *)
(* and every time a check-in may take.                                     *)
(***************************************************************************)
EXTENDS EstopKeepAlive, TLAPS

(* No call has failed, and neither the program nor the robot has stopped   *)
(* the thread.                                                             *)
Undisturbed == lost = 0 /\ registered /\ alive

(* The longest time from the start of a check-in to the start of the next. *)
Cycle == IF Interval < RpcTime THEN RpcTime ELSE Interval

(* The robot has waited at most n ticks for a check-in, and for the level  *)
(* the program desires.                                                    *)
Behind(n) == silence <= n /\ (desired # asserted => lag <= n)

(* The robot has no check-in to answer. *)
NothingSent == call.at \notin {"sent", "served"}

(* Between check-ins the endpoint has the robot's challenge, so that the   *)
(* next check-in is valid, and the robot has waited no longer than since   *)
(* the last one started.                                                   *)
Rested ==
  at \in {"judge", "unlocked", "waiting"} =>
    /\ challenge = "current"
    /\ NothingSent
    /\ elapsed <= Cycle
    /\ Behind(elapsed)

(* Only an endpoint that has not checked in before may fail to answer the  *)
(* challenge, and then takes it over.                                      *)
Starting ==
  /\ at = "construct" =>
       /\ first \/ challenge = "current"
       /\ NothingSent
       /\ Behind(0)
  /\ at = "first" =>
       /\ elapsed <= RpcTime
       /\ Behind(elapsed)
       /\ \/ /\ call.at = "sent"
             /\ call.level = desired
             /\ first \/ call.answers = "current"
          \/ /\ call.at \in {"served", "done"}
             /\ call.verdict = "OK" \/ (first /\ call.verdict = "INCORRECT")

Starts ==
  at = "head" => challenge = "current" /\ NothingSent /\ Behind(Cycle)

(* A check-in under way has the level the program desires, because nobody  *)
(* can change it while the mutex is held.                                  *)
ChecksIn ==
  at = "checkin" =>
    /\ elapsed <= RpcTime
    /\ \/ /\ call.at = "sent"
          /\ call.level = desired /\ call.answers = "current"
          /\ Behind(Cycle + elapsed)
       \/ /\ call.at \in {"served", "done"}
          /\ call.verdict = "OK"
          /\ asserted = desired
          /\ Behind(elapsed)

Timely == Undisturbed => Starting /\ Starts /\ ChecksIn /\ Rested /\ at # "ended"

(* The inductive invariant. *)
EstopInv == TypeOK /\ Timely

-----------------------------------------------------------------------------
(* A cycle lasts as long as the interval and as a call. *)
LEMMA CycleBounds ==
  /\ Cycle \in Nat
  /\ Interval <= Cycle /\ RpcTime <= Cycle
  /\ InTime = RpcTime + Cycle
  BY TimeAssumption DEF Cycle, InTime

(* A check-in that is over is a call like any other. *)
LEMMA NoCallType == NoCall \in Call
  BY DEF NoCall, Call, Level, Verdict

(* Every step keeps the types. *)
LEMMA NextTypeOK == TypeOK /\ [Next]_vars => TypeOK'
  <1> SUFFICES ASSUME TypeOK, [Next]_vars PROVE TypeOK'
    OBVIOUS
  <1>0. call \in Call /\ elapsed \in Nat /\ lag \in Nat /\ silence \in Nat
        /\ lost \in 0 .. MaxLost /\ desired \in Level /\ asserted \in Level
    BY DEF TypeOK
  <1>1. CASE FirstCheckIn \/ Loop
    <2>1. CheckIn => call' \in Call
      BY DEF CheckIn, TypeOK, Call, Verdict
    <2> QED
      BY <1>1, <2>1 DEF FirstCheckIn, Loop, TypeOK, endpoint, app, robot
  <1>2. CASE FirstCheckedIn
    BY <1>2, NoCallType DEF FirstCheckedIn, TakeChallenge, TypeOK, app, robot, clocks
  <1>3. CASE CheckedIn
    <2>1. Result \in Verdict
      BY <1>0 DEF Result, Call, Verdict
    <2>2. call' \in Call
      BY <1>0, <1>3, <2>1 DEF CheckedIn, Call
    <2> QED
      BY <1>3, <2>2 DEF CheckedIn, TakeChallenge, TypeOK, app, robot, clocks
  <1>4. CASE Judge
    <2>1. status' \in Status /\ alive' \in BOOLEAN
      BY <1>4 DEF Judge, UpdateStatus, TypeOK, Status
    <2> QED
      BY <1>4, <2>1, NoCallType DEF Judge, TypeOK, endpoint, app, robot, clocks
  <1>5. CASE WaitFor \/ WakeUp
    BY <1>5 DEF WaitFor, WakeUp, TypeOK, endpoint, app, robot, clocks
  <1>6. ASSUME NEW l \in Level, AskForLevel(l) PROVE TypeOK'
    BY <1>6 DEF AskForLevel, TypeOK, keepAlive, endpoint, robot, clocks
  <1>7. CASE SetStopLevel
    BY <1>7 DEF SetStopLevel, NotifyOne, TypeOK, endpoint, robot
  <1>8. CASE StopThread \/ Destroy
    BY <1>8 DEF StopThread, Destroy, NotifyOne, TypeOK, endpoint, robot, clocks
  <1>9. CASE Disable \/ Join
    BY <1>9 DEF Disable, Join, UpdateStatus, TypeOK, Status, keepAlive, endpoint,
                robot, clocks
  <1>10. CASE Serve
    <2> DEFINE v == IF ~registered THEN "UNKNOWN_ENDPOINT"
                    ELSE IF Valid THEN "OK" ELSE "INCORRECT"
    <2>1. v \in Verdict
      BY DEF Verdict
    <2>2. call' = [call EXCEPT !.at = "served", !.verdict = v]
      BY <1>10 DEF Serve
    <2> HIDE DEF v
    <2>3. call' \in Call
      BY <1>0, <2>1, <2>2 DEF Call
    <2>4. expecting' \in BOOLEAN
      BY <1>10 DEF Serve, TypeOK
    <2>5. lag' \in Nat /\ silence' \in Nat
      BY <1>0, <1>10 DEF Serve
    <2>6. asserted' \in Level
      BY <1>0, <1>10 DEF Serve, Call
    <2>7. challenge' \in {"none", "current", "stale"}
      BY <1>10 DEF Serve, TypeOK
    <2> QED
      BY <1>10, <2>3, <2>4, <2>5, <2>6, <2>7 DEF Serve, TypeOK, keepAlive, app
  <1>11. CASE Answer
    <2>1. call' \in Call
      BY <1>0, <1>11 DEF Answer, Call
    <2> QED
      BY <1>11, <2>1 DEF Answer, TypeOK, keepAlive, endpoint, app, robot, clocks
  <1>12. CASE RpcError
    <2>1. call' \in Call
      BY <1>0, <1>12 DEF RpcError, Call, Verdict
    <2>2. lost' \in 0 .. MaxLost
      BY <1>0, <1>12, TimeAssumption DEF RpcError
    <2> QED
      BY <1>12, <2>1, <2>2 DEF RpcError, TypeOK, keepAlive, endpoint, app, robot, clocks
  <1>13. CASE Forget
    BY <1>13 DEF Forget, TypeOK, keepAlive, endpoint, app, clocks
  <1>14. CASE Tick
    <2>1. elapsed' \in Nat /\ lag' \in Nat /\ silence' \in Nat
      BY <1>0, <1>14 DEF Tick
    <2> QED
      BY <1>14, <2>1 DEF Tick, TypeOK, keepAlive, endpoint, app, robot
  <1>15. CASE UNCHANGED vars
    BY <1>15 DEF vars, TypeOK
  <1> QED
    BY <1>1, <1>2, <1>3, <1>4, <1>5, <1>6, <1>7, <1>8, <1>9, <1>10, <1>11, <1>12,
       <1>13, <1>14, <1>15 DEF Next, Thread, Finish

(* The program and the robot start with the types and in time. *)
LEMMA InitEstopInv == Init => EstopInv
  <1> SUFFICES ASSUME Init PROVE EstopInv
    OBVIOUS
  <1>1. TypeOK
    <2>1. lost \in 0 .. MaxLost /\ elapsed \in Nat /\ lag \in Nat /\ silence \in Nat
      BY TimeAssumption DEF Init
    <2> QED
      BY <2>1, NoCallType DEF Init, TypeOK, Level, Status
  <1>2. Behind(0) /\ NothingSent /\ (first \/ challenge = "current")
    BY DEF Init, Behind, NothingSent, NoCall
  <1> QED
    BY <1>1, <1>2 DEF Init, EstopInv, Timely, Starting, Starts, ChecksIn, Rested

(* Every step is in time. *)
LEMMA NextTimely == TypeOK /\ Timely /\ [Next]_vars => Timely'
  <1> SUFFICES ASSUME TypeOK, Timely, [Next]_vars, Undisturbed'
               PROVE  (Starting /\ Starts /\ ChecksIn /\ Rested /\ at # "ended")'
    BY DEF Timely
  <1> DEFINE Good == Starting /\ Starts /\ ChecksIn /\ Rested /\ at # "ended"
  <1> USE TimeAssumption, CycleBounds DEF TypeOK
  <1>u. ASSUME Undisturbed PROVE Good
    BY <1>u DEF Timely
  <1> USE DEF Undisturbed, Starting, Starts, ChecksIn, Rested, NothingSent, Behind
  <1>1. CASE FirstCheckIn
    BY <1>1, <1>u DEF FirstCheckIn, CheckIn, endpoint, app, robot
  <1>2. CASE FirstCheckedIn
    BY <1>2, <1>u DEF FirstCheckedIn, TakeChallenge, NoCall, app, robot, clocks
  <1>3. CASE Loop
    BY <1>3, <1>u DEF Loop, CheckIn, endpoint, app, robot
  <1>4. CASE CheckedIn
    BY <1>4, <1>u DEF CheckedIn, TakeChallenge, Result, app, robot, clocks
  <1>5. CASE Judge
    BY <1>5, <1>u DEF Judge, NoCall, endpoint, app, robot, clocks
  <1>6. CASE WaitFor
    BY <1>6, <1>u DEF WaitFor, endpoint, app, robot, clocks
  <1>17. CASE WakeUp
    <2>1. /\ challenge = "current" /\ NothingSent
          /\ elapsed <= Cycle /\ Behind(elapsed)
      BY <1>17, <1>u DEF WakeUp, robot
    <2>2. Behind(Cycle)
      BY <2>1
    <2>3. UNCHANGED <<challenge, call, desired, asserted, lag, silence>> /\ at' = "head"
      BY <1>17 DEF WakeUp, endpoint, app, robot, clocks
    <2> QED
      BY <2>1, <2>2, <2>3
  <1>7. ASSUME NEW l \in Level, AskForLevel(l) PROVE Good'
    BY <1>7, <1>u DEF AskForLevel, keepAlive, endpoint, robot, clocks
  <1>8. CASE SetStopLevel
    BY <1>8, <1>u DEF SetStopLevel, MutexFree, NotifyOne, endpoint, robot
  <1>9. CASE StopThread \/ Destroy
    BY <1>9 DEF StopThread, Destroy
  <1>10. CASE Disable \/ Join
    BY <1>10, <1>u DEF Disable, Join, keepAlive, endpoint, robot, clocks
  <1>11. CASE Serve
    <2>1. /\ UNCHANGED <<at, desired, elapsed, first>>
          /\ call.at = "sent" /\ call'.at = "served"
      BY <1>11 DEF Serve, Call, keepAlive
    <2>2. registered /\ Good
      BY <1>11, <1>u DEF Serve, keepAlive
    <2>3. CASE Valid
      <3>1. /\ call'.verdict = "OK" /\ asserted' = call.level /\ silence' = 0
            /\ lag' = IF call.level = desired THEN 0 ELSE lag
        BY <1>11, <2>2, <2>3 DEF Serve, Call
      <3>2. CASE at = "first"
        BY <2>1, <2>2, <3>1, <3>2
      <3>3. CASE at = "checkin"
        BY <2>1, <2>2, <3>1, <3>3
      <3> QED
        BY <2>1, <2>2, <3>2, <3>3
    <2>4. CASE ~Valid
      <3>1. call.answers # "current"
        BY <2>2, <2>4 DEF Valid
      <3>2. at = "first" /\ first
        BY <2>1, <2>2, <3>1
      <3>3. call'.verdict = "INCORRECT" /\ UNCHANGED <<asserted, silence, lag>>
        BY <1>11, <2>2, <2>4 DEF Serve, Call
      <3> QED
        BY <2>1, <2>2, <3>2, <3>3
    <2> QED
      BY <2>3, <2>4
  <1>12. CASE Answer
    BY <1>12, <1>u DEF Answer, Call, keepAlive, endpoint, app, robot, clocks
  <1>16. CASE RpcError
    <2>1. lost' # 0
      BY <1>16 DEF RpcError
    <2> QED
      BY <2>1
  <1>13. CASE Forget
    BY <1>13 DEF Forget
  <1>14. CASE Tick
    BY <1>14, <1>u DEF Tick, keepAlive, endpoint, app, robot
  <1>15. CASE UNCHANGED vars
    BY <1>15, <1>u DEF vars
  <1> QED
    BY <1>1, <1>2, <1>3, <1>4, <1>5, <1>6, <1>7, <1>8, <1>9, <1>10, <1>11, <1>12,
       <1>13, <1>14, <1>15, <1>16, <1>17 DEF Next, Thread, Finish

(* The invariant holds always. *)
LEMMA EstopInvariant == Spec => []EstopInv
  <1>1. EstopInv /\ [Next]_vars => EstopInv'
    BY NextTypeOK, NextTimely DEF EstopInv
  <1> QED
    BY <1>1, InitEstopInv, PTL DEF Spec

-----------------------------------------------------------------------------
(* The keep-alive, the endpoint and the robot have their types.            *)
THEOREM EstopTypeOK == Spec => []TypeOK
  <1>1. EstopInv => TypeOK
    BY DEF EstopInv
  <1> QED
    BY <1>1, EstopInvariant, PTL

(* A keep-alive that is disabled stays so (estop_keepalive.cpp:55).        *)
THEOREM EstopStaysDisabled == Spec => StaysDisabled
  <1>1. [Next]_vars => [status = "DISABLED" => status' = "DISABLED"]_vars
    BY DEF vars, Next, Thread, Finish, FirstCheckIn, FirstCheckedIn, Loop, CheckedIn,
       Judge, WaitFor, WakeUp, AskForLevel, SetStopLevel, StopThread, Disable, Destroy,
       Join, Serve, Answer, RpcError, Forget, Tick, UpdateStatus, keepAlive
  <1> QED
    BY <1>1, PTL DEF Spec, StaysDisabled

(* While calls get through, the robot never waits longer for a valid       *)
(* check-in than the interval and a call (estop_keepalive.cpp:133).        *)
THEOREM EstopSilenceIsBounded == Spec => []SilenceIsBounded
  <1>1. EstopInv => SilenceIsBounded
    BY TimeAssumption, CycleBounds
       DEF EstopInv, TypeOK, Timely, Undisturbed, Starts, ChecksIn, Rested, Behind,
           SilenceIsBounded
  <1> QED
    BY <1>1, EstopInvariant, PTL

(* While calls get through, the level the program desires is asserted      *)
(* within an interval and a call, even if the thread missed the signal     *)
(* (estop_keepalive.cpp:68, estop_keepalive.cpp:144).                      *)
THEOREM EstopStopArrivesInTime == Spec => []StopArrivesInTime
  <1>1. EstopInv => StopArrivesInTime
    BY TimeAssumption, CycleBounds
       DEF EstopInv, TypeOK, Timely, Undisturbed, Starting, Starts, ChecksIn, Rested,
           Behind, StopArrivesInTime
  <1> QED
    BY <1>1, EstopInvariant, PTL
=============================================================================
