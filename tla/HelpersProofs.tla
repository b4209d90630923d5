--------------------------- MODULE HelpersProofs ----------------------------
(***************************************************************************)
(* Theorems about the helpers that block, wait or run for the program: the *)
(* commands that return when they are done (CommandHelpers), the estimate  *)
(* of the robot's clock (TimeSync) and the threads that renew what the     *)
(* robot forgets (PeriodicThreads); and about the tree of frames in which  *)
(* it computes (FrameTree).  The four share nothing; each theorem is about *)
(* the specification it names, for every interval, timeout and number of   *)
(* attempts, controllers, waiters and clocks, frames and poses.            *)
(***************************************************************************)
EXTENDS CommandHelpers, TimeSync, PeriodicThreads, FrameTree,
        FiniteSetTheorems, WellFoundedInduction, TLAPS

-----------------------------------------------------------------------------
(* Commands *)

Place == {"call", "build", "send", "check", "poll", "answered", "sleep", "returned"}

TypeOK ==
  /\ job \in Jobs /\ timed \in BOOLEAN
  /\ pc \in Place /\ stage \in {"first", "last"}
  /\ now \in Nat /\ deadline \in Timeout .. LookupTime + Timeout /\ took \in 0 .. RpcTime
  /\ command \in {"none", "running", "reached", "failed", "overridden"}
  /\ answer \in {"none", "rpcTimeout", "rpcError",
                 "running", "reached", "failed", "overridden"}
  /\ motors \in BOOLEAN /\ computer \in BOOLEAN

(* Where a function is in its course: an outcome is the end of it, only    *)
(* those that send a command are about to send one, and answers are judged *)
(* when there is one.                                                      *)
InCourse ==
  /\ outcome # "none" => pc = "returned"
  /\ pc \in {"build", "send"} => job \notin Unsent
  /\ pc = "build" => job = "dock"
  /\ stage = "last" => job \in {"robotOff", "dock"}
  /\ job = "dock" => pc # "check"
  /\ job \notin Unsent /\ pc \in {"check", "poll", "answered", "sleep"} => command # "none"
  /\ job \in Unsent => command # "none"
  /\ pc \in {"answered", "sleep"} => answer # "none"

(* How late it can be at each place; a function with no deadline has no    *)
(* clock; only the power functions leave a call, and they have one.        *)
InTime ==
  /\ ~timed => now = 0 /\ job \notin Polling
  /\ job = "dock" => ~timed
  /\ job = "services" /\ answer = "none" => now = 0
  /\ pc = "call" => now = 0
  /\ pc \in {"build", "send"} => now <= deadline
  /\ pc \in {"poll", "answered"} => now < deadline
  /\ pc = "sleep" => now <= deadline + RpcTime
  /\ now <= deadline + RpcTime + Poll

(* A good answer is still true when it is judged. *)
GoodAnswerHolds ==
  pc = "answered" /\ answer = "reached" =>
    IF IsForMotors THEN ~motors ELSE command = "reached"

(* The motors are off before the computer's command, and the computer is   *)
(* when that command has been carried out.                                 *)
MotorsFirst == IsForRobot => ~motors

ComputerFollows ==
  IsForRobot /\ command = "reached" /\ pc \in {"check", "poll", "answered", "sleep"} =>
    ~computer

HelpersInv ==
  /\ TypeOK
  /\ InCourse
  /\ InTime
  /\ GoodAnswerHolds
  /\ MotorsFirst
  /\ ComputerFollows
  /\ SuccessIsTrue

-----------------------------------------------------------------------------
(* A call has just been made. *)
LEMMA InitHelpersInv == Init => HelpersInv
  <1> SUFFICES ASSUME Init
               PROVE  HelpersInv
    OBVIOUS
  <1> USE HelpersAssumption DEF Init, Unsent, Blocking, Polling, IsForRobot, LookupTime
  <1>1. TypeOK
    <2>1. timed \in BOOLEAN
      BY Zenon
    <2> QED
      BY <2>1 DEF TypeOK, Place
  <1>2. InCourse
    BY DEF InCourse
  <1>3. InTime
    <2>1. (job = "dock" => ~timed) /\ (~timed => job \notin Polling)
      BY Zenon
    <2> QED
      BY <2>1 DEF InTime
  <1>4. GoodAnswerHolds /\ MotorsFirst /\ ComputerFollows /\ SuccessIsTrue
    BY DEF GoodAnswerHolds, MotorsFirst, ComputerFollows, SuccessIsTrue
  <1> QED
    BY <1>1, <1>2, <1>3, <1>4 DEF HelpersInv

(* Every step keeps the invariant. *)
LEMMA NextHelpersInv == HelpersInv /\ [Next]_vars => HelpersInv'
  <1> SUFFICES ASSUME HelpersInv, [Next]_vars
               PROVE  HelpersInv'
    OBVIOUS
  <1> USE HelpersAssumption
  <1> USE DEF HelpersInv, TypeOK, Place, InCourse, InTime, GoodAnswerHolds, MotorsFirst,
              ComputerFollows, SuccessIsTrue, IsForMotors, IsForRobot, Unsent, Blocking,
              Polling, LookupTime
  <1>1. CASE Prepare
    BY <1>1 DEF Prepare, Passes, Return, asked, robot
  <1>2. CASE BuildFails
    BY <1>2 DEF BuildFails, Return, asked, course, robot
  <1>3. CASE Build
    BY <1>3 DEF Build, asked, robot
  <1>4. CASE BuildInVain
    BY <1>4 DEF BuildInVain, Return, asked, course
  <1>5. CASE Accepted
    BY <1>5 DEF Accepted, CallTakesTime, Passes, asked, course
  <1>6. CASE DoneAtOnce
    BY <1>6 DEF DoneAtOnce, CallTakesTime, Passes, Return, asked, course
  <1>7. CASE NotAccepted
    BY <1>7 DEF NotAccepted, CallTakesTime, Passes, Return, NextAttempt, asked
  <1>8. CASE AbandonSend
    BY <1>8 DEF AbandonSend, Return, asked, course
  <1>9. CASE Check
    BY <1>9 DEF Check, Return, asked, course, robot
  <1>10. CASE Answer
    BY <1>10 DEF Answer, asked, course, robot
  <1>11. CASE AnswerArrives
    <2>1. PICK d \in 0 .. RpcTime : AnswerAfter(d)
      BY <1>11 DEF AnswerArrives
    <2>2. CASE job \in Polling /\ now + d > deadline
      <3>1. /\ took' = IF timed THEN d ELSE 0
            /\ now' = deadline /\ Return("timeout") /\ UNCHANGED <<stage, deadline>>
            /\ pc = "answered"
            /\ UNCHANGED <<asked, made, answer, told, robot>>
        BY ONLY <1>11, <2>1, <2>2, Zenon DEF AnswerArrives, AnswerAfter
      <3>2. deadline > 0 /\ job # "dock" /\ timed
        BY <2>2
      <3> QED
        BY <3>1, <3>2 DEF Return, asked, robot
    <2>3. CASE ~(job \in Polling /\ now + d > deadline) /\ job = "dock"
      BY <1>11, <2>1, <2>3
         DEF AnswerArrives, AnswerAfter, Passes, Return, JudgeDocking, AfterAttempt,
             AskAgain, NextAttempt, Verdict, VerdictOnFailure, asked, robot
    <2>4. CASE ~(job \in Polling /\ now + d > deadline) /\ job # "dock"
      <3>1. /\ took' = IF timed THEN d ELSE 0
            /\ Passes(d) /\ Judge(Verdict(answer))
            /\ pc = "answered"
            /\ UNCHANGED <<asked, made, answer, told, robot>>
        <4> HIDE DEF Polling
        <4> QED
          BY ONLY <1>11, <2>1, <2>4, Zenon DEF AnswerArrives, AnswerAfter
      <3>2. CASE answer = "reached"
        BY <3>1, <3>2, <2>4 DEF Passes, Return, Judge, GoOn, Verdict, asked, robot
      <3>3. CASE answer # "reached" /\ Verdict(answer) = "again"
        BY <3>1, <3>3, <2>4 DEF Passes, Judge, AskAgain, asked, robot
      <3>4. CASE answer # "reached" /\ Verdict(answer) # "again"
        <4>1. Verdict(answer) = "error"
          BY <3>1, <3>4, <2>4 DEF Verdict, VerdictOnFailure
        <4> QED
          BY <3>1, <3>4, <4>1, <2>4 DEF Passes, Return, Judge, asked, robot
      <3> QED
        BY <3>2, <3>3, <3>4
    <2> QED
      BY <2>2, <2>3, <2>4
  <1>12. CASE Sleep
    BY <1>12 DEF Sleep, Passes, Longer, asked, course, robot
  <1>13. CASE Achieve
    BY <1>13 DEF Achieve, asked, course
  <1>14. CASE GiveUp
    BY <1>14 DEF GiveUp, asked, course
  <1>15. CASE Tell
    BY <1>15 DEF Tell, asked, course, robot
  <1>16. CASE UNCHANGED vars
    BY <1>16 DEF vars
  <1> QED
    BY <1>1, <1>2, <1>3, <1>4, <1>5, <1>6, <1>7, <1>8, <1>9, <1>10, <1>11, <1>12, <1>13, <1>14, <1>15, <1>16
       DEF Next, Helper

(* The invariant holds always. *)
LEMMA HelpersInvariant == Spec => []HelpersInv
  BY InitHelpersInv, NextHelpersInv, PTL DEF Spec

-----------------------------------------------------------------------------
(* A success is what the robot has reached (power_client_helper.cpp:65,    *)
(* robot_command_helpers.cpp:190, docking_helpers.cpp:48).                 *)
THEOREM HelpersSuccessIsTrue == Spec => []SuccessIsTrue
  <1>1. HelpersInv => SuccessIsTrue
    BY DEF HelpersInv
  <1> QED
    BY <1>1, HelpersInvariant, PTL

(* A function with a timeout is late by one call and one sleep at most, in *)
(* addition to the calls by which its clients are looked up                *)
(* (power_client_helper.cpp:179, robot.cpp:438).                           *)
THEOREM HelpersPunctual == Spec => []Punctual
  <1>1. HelpersInv => Punctual
    BY HelpersAssumption DEF HelpersInv, TypeOK, InTime, Punctual, LookupTime
  <1> QED
    BY <1>1, HelpersInvariant, PTL

(* The computer goes off after the motors only: it takes the robot to      *)
(* carry out the closing command, which is not sent before.                *)
THEOREM HelpersComputerGoesLast == Spec => ComputerGoesLast
  <1>1. HelpersInv /\ [Next]_vars => [computer /\ ~computer' => ~motors]_vars
    BY DEF HelpersInv, TypeOK, MotorsFirst, Next, Helper, vars, asked, course, robot,
           Prepare, BuildFails, Build, BuildInVain, Accepted, DoneAtOnce, NotAccepted,
           AbandonSend, Check, Answer, AnswerArrives, Sleep, Achieve, GiveUp, Tell
  <1> QED
    BY <1>1, HelpersInvariant, PTL DEF Spec, ComputerGoesLast

-----------------------------------------------------------------------------
(* Time synchronisation *)

ClockId == Clocks \cup {NoClock}

CallTypeOK ==
  /\ endpoint \in [status : SyncStatus, clock : ClockId, timed : BOOLEAN]
  /\ call \in [Updaters -> {"none", "asked", "served", "answered", "failed"}]
  /\ request \in [Updaters -> [clock : ClockId, timed : BOOLEAN]]
  /\ response \in [Updaters -> [status : SyncStatus, clock : ClockId]]
  /\ late \subseteq Updaters /\ overtaken \subseteq Waiters

ThreadTypeOK ==
  /\ thread \in {"top", "sleeping", "updating", "ended"}
  /\ shouldExit \in BOOLEAN /\ stopped \in BOOLEAN /\ joinable \in BOOLEAN
  /\ control \in [Controllers -> {"idle", "joining", "terminated"}]
  /\ crossed \in BOOLEAN

EstablishTypeOK ==
  establishing \subseteq Establishers /\ samples \in [Establishers -> 0 .. MaxSamples]

WaiterTypeOK ==
  waiter \in [Waiters -> {"idle", "waiting", "synced", "converting",
                         "converting without skew"}]

ServiceTypeOK == ready \in BOOLEAN /\ known \in [Clocks -> 0 .. Needed]

SyncTypeOK ==
  CallTypeOK /\ ThreadTypeOK /\ EstablishTypeOK /\ WaiterTypeOK /\ ServiceTypeOK

(* Somebody is in Stop. *)
Joining == \E k \in Controllers : control[k] = "joining"

(* The program has a thread to join as long as it runs, and after that     *)
(* while somebody who told it to exit is about to join it.               *)
ThreadHeld ==
  /\ stopped <=> thread = "ended"
  /\ thread # "ended" => joinable
  /\ joinable /\ shouldExit <=> Joining
  /\ joinable /\ thread = "ended" => shouldExit

(* One controller at a time is in Stop, and none has ended the program. *)
InTurn ==
  /\ \A j, k \in Controllers : control[j] = "joining" /\ control[k] = "joining" => j = k
  /\ ~Terminated

TurnInv == ~crossed => ThreadHeld /\ InTurn

(* The endpoint or a response has an estimate that the robot still has the *)
(* samples for.                                                            *)
Founded(c) == ready /\ c \in Clocks /\ known[c] >= Needed

Served(u) == call[u] \in {"served", "answered"}

(* An update that is not late asks for the endpoint's clock, and if the    *)
(* robot has all the samples that it needs of that, brings an estimate.    *)
Timely(u) ==
  /\ Underway(u) => request[u].clock = endpoint.clock
  /\ Served(u) /\ endpoint.status = "OK" => response[u].status = "OK"

(* Time sync, once established, is not lost by an update in time. *)
Lasting ==
  /\ endpoint.status = "OK" => Founded(endpoint.clock)
  /\ \A u \in Updaters :
       /\ Served(u) /\ response[u].status = "OK" => Founded(response[u].clock)
       /\ u \notin late => Timely(u)

(* Who has seen an estimate, and was not overtaken, can count on it. *)
Counting ==
  \A w \in Waiters \ overtaken :
    /\ waiter[w] = "synced" => endpoint.status = "OK"
    /\ waiter[w] # "converting without skew"

SyncInv == SyncTypeOK /\ Lasting /\ Counting

-----------------------------------------------------------------------------
(* No synchronisation has begun. *)
LEMMA InitSyncInv == SyncInit => SyncInv
  <1> USE TimeSyncAssumption DEF SyncInit, NoEstimate, NoRequest, NoResponse
  <1>1. SyncInit => CallTypeOK
    BY DEF CallTypeOK, ClockId, SyncStatus
  <1>2. SyncInit => ThreadTypeOK
    <2>1. SyncInit => shouldExit \in BOOLEAN /\ stopped \in BOOLEAN /\ joinable \in BOOLEAN
                      /\ crossed \in BOOLEAN
      BY Zenon
    <2> QED
      BY <2>1 DEF ThreadTypeOK
  <1>3. SyncInit => EstablishTypeOK /\ WaiterTypeOK /\ ServiceTypeOK
    <2>1. SyncInit => ready \in BOOLEAN
      BY Zenon
    <2> QED
      BY <2>1 DEF EstablishTypeOK, WaiterTypeOK, ServiceTypeOK
  <1>4. SyncInit => Lasting /\ Counting
    BY DEF Lasting, Counting, Timely, Underway, Served
  <1> QED
    BY <1>1, <1>2, <1>3, <1>4 DEF SyncInv, SyncTypeOK

(* What asks for an estimate and takes one keeps the types of both. *)
LEMMA UpdatingType ==
  ASSUME NEW u \in Updaters,
         CallTypeOK, Update(u) \/ GetNewEstimate(u)
  PROVE  CallTypeOK'
  <1> USE DEF CallTypeOK, ClockId
  <1>1. CASE Update(u)
    <2>1. (endpoint.clock # NoClock /\ endpoint.timed) \in BOOLEAN
      OBVIOUS
    <2>2. PICK sent \in BOOLEAN : sent = (endpoint.clock # NoClock /\ endpoint.timed)
      BY <2>1
    <2>3. [clock |-> endpoint.clock, timed |-> sent] \in [clock : Clocks \cup {NoClock}, timed : BOOLEAN]
      BY <2>2
    <2> QED
      BY <1>1, <2>2, <2>3 DEF Update, Ask
  <1>2. CASE GetNewEstimate(u)
    <2>1. UNCHANGED endpoint \/ endpoint' \in [status : SyncStatus, clock : Clocks \cup {NoClock}, timed : BOOLEAN]
      <3>1. response[u].status \in SyncStatus /\ response[u].clock \in Clocks \cup {NoClock}
        OBVIOUS
      <3>2. CASE UNCHANGED endpoint
        BY <3>2
      <3>3. CASE endpoint' = [status |-> response[u].status, clock |-> response[u].clock,
                              timed |-> TRUE]
        BY <3>1, <3>3, Zenon
      <3> QED
        BY <1>2, <3>2, <3>3 DEF GetNewEstimate, Store
    <2>2. late' \subseteq Updaters /\ overtaken' \subseteq Waiters
      BY <1>2 DEF GetNewEstimate, Store
    <2>3. /\ call' \in [Updaters -> {"none", "asked", "served", "answered", "failed"}]
          /\ request' \in [Updaters -> [clock : ClockId, timed : BOOLEAN]]
          /\ response' \in [Updaters -> [status : SyncStatus, clock : ClockId]]
      BY <1>2 DEF GetNewEstimate, Finish, NoRequest, NoResponse, SyncStatus
    <2> QED
      BY <2>1, <2>2, <2>3
  <1> QED
    BY <1>1, <1>2

(* So do the robot's answers. *)
LEMMA RobotType ==
  ASSUME NEW u \in Updaters, CallTypeOK, ServiceTypeOK, RobotGoes(u) \/ RobotGetsReady, RobotRest
  PROVE  CallTypeOK' /\ ServiceTypeOK'
  <1> USE TimeSyncAssumption
      DEF CallTypeOK, ServiceTypeOK, ClockId, SyncStatus, RobotRest
  <1>1. ASSUME AnswersNotReady(u) PROVE CallTypeOK' /\ ServiceTypeOK'
    BY <1>1 DEF AnswersNotReady, Respond, service
  <1>2. ASSUME AnswersNewcomer(u) PROVE CallTypeOK' /\ ServiceTypeOK'
    BY <1>2 DEF AnswersNewcomer, Respond
  <1>3. ASSUME AnswersKnown(u) PROVE CallTypeOK' /\ ServiceTypeOK'
    <2>1. request[u].clock \in Clocks /\ Counted(u) \in Nat
      BY <1>3 DEF AnswersKnown, Counted
    <2>2. CallTypeOK'
      BY <1>3, <2>1 DEF AnswersKnown, Respond
    <2>3. ServiceTypeOK'
      <3>1. known' = [known EXCEPT ![request[u].clock] =
                        IF Counted(u) < Needed THEN Counted(u) ELSE Needed]
            /\ ready' = ready
        BY <1>3 DEF AnswersKnown
      <3> QED
        BY <2>1, <3>1
    <2> QED
      BY <2>2, <2>3
  <1>4. ASSUME AnswerComes(u) \/ CallFails(u) PROVE CallTypeOK' /\ ServiceTypeOK'
    <2>1. UNCHANGED <<endpoint, request, late, overtaken, ready, known>>
      BY <1>4 DEF AnswerComes, CallFails, service
    <2>2. call' \in [Updaters -> {"none", "asked", "served", "answered", "failed"}]
      BY <1>4 DEF AnswerComes, CallFails
    <2>3. response' \in [Updaters -> [status : SyncStatus, clock : ClockId]]
      BY <1>4 DEF AnswerComes, CallFails, NoResponse
    <2> QED
      BY <2>1, <2>2, <2>3
  <1>5. ASSUME RobotGetsReady PROVE CallTypeOK' /\ ServiceTypeOK'
    <2>1. ready' \in BOOLEAN
      BY <1>5, Zenon DEF RobotGetsReady
    <2> QED
      BY <1>5, <2>1 DEF RobotGetsReady, calls
  <1> QED
    BY <1>1, <1>2, <1>3, <1>4, <1>5 DEF RobotGoes, RobotAnswers

(* What a step of the thread or of an establisher does to the estimate. *)
LEMMA ThreadUpdating ==
  ASSUME ThreadStep
  PROVE  /\ UNCHANGED updating \/ Update(SyncThread) \/ GetNewEstimate(SyncThread)
         /\ UNCHANGED <<establish, waiter, service>>
  BY DEF ThreadStep, ThreadExits, ThreadSleeps, ThreadAsks, ThreadUpdates

LEMMA EstablishUpdating ==
  ASSUME EstablishStep
  PROVE  /\ UNCHANGED updating \/ \E e \in Establishers : Update(e) \/ GetNewEstimate(e)
         /\ UNCHANGED <<thread, controls, waiter, service>>
  BY DEF EstablishStep, EstablishRest, Establish, EstablishGoes, EstablishAsks,
         EstablishUpdates, EstablishReturns

LEMMA ControlUpdating ==
  ASSUME ControllerStep
  PROVE  \/ UNCHANGED <<updating, waiter, service>>
         \/ StartTimeSync /\ UNCHANGED <<establish, waiter, service>>
  BY DEF ControllerStep, Control, Start, Stop, JoinThread

(* Every step keeps the types. *)
LEMMA NextSyncTypeOK == ASSUME SyncTypeOK, [SyncNext]_syncVars PROVE SyncTypeOK'
  <1> USE DEF SyncTypeOK
  <1>1. UNCHANGED updating => CallTypeOK'
    BY DEF CallTypeOK, updating
  <1>2. SyncThread \in Updaters /\ Establishers \subseteq Updaters
    BY DEF Updaters
  <1>3. CASE ThreadStep
    <2>1. CallTypeOK'
      BY <1>1, <1>2, <1>3, ThreadUpdating, UpdatingType
    <2>2. ThreadTypeOK'
      BY <1>3
         DEF ThreadStep, ThreadExits, ThreadSleeps, ThreadAsks, ThreadUpdates, ThreadTypeOK
    <2> QED
      BY <1>3, <2>1, <2>2, ThreadUpdating
         DEF EstablishTypeOK, WaiterTypeOK, ServiceTypeOK, service, establish
  <1>4. CASE EstablishStep
    <2>1. CallTypeOK'
      BY <1>1, <1>2, <1>4, EstablishUpdating, UpdatingType
    <2>2. EstablishTypeOK'
      BY <1>4, TimeSyncAssumption
         DEF EstablishStep, EstablishRest, Establish, EstablishGoes, EstablishAsks,
             EstablishUpdates, EstablishReturns, EstablishTypeOK, establish
    <2> QED
      BY <1>4, <2>1, <2>2, EstablishUpdating
         DEF ThreadTypeOK, WaiterTypeOK, ServiceTypeOK, service, controls
  <1>5. CASE ControllerStep
    <2>1. CallTypeOK'
      <3>1. StartTimeSync => CallTypeOK'
        BY DEF StartTimeSync, CallTypeOK, SyncStatus, ClockId, NoEstimate
      <3> QED
        BY <1>1, <1>5, <3>1, ControlUpdating
    <2>2. ThreadTypeOK'
      <3> USE <1>5 DEF ControllerStep, Control, StartTimeSync, Start, Stop, JoinThread, Crossing
      <3>1. shouldExit' \in BOOLEAN /\ stopped' \in BOOLEAN /\ joinable' \in BOOLEAN
        BY Zenon DEF ThreadTypeOK
      <3>2. crossed' \in BOOLEAN
        BY Zenon DEF ThreadTypeOK
      <3>3. control' \in [Controllers -> {"idle", "joining", "terminated"}]
        BY DEF ThreadTypeOK, Enter
      <3>4. thread' \in {"top", "sleeping", "updating", "ended"}
        BY DEF ThreadTypeOK
      <3> QED
        BY <3>1, <3>2, <3>3, <3>4 DEF ThreadTypeOK
    <2> QED
      BY <1>5, <2>1, <2>2
         DEF ControllerStep, EstablishTypeOK, WaiterTypeOK, ServiceTypeOK, service, establish
  <1>6. CASE WaiterStep
    <2>1. CallTypeOK'
      BY <1>6 DEF WaiterStep, Convert, CallTypeOK, calls
    <2>2. WaiterTypeOK'
      BY <1>6
         DEF WaiterStep, Wondering, Wait, WaitSucceeds, WaitFails, TakeEstimate, Convert, Pass,
             WaiterTypeOK
    <2> QED
      BY <1>6, <2>1, <2>2
         DEF WaiterStep, ThreadTypeOK, EstablishTypeOK, ServiceTypeOK, service, controls, establish
  <1>7. CASE RobotStep
    BY <1>2, <1>7, RobotType
       DEF RobotStep, RobotRest, ThreadTypeOK, EstablishTypeOK, WaiterTypeOK, controls, establish
  <1>8. CASE UNCHANGED syncVars
    BY <1>8, <1>1
       DEF syncVars, ThreadTypeOK, EstablishTypeOK, WaiterTypeOK, ServiceTypeOK, service,
           controls, establish
  <1> QED
    BY <1>3, <1>4, <1>5, <1>6, <1>7, <1>8 DEF SyncNext

-----------------------------------------------------------------------------
(* An established synchronisation outlasts what the robot answers: of a    *)
(* clock in use it keeps the samples, and an update in time names the      *)
(* endpoint's clock.                                                       *)
LEMMA RobotLasting ==
  ASSUME NEW u \in Updaters, SyncTypeOK, Lasting, RobotGoes(u) \/ RobotGetsReady, RobotRest
  PROVE  Lasting'
  <1> USE TimeSyncAssumption
      DEF SyncTypeOK, CallTypeOK, ServiceTypeOK, ClockId, Lasting, Founded, Timely, Underway,
          Served, RobotRest
  <1>1. ASSUME AnswersNotReady(u) PROVE Lasting'
    BY <1>1 DEF AnswersNotReady, Respond, service
  <1>2. ASSUME AnswersNewcomer(u) PROVE Lasting'
    BY <1>2 DEF AnswersNewcomer, Respond, Taken
  <1>3. ASSUME AnswersKnown(u) PROVE Lasting'
    <2>1. request[u].clock \in Clocks
          /\ Counted(u) \in Nat /\ Counted(u) >= known[request[u].clock]
      BY <1>3 DEF AnswersKnown, Counted
    <2>2. /\ known' = [known EXCEPT ![request[u].clock] =
                         IF Counted(u) < Needed THEN Counted(u) ELSE Needed]
          /\ ready /\ UNCHANGED <<ready, endpoint, request, late>>
          /\ response' = [response EXCEPT ![u] =
                            [status |-> IF Counted(u) >= Needed THEN "OK" ELSE "MORE_SAMPLES_NEEDED",
                             clock |-> request[u].clock]]
          /\ call[u] = "asked" /\ call' = [call EXCEPT ![u] = "served"]
      BY <1>3 DEF AnswersKnown, Respond
    <2>3. \A c \in Clocks : known[c] >= Needed => known'[c] >= Needed
      BY <2>1, <2>2
    <2>4. Counted(u) >= Needed => known'[request[u].clock] = Needed
      BY <2>1, <2>2
    <2>5. u \notin late /\ endpoint.status = "OK" => Counted(u) >= Needed
      BY <2>1, <2>2
    <2>6. ASSUME NEW v \in Updaters, v # u
          PROVE  call'[v] = call[v] /\ response'[v] = response[v]
      BY <2>2, <2>6
    <2>7. /\ response'[u].clock = request[u].clock /\ call'[u] = "served"
          /\ response'[u].status = "OK" <=> Counted(u) >= Needed
      BY <2>2
    <2>8. endpoint'.status = "OK" => Founded(endpoint.clock)'
      BY <2>2, <2>3
    <2>9. ASSUME NEW v \in Updaters
          PROVE  /\ Served(v)' /\ response'[v].status = "OK" => Founded(response[v].clock)'
                 /\ v \notin late' => Timely(v)'
      <3>1. CASE v = u
        BY <2>1, <2>2, <2>4, <2>5, <2>7, <3>1
      <3>2. CASE v # u
        BY <2>2, <2>3, <2>6, <3>2
      <3> QED
        BY <3>1, <3>2
    <2> QED
      BY <2>8, <2>9
  <1>4. ASSUME AnswerComes(u) \/ CallFails(u) PROVE Lasting'
    BY <1>4 DEF AnswerComes, CallFails, service, NoResponse
  <1>5. ASSUME RobotGetsReady PROVE Lasting'
    BY <1>5 DEF RobotGetsReady, calls
  <1> QED
    BY <1>1, <1>2, <1>3, <1>4, <1>5 DEF RobotGoes, RobotAnswers

(* It outlasts the updates, too: a request names the endpoint's clock, and *)
(* a response in time that is stored has an estimate if the endpoint had   *)
(* one.                                                                    *)
LEMMA UpdatingLasting ==
  ASSUME NEW u \in Updaters, SyncTypeOK, Lasting, Update(u) \/ GetNewEstimate(u),
         UNCHANGED service
  PROVE  /\ Lasting'
         /\ endpoint.status = "OK" /\ u \notin late => endpoint'.status = "OK"
         /\ \/ overtaken' = overtaken /\ (u \in late => endpoint' = endpoint)
            \/ overtaken' = overtaken \cup {w \in Waiters : u \in late /\ waiter[w] = "synced"}
  <1> USE DEF SyncTypeOK, CallTypeOK, Lasting, Founded, Timely, Underway, Served, service
  <1>1. CASE Update(u)
    BY <1>1 DEF Update, Ask
  <1>2. CASE call[u] = "answered" /\ Store(u) /\ Finish(u)
    BY <1>2 DEF Store, Finish
  <1>3. CASE call[u] = "failed" /\ late' = late \ {u} /\ UNCHANGED <<endpoint, overtaken>>
             /\ Finish(u)
    BY <1>3 DEF Finish
  <1> QED
    BY <1>1, <1>2, <1>3 DEF GetNewEstimate

(* So who has seen an estimate finds one, unless overtaken. *)
LEMMA UpdatingCounting ==
  ASSUME NEW u \in Updaters, SyncInv, Update(u) \/ GetNewEstimate(u),
         UNCHANGED service, UNCHANGED waiter
  PROVE  Lasting' /\ Counting'
  <1> USE DEF SyncInv
  <1>1. Lasting'
    BY UpdatingLasting
  <1>2. /\ endpoint.status = "OK" /\ u \notin late => endpoint'.status = "OK"
        /\ \/ overtaken' = overtaken /\ (u \in late => endpoint' = endpoint)
           \/ overtaken' = overtaken \cup {w \in Waiters : u \in late /\ waiter[w] = "synced"}
    BY UpdatingLasting
  <1>3. overtaken \subseteq overtaken'
    BY <1>2
  <1>4. ASSUME NEW x \in Waiters, x \notin overtaken', waiter[x] = "synced"
        PROVE  endpoint'.status = "OK"
    <2>1. endpoint.status = "OK"
      <3>1. x \in Waiters \ overtaken
        BY <1>3, <1>4
      <3> QED
        BY <1>4, <3>1 DEF Counting
    <2>2. u \in late => endpoint' = endpoint
      BY <1>2, <1>4
    <2> QED
      BY <1>2, <2>1, <2>2
  <1>5. Counting'
    BY <1>3, <1>4 DEF Counting
  <1> QED
    BY <1>1, <1>5

(* Time sync lasts, and who counts on it can. *)
LEMMA NextLasting == ASSUME SyncInv, [SyncNext]_syncVars PROVE Lasting' /\ Counting'
  <1> USE DEF SyncInv
  <1>1. UNCHANGED <<updating, waiter, service>> => Lasting' /\ Counting'
    <2>1. UNCHANGED <<updating, service>> => Lasting'
      BY DEF updating, service, Lasting, Founded, Timely, Underway, Served
    <2>2. UNCHANGED <<updating, waiter>> => Counting'
      BY DEF updating, Counting
    <2> QED
      BY <2>1, <2>2
  <1>2. SyncThread \in Updaters /\ Establishers \subseteq Updaters
    BY DEF Updaters
  <1>3. CASE ThreadStep
    BY <1>1, <1>2, <1>3, ThreadUpdating, UpdatingCounting
  <1>4. CASE EstablishStep
    BY <1>1, <1>2, <1>4, EstablishUpdating, UpdatingCounting
  <1>5. CASE ControllerStep
    <2>1. ASSUME StartTimeSync, UNCHANGED waiter, UNCHANGED service PROVE Lasting' /\ Counting'
      <3>1. Counting'
        BY <2>1 DEF StartTimeSync, Counting
      <3>2. endpoint'.status = "UNSET" /\ UNCHANGED <<call, request, response, late, ready, known>>
        BY <2>1 DEF StartTimeSync, service, NoEstimate
      <3>3. ASSUME NEW u \in Updaters PROVE ~Underway(u)
        BY <2>1 DEF StartTimeSync
      <3>4. Lasting'
        BY <3>2, <3>3 DEF Lasting, Timely, Underway, Served, Founded
      <3> QED
        BY <3>1, <3>4
    <2> QED
      BY <1>1, <1>5, <2>1, ControlUpdating
  <1>6. CASE WaiterStep
    <2>1. UNCHANGED <<endpoint, calls, late, service>>
      BY <1>6 DEF WaiterStep
    <2>2. Lasting'
      BY <2>1 DEF Lasting, Founded, Timely, Underway, Served, calls, service
    <2>3. PICK w \in Waiters : (Wondering(w) /\ UNCHANGED overtaken) \/ Convert(w)
      BY <1>6 DEF WaiterStep
    <2>4. Counting'
      BY <2>1, <2>3
         DEF Wondering, Wait, WaitSucceeds, WaitFails, TakeEstimate, Convert, Pass,
             HasEstablishedTimeSync, Counting, SyncTypeOK, WaiterTypeOK
    <2> QED
      BY <2>2, <2>4
  <1>7. CASE RobotStep
    <2>1. Lasting'
      BY <1>2, <1>7, RobotLasting DEF RobotStep
    <2>2. Counting'
      BY <1>7 DEF RobotStep, RobotRest, Counting
    <2> QED
      BY <2>1, <2>2
  <1>8. CASE UNCHANGED syncVars
    BY <1>1, <1>8 DEF syncVars
  <1> QED
    BY <1>3, <1>4, <1>5, <1>6, <1>7, <1>8 DEF SyncNext

(* The types of the time synchronisation. *)
THEOREM SyncTypes == SyncSpec => []SyncTypeOK
  <1>1. SyncInit => SyncTypeOK
    BY InitSyncInv DEF SyncInv
  <1> QED
    BY <1>1, NextSyncTypeOK, PTL DEF SyncSpec

(* Who waited for time sync converts with an estimate of the robot,        *)
(* whatever threads start, stop and establish time sync at the same time   *)
(* and whichever calls fail, unless the late answer to an older update     *)
(* came between the wait and the second look at the result                 *)
(* (time_sync_helpers.cpp:105-108, 220, 226).                              *)
THEOREM SyncConversionNeedsLateAnswer == SyncSpec => []ConversionNeedsLateAnswer
  <1>1. SyncInv /\ [SyncNext]_syncVars => SyncInv'
    BY NextSyncTypeOK, NextLasting DEF SyncInv
  <1>2. SyncInv => ConversionNeedsLateAnswer
    BY DEF SyncInv, Counting, ConversionNeedsLateAnswer
  <1> QED
    BY InitSyncInv, <1>1, <1>2, PTL DEF SyncSpec

(* Until two of Start and Stop have met in a Stop, every step keeps the    *)
(* thread with the program, and the turns.                                 *)
LEMMA NextTurnInv ==
  ASSUME SyncTypeOK, TurnInv, [SyncNext]_syncVars
  PROVE  TurnInv'
  <1> USE DEF SyncTypeOK, ThreadTypeOK, TurnInv, ThreadHeld, InTurn, Terminated, Joining,
              Enter, Crossing, controls
  <1>1. CASE ThreadStep
    BY <1>1 DEF ThreadStep, ThreadExits, ThreadSleeps, ThreadAsks, ThreadUpdates
  <1>2. ASSUME NEW k \in Controllers, Start(k) PROVE TurnInv'
    BY <1>2 DEF Start
  <1>3. ASSUME NEW k \in Controllers, Stop(k) PROVE TurnInv'
    BY <1>3 DEF Stop
  <1>4. ASSUME StartTimeSync PROVE TurnInv'
    BY <1>4 DEF StartTimeSync
  <1>5. ASSUME NEW k \in Controllers, JoinThread(k) PROVE TurnInv'
    BY <1>5 DEF JoinThread
  <1>6. CASE EstablishStep \/ WaiterStep \/ RobotStep \/ UNCHANGED syncVars
    BY <1>6 DEF EstablishStep, EstablishRest, WaiterStep, RobotStep, RobotRest, syncVars
  <1> QED
    BY <1>1, <1>2, <1>3, <1>4, <1>5, <1>6 DEF SyncNext, ControllerStep, Control

(* However the thread is started and stopped, by any threads at any time,  *)
(* the program is terminated -- by a std::thread overwritten while it can  *)
(* be joined, or joined twice -- only after a Start or a Stop began while  *)
(* another thread was in Stop (time_sync_helpers.cpp:156, :171).           *)
THEOREM SyncTerminationNeedsCrossing == SyncSpec => []TerminationNeedsCrossing
  <1>1. SyncInit => TurnInv
    BY DEF SyncInit, TurnInv, ThreadHeld, InTurn, Terminated, Joining
  <1>2. SyncTypeOK /\ TurnInv /\ [SyncNext]_syncVars => TurnInv'
    BY NextTurnInv
  <1>3. SyncTypeOK /\ TurnInv => TerminationNeedsCrossing
    BY DEF TurnInv, InTurn, TerminationNeedsCrossing
  <1> QED
    BY SyncTypes, <1>1, <1>2, <1>3, PTL DEF SyncSpec

-----------------------------------------------------------------------------
(* Periodic threads *)

(* What a thread waits for, and what it will wait for after a failure. *)
InBounds ==
  /\ kind \in {"token", "directory", "payload"}
  /\ wait \in 0 .. Interval
  /\ retry \in Initial .. Interval

(* Whatever a thread does with an outcome, its waits stay within bounds. *)
LEMMA ProceedInBounds ==
  ASSUME InBounds, NEW action \in Action, Proceed(action)
  PROVE  wait' \in 0 .. Interval /\ retry' \in Initial .. Interval
  <1> USE IntervalsAssumption DEF InBounds
  <1>1. BackOff \/ Immediately \/ Resume \/ ResumeKeepingRetry \/ UNCHANGED timing
    BY DEF Proceed, Action
  <1> QED
    BY <1>1 DEF BackOff, Shorter, Immediately, Resume, ResumeKeepingRetry, timing

(* Every step keeps the waits within bounds. *)
LEMMA NextInBounds == ASSUME InBounds, [PeriodicNext]_periodicVars PROVE InBounds'
  <1> USE IntervalsAssumption DEF InBounds
  <1>1. CASE \E action \in Action : Follow(action)
    <2>1. kind' = kind
      BY DEF PeriodicNext, periodicVars, Thread, Program, WaitEnds, Leave, Token,
             Payload, Directory,
         TokenRenewed, TokenFails, PayloadBegins, PayloadRegistered, PayloadFails,
         DirectoryStarts, DirectoryRegisters, DirectoryAlreadyExists, DirectoryFails,
         DirectoryUpdates, DirectoryClears, Create, StartAgain, Shutdown, Join, Lose,
         SetCallback, Authenticate, owner
    <2> QED
      BY <1>1, <2>1, ProceedInBounds DEF Follow
  <1>2. CASE (Resume \/ UNCHANGED timing \/ ResumeKeepingRetry) /\ kind' = kind
    BY <1>2 DEF Resume, ResumeKeepingRetry, timing
  <1>3. \/ \E action \in Action : Follow(action)
        \/ (Resume \/ UNCHANGED timing \/ ResumeKeepingRetry) /\ kind' = kind
    BY DEF PeriodicNext, periodicVars, timing, Thread, Program, WaitEnds, Leave, Token, Payload, Directory,
       TokenRenewed, TokenFails, PayloadBegins, PayloadRegistered, PayloadFails,
       DirectoryStarts, DirectoryRegisters, DirectoryAlreadyExists, DirectoryFails,
       DirectoryUpdates, DirectoryClears, Create, StartAgain, Shutdown, Join, Lose,
       SetCallback, Authenticate, owner, Done, Resume, Action
  <1> QED
    BY <1>1, <1>2, <1>3

(* A thread whose attempts fail tries again within its interval, however   *)
(* many have failed (token_manager.cpp:70).                                *)
THEOREM PeriodicTriesInTime == PeriodicSpec => []TriesInTime
  <1>1. PeriodicInit => InBounds
    BY IntervalsAssumption DEF PeriodicInit, InBounds
  <1>2. InBounds /\ [PeriodicNext]_periodicVars => InBounds'
    BY NextInBounds
  <1>3. InBounds => TriesInTime
    BY IntervalsAssumption DEF InBounds, TriesInTime
  <1> QED
    BY <1>1, <1>2, <1>3, PTL DEF PeriodicSpec

-----------------------------------------------------------------------------
(* Recursion *)

(* Every non-empty set of natural numbers has a least one: what holds of   *)
(* no number that is the least to break it holds of all.                   *)
LEMMA LeastNatural ==
  ASSUME NEW T, T \subseteq Nat, T # {}
  PROVE  \E x \in T : \A y \in T : x <= y
  <1> DEFINE R == {ss \in Nat \X Nat : ss[1] < ss[2]}
  <1>1. IsWellFoundedOn(R, Nat)
    BY NatLessThanWellFounded DEF OpToRel
  <1> HIDE DEF R
  <1>2. PICK x \in T : \A y \in T : <<y, x>> \notin R
    BY <1>1, WFMin
  <1>3. \A y \in T : ~ (y < x)
    BY <1>2 DEF R
  <1> QED
    BY <1>3

-----------------------------------------------------------------------------
(* Frame trees *)

(* What the protocol allows a snapshot to be: a tree or not. *)
Snapshots ==
  UNION {[fs -> [parent : Names, parent_tform_child : SE3Pose]] : fs \in SUBSET Names}

(* The frames a walk can go on from. *)
Inner(snapshot) == DOMAIN snapshot \ {NoName}

(* What a snapshot has for a frame of its domain. *)
LEMMA SnapshotParts ==
  ASSUME NEW snapshot \in Snapshots
  PROVE  /\ DOMAIN snapshot \subseteq Names
         /\ Inner(snapshot) \subseteq Frames
         /\ \A f \in DOMAIN snapshot : /\ snapshot[f].parent \in Names
                                       /\ snapshot[f].parent_tform_child \in SE3Pose
  BY DEF Snapshots, Inner, Names

(* Any number of steps can be taken, one after the other. *)
IteratedUpTo(m, f, g, S, x) ==
  f \in [0 .. m -> S] /\ f[0] = x /\ \A n \in 1 .. m : f[n] = g[n][f[n - 1]]

(* ... so that the recursive functions of FrameTree are defined. *)
LEMMA Iterates ==
  ASSUME NEW S, NEW g \in [Nat -> [S -> S]], NEW x \in S, NEW N \in Nat
  PROVE  \E f : IteratedUpTo(N, f, g, S, x)
  <1> DEFINE Iterated(m, f) == IteratedUpTo(m, f, g, S, x)
             T == {m \in Nat : ~ \E f : Iterated(m, f)}
  <1>1. SUFFICES ASSUME T # {} PROVE FALSE
    OBVIOUS
  <1>2. PICK m \in T : \A k \in T : m <= k
    <2> HIDE DEF Iterated
    <2> QED
      BY <1>1, LeastNatural
  <1>3. m # 0
    <2>1. Iterated(0, [n \in 0 .. 0 |-> x])
      BY DEF IteratedUpTo
    <2> HIDE DEF Iterated
    <2> QED
      BY <1>2, <2>1
  <1>4. m \in Nat /\ m - 1 \in Nat /\ m - 1 < m
    BY <1>2, <1>3
  <1>5. PICK f : Iterated(m - 1, f)
    <2> HIDE DEF Iterated
    <2>1. m - 1 \notin T
      BY <1>2, <1>4
    <2> QED
      BY <1>4, <2>1
  <1> DEFINE h == [n \in 0 .. m |-> IF n = m THEN g[m][f[m - 1]] ELSE f[n]]
  <1>6. Iterated(m, h)
    <2>1. f[m - 1] \in S /\ g[m][f[m - 1]] \in S
      BY <1>4, <1>5 DEF IteratedUpTo
    <2>2. h \in [0 .. m -> S]
      BY <1>4, <1>5, <2>1 DEF IteratedUpTo
    <2>3. h[0] = x
      BY <1>3, <1>4, <1>5 DEF IteratedUpTo
    <2>4. ASSUME NEW n \in 1 .. m PROVE h[n] = g[n][h[n - 1]]
      <3>1. n - 1 \in 0 .. m /\ n \in 0 .. m /\ n - 1 # m
        BY <1>4
      <3>2. h[n - 1] = f[n - 1]
        BY <3>1
      <3>3. CASE n = m
        BY <3>1, <3>2, <3>3
      <3>4. CASE n # m
        BY <1>4, <1>5, <3>1, <3>2, <3>4 DEF IteratedUpTo
      <3> QED
        BY <3>3, <3>4
    <2> HIDE DEF h
    <2> QED
      BY <2>2, <2>3, <2>4 DEF IteratedUpTo
  <1> HIDE DEF Iterated
  <1> QED
    BY <1>2, <1>6

(* The walk goes from a frame to its parent, and from a frame that is not  *)
(* in the tree to the empty name.                                          *)
LEMMA AboveMeaning ==
  ASSUME NEW snapshot \in Snapshots, NEW leaf \in Names
  PROVE  LET up == Above(snapshot, leaf) IN
         /\ Cardinality(Frames) \in Nat
         /\ up \in [0 .. Cardinality(Frames) -> Names]
         /\ up[0] = leaf
         /\ \A n \in 1 .. Cardinality(Frames) :
              up[n] = IF up[n - 1] \in Inner(snapshot)
                      THEN snapshot[up[n - 1]].parent ELSE NoName
  <1> DEFINE N == Cardinality(Frames)
             Steps(u) == u = [n \in 0 .. N |->
                                IF n = 0 THEN leaf
                                ELSE IF u[n - 1] \in DOMAIN snapshot \ {NoName}
                                     THEN snapshot[u[n - 1]].parent ELSE NoName]
             above == Above(snapshot, leaf)
             onwards == [f \in Names |-> IF f \in Inner(snapshot) THEN snapshot[f].parent
                                                                  ELSE NoName]
             g == [n \in Nat |-> onwards]
  <1>1. N \in Nat
    BY NamesAssumption, FS_CardinalityType
  <1>2. above = CHOOSE u : Steps(u)
    BY Zenon DEF Above
  <1> HIDE DEF N, above
  <1>3. onwards \in [Names -> Names]
    BY SnapshotParts DEF Inner, Names
  <1>4. PICK u \in [0 .. N -> Names] :
          u[0] = leaf /\ \A n \in 1 .. N : u[n] = onwards[u[n - 1]]
    <2> HIDE DEF onwards
    <2>1. g \in [Nat -> [Names -> Names]]
      BY <1>3
    <2>2. PICK f : IteratedUpTo(N, f, g, Names, leaf)
      <3> HIDE DEF g
      <3> QED
        BY <1>1, <2>1, Iterates
    <2>3. \A n \in 1 .. N : n \in Nat
      BY <1>1
    <2> QED
      BY <2>2, <2>3 DEF IteratedUpTo
  <1>5. Steps(u)
    <2>1. ASSUME NEW n \in 0 .. N
          PROVE  u[n] = IF n = 0 THEN leaf
                        ELSE IF u[n - 1] \in DOMAIN snapshot \ {NoName}
                             THEN snapshot[u[n - 1]].parent ELSE NoName
      <3>1. CASE n = 0
        BY <1>4, <3>1
      <3>2. CASE n # 0
        <4>1. n \in 1 .. N /\ n - 1 \in 0 .. N
          BY <1>1, <3>2
        <4>2. u[n - 1] \in Names /\ u[n] = onwards[u[n - 1]]
          BY <1>4, <4>1
        <4> QED
          BY <3>2, <4>2 DEF Inner
      <3> QED
        BY <3>1, <3>2
    <2> HIDE DEF onwards
    <2> QED
      BY <1>4, <2>1
  <1>6. Steps(above)
    <2> HIDE DEF Steps
    <2> QED
      BY <1>2, <1>5
  <1>7. \A n \in 0 .. N : above[n] = IF n = 0 THEN leaf
                                     ELSE IF above[n - 1] \in DOMAIN snapshot \ {NoName}
                                          THEN snapshot[above[n - 1]].parent ELSE NoName
    BY <1>6
  <1>8. above[0] = leaf /\ 0 \in 0 .. N
    BY <1>1, <1>7
  <1>9. \A n \in 1 .. N : /\ n \in 0 .. N /\ n - 1 \in 0 .. N
                          /\ above[n] = IF above[n - 1] \in Inner(snapshot)
                                        THEN snapshot[above[n - 1]].parent ELSE NoName
    BY <1>1, <1>7 DEF Inner
  <1>10. \A n \in 0 .. N : above[n] \in Names
    BY <1>1, <1>7, SnapshotParts DEF Names
  <1>11. DOMAIN above = 0 .. N /\ above = [n \in 0 .. N |-> above[n]]
    BY <1>6
  <1> HIDE DEF Steps, onwards
  <1>12. above \in [0 .. N -> Names]
    BY <1>10, <1>11
  <1> QED
    BY <1>1, <1>8, <1>9, <1>12 DEF above, N

(* The walk visits frames of the tree until it leaves it for good. *)
LEMMA VisitedMeaning ==
  ASSUME NEW snapshot \in Snapshots, NEW leaf \in Names
  PROVE  LET N == Cardinality(Frames)
             up == Above(snapshot, leaf)
             visited == Visited(snapshot, leaf)
         IN /\ visited \in Nat /\ visited <= N + 1
            /\ \A n \in 0 .. N : up[n] \in Inner(snapshot) <=> n < visited
  <1> DEFINE N == Cardinality(Frames)
             up == Above(snapshot, leaf)
             visited == Visited(snapshot, leaf)
             V == {n \in 0 .. N : up[n] \in Inner(snapshot)}
             T == {n \in 0 .. N : up[n] \notin Inner(snapshot)}
  <1>1. /\ N \in Nat /\ DOMAIN up = 0 .. N
        /\ \A n \in 1 .. N : up[n - 1] \notin Inner(snapshot) => up[n] = NoName
    BY AboveMeaning
  <1>2. visited = Cardinality(V)
    BY <1>1, Zenon DEF Visited, Inner
  <1>3. NoName \notin Inner(snapshot)
    BY DEF Inner
  <1> HIDE DEF N, up, visited
  <1>4. CASE T = {}
    <2>1. V = 0 .. N /\ \A n \in 0 .. N : up[n] \in Inner(snapshot)
      BY <1>4
    <2>2. Cardinality(V) = N + 1
      <3>1. Cardinality(0 .. N) = IF 0 > N THEN 0 ELSE N - 0 + 1
        BY <1>1, FS_Interval
      <3> HIDE DEF V, T
      <3> QED
        BY <1>1, <2>1, <3>1
    <2>3. visited = N + 1 /\ visited \in Nat
      BY <1>1, <1>2, <2>2
    <2>4. \A n \in 0 .. N : n < N + 1
      BY <1>1
    <2> QED
      BY <1>1, <2>1, <2>3, <2>4 DEF N, up, visited
  <1>5. CASE T # {}
    <2>1. T \subseteq Nat
      BY <1>1
    <2>2. PICK m \in T : \A k \in T : m <= k
      BY <1>5, <2>1, LeastNatural
    <2>3. m \in 0 .. N /\ m \in Nat
      BY <2>1, <2>2
    <2>4. \A n \in 0 .. N : n < m => up[n] \in Inner(snapshot)
      BY <1>1, <2>2, <2>3
    <2>5. \A n \in 0 .. N : n >= m => up[n] \notin Inner(snapshot)
      <3> DEFINE Back == {n \in 0 .. N : n >= m /\ up[n] \in Inner(snapshot)}
      <3> SUFFICES ASSUME Back # {} PROVE FALSE
        OBVIOUS
      <3>1. PICK n \in Back : \A k \in Back : n <= k
        <4>1. Back \subseteq Nat
          BY <1>1
        <4> HIDE DEF Back
        <4> QED
          BY <4>1, LeastNatural
      <3>2. n # m
        BY <2>2, <3>1
      <3>3. n - 1 \in 0 .. N /\ n \in 1 .. N /\ n - 1 >= m /\ ~ (n <= n - 1)
        BY <1>1, <2>3, <3>1, <3>2
      <3>4. up[n - 1] \notin Inner(snapshot)
        BY <3>1, <3>3
      <3> QED
        BY <1>1, <1>3, <3>1, <3>3, <3>4
    <2>6. V = 0 .. m - 1
      <3>1. \A n \in 0 .. N : up[n] \in Inner(snapshot) <=> n < m
        BY <1>1, <2>3, <2>4, <2>5
      <3>2. \A n : n \in V <=> n \in 0 .. m - 1
        BY <1>1, <2>3, <3>1
      <3> HIDE DEF V
      <3> QED
        BY <3>2
    <2>7. Cardinality(V) = m
      <3>1. Cardinality(0 .. m - 1) = IF 0 > m - 1 THEN 0 ELSE m - 1 - 0 + 1
        BY <2>3, FS_Interval
      <3> HIDE DEF V, T
      <3> QED
        BY <2>3, <2>6, <3>1
    <2>8. visited = m
      BY <1>2, <2>7
    <2>9. \A n \in 0 .. N : up[n] \in Inner(snapshot) <=> n < m
      BY <1>1, <2>3, <2>4, <2>5
    <2>10. m <= N + 1
      BY <1>1, <2>3
    <2> QED
      BY <2>3, <2>8, <2>9, <2>10 DEF N, up, visited
  <1> QED
    BY <1>4, <1>5

(* A walk that visits more frames than there are visits one twice: what it *)
(* visits in between is a cycle.                                           *)
LEMMA EndlessWalk ==
  ASSUME NEW snapshot \in Snapshots, NEW leaf \in Names,
         Visited(snapshot, leaf) > Cardinality(Frames)
  PROVE  \E fs \in SUBSET Inner(snapshot) : Cyclic(snapshot, fs)
  <1> DEFINE N == Cardinality(Frames)
             up == Above(snapshot, leaf)
             visited == Visited(snapshot, leaf)
  <1>1. /\ N \in Nat /\ up \in [0 .. N -> Names]
        /\ \A n \in 1 .. N : up[n] = IF up[n - 1] \in Inner(snapshot)
                                     THEN snapshot[up[n - 1]].parent ELSE NoName
    BY AboveMeaning
  <1>2. /\ visited \in Nat
        /\ \A n \in 0 .. N : up[n] \in Inner(snapshot) <=> n < visited
    BY VisitedMeaning
  <1>3. visited > N
    OBVIOUS
  <1> HIDE DEF N, up, visited
  <1>4. \A n \in 0 .. N : up[n] \in Inner(snapshot)
    BY <1>1, <1>2, <1>3
  <1>5. up \in [0 .. N -> Frames]
    BY <1>1, <1>4, SnapshotParts
  <1>6. PICK i, j \in 0 .. N : i < j /\ up[i] = up[j]
    <2>1. /\ IsFiniteSet(0 .. N)
          /\ Cardinality(0 .. N) = IF 0 > N THEN 0 ELSE N - 0 + 1
      BY <1>1, FS_Interval
    <2>2. IsFiniteSet(Frames) /\ Cardinality(Frames) < Cardinality(0 .. N)
      BY <1>1, <2>1, NamesAssumption DEF N
    <2>3. \E a, b \in 0 .. N : a # b /\ up[a] = up[b]
      BY <1>5, <2>1, <2>2, FS_PigeonHole
    <2> QED
      BY <1>1, <2>3
  <1> DEFINE fs == {up[n] : n \in i .. j - 1}
  <1>7. fs \in SUBSET Inner(snapshot)
    BY <1>1, <1>4
  <1>8. up[i] \in fs
    <2>1. i \in i .. j - 1
      BY <1>1, <1>6
    <2> QED
      BY <2>1
  <1>9. ASSUME NEW n \in i .. j - 1
        PROVE  snapshot[up[n]].parent \in fs
    <2>1. /\ n + 1 \in 1 .. N /\ n \in 0 .. N /\ n + 1 - 1 = n
          /\ n + 1 = j \/ n + 1 \in i .. j - 1
      BY <1>1, <1>6
    <2>2. snapshot[up[n]].parent = up[n + 1]
      BY <1>1, <1>4, <2>1
    <2> QED
      BY <1>6, <1>8, <2>1, <2>2
  <1>10. Cyclic(snapshot, fs)
    BY <1>8, <1>9 DEF Cyclic
  <1> QED
    BY <1>7, <1>10

(* Within a set of frames that are all each other's children there is no   *)
(* way out.                                                                *)
LEMMA CyclicWalk ==
  ASSUME NEW snapshot \in Snapshots, NEW fs \in SUBSET Inner(snapshot),
         Cyclic(snapshot, fs), NEW leaf \in fs
  PROVE  Visited(snapshot, leaf) > Cardinality(Frames)
  <1> DEFINE N == Cardinality(Frames)
             up == Above(snapshot, leaf)
             visited == Visited(snapshot, leaf)
  <1>1. leaf \in Names
    BY SnapshotParts DEF Names
  <1>2. /\ N \in Nat /\ up[0] = leaf
        /\ \A n \in 1 .. N : up[n] = IF up[n - 1] \in Inner(snapshot)
                                     THEN snapshot[up[n - 1]].parent ELSE NoName
    BY <1>1, AboveMeaning
  <1>3. /\ visited \in Nat
        /\ \A n \in 0 .. N : up[n] \in Inner(snapshot) <=> n < visited
    BY <1>1, VisitedMeaning
  <1> HIDE DEF N, up, visited
  <1>4. \A n \in 0 .. N : up[n] \in fs
    <2> DEFINE Out == {n \in 0 .. N : up[n] \notin fs}
    <2> SUFFICES ASSUME Out # {} PROVE FALSE
      OBVIOUS
    <2>1. PICK n \in Out : \A k \in Out : n <= k
      <3>1. Out \subseteq Nat
        BY <1>2
      <3> HIDE DEF Out
      <3> QED
        BY <3>1, LeastNatural
    <2>2. n # 0
      BY <1>2, <2>1
    <2>3. n - 1 \in 0 .. N /\ n \in 1 .. N /\ ~ (n <= n - 1)
      BY <1>2, <2>1, <2>2
    <2>4. up[n - 1] \in fs
      BY <2>1, <2>3
    <2>5. up[n] = snapshot[up[n - 1]].parent /\ up[n] \in fs
      BY <1>2, <2>3, <2>4 DEF Cyclic
    <2> QED
      BY <2>1, <2>5
  <1>5. N < visited
    <2>1. N \in 0 .. N
      BY <1>2
    <2> QED
      BY <1>3, <1>4, <2>1
  <1> QED
    BY <1>2, <1>3, <1>5 DEF N, visited

(* What FindTreeRoot says of a frame of the snapshot is so. *)
LEMMA RootMeaning ==
  ASSUME NEW snapshot \in Snapshots, NEW leaf \in DOMAIN snapshot
  PROVE  LET found == FindTreeRoot(snapshot, leaf) IN
         /\ found.status \in {"EMPTY_CHILD_FRAME_NAME", "CYCLE",
                              "UNKNOWN_PARENT_FRAME_NAME", "VALID"}
         /\ found.status = "EMPTY_CHILD_FRAME_NAME" <=> leaf = NoName
         /\ found.status = "CYCLE" =>
              \E fs \in SUBSET Inner(snapshot) : Cyclic(snapshot, fs)
         /\ found.status = "UNKNOWN_PARENT_FRAME_NAME" =>
              ~(Parents(snapshot) \subseteq DOMAIN snapshot)
         /\ found.status = "VALID" =>
              /\ found.root \in Roots(snapshot)
              /\ snapshot[leaf].parent \in Inner(snapshot) \cup {NoName}
              /\ snapshot[leaf].parent = NoName => found.root = leaf
              /\ ~ \E fs \in SUBSET Inner(snapshot) : leaf \in fs /\ Cyclic(snapshot, fs)
  <1> DEFINE N == Cardinality(Frames)
             up == Above(snapshot, leaf)
             visited == Visited(snapshot, leaf)
             found == FindTreeRoot(snapshot, leaf)
  <1>1. leaf \in Names
    BY SnapshotParts
  <1>2. /\ N \in Nat /\ up \in [0 .. N -> Names] /\ up[0] = leaf
        /\ \A n \in 1 .. N : up[n] = IF up[n - 1] \in Inner(snapshot)
                                     THEN snapshot[up[n - 1]].parent ELSE NoName
    BY <1>1, AboveMeaning
  <1>3. /\ visited \in Nat /\ visited <= N + 1
        /\ \A n \in 0 .. N : up[n] \in Inner(snapshot) <=> n < visited
    BY <1>1, VisitedMeaning
  <1>4. found = IF leaf = NoName
                THEN [status |-> "EMPTY_CHILD_FRAME_NAME", root |-> NoName]
                ELSE IF visited > N THEN [status |-> "CYCLE", root |-> NoName]
                ELSE IF up[visited] # NoName
                THEN [status |-> "UNKNOWN_PARENT_FRAME_NAME", root |-> NoName]
                ELSE [status |-> "VALID", root |-> up[visited - 1]]
    BY Zenon DEF FindTreeRoot
  <1>5. visited > N => \E fs \in SUBSET Inner(snapshot) : Cyclic(snapshot, fs)
    BY <1>1, EndlessWalk
  <1>6. visited <= N =>
          ~ \E fs \in SUBSET Inner(snapshot) : leaf \in fs /\ Cyclic(snapshot, fs)
    <2>1. \A fs \in SUBSET Inner(snapshot) :
            leaf \in fs /\ Cyclic(snapshot, fs) => visited > N
      BY CyclicWalk
    <2> HIDE DEF N, visited
    <2> QED
      BY <1>2, <1>3, <2>1
  <1> HIDE DEF N, up, visited, found
  <1>7. ASSUME leaf # NoName, visited <= N
        PROVE  /\ visited \in 1 .. N
               /\ up[visited - 1] \in Inner(snapshot)
               /\ up[visited] = snapshot[up[visited - 1]].parent
               /\ up[visited] \notin Inner(snapshot)
               /\ snapshot[leaf].parent \notin Inner(snapshot) => visited = 1
               /\ snapshot[leaf].parent = up[1]
    <2>1. leaf \in Inner(snapshot)
      BY <1>7 DEF Inner
    <2>2. visited \in 1 .. N
      <3>1. 0 \in 0 .. N
        BY <1>2
      <3>2. 0 < visited
        BY <1>2, <1>3, <2>1, <3>1
      <3> QED
        BY <1>2, <1>3, <1>7, <3>2
    <2>3. /\ visited \in 0 .. N /\ visited - 1 \in 0 .. N /\ visited - 1 < visited
          /\ ~ (visited < visited) /\ 1 \in 1 .. N /\ 1 \in 0 .. N /\ 1 - 1 = 0
      BY <1>2, <2>2
    <2>4. up[visited - 1] \in Inner(snapshot) /\ up[visited] \notin Inner(snapshot)
      BY <1>3, <2>3
    <2>5. up[visited] = snapshot[up[visited - 1]].parent
      BY <1>2, <2>2, <2>4
    <2>6. snapshot[leaf].parent = up[1]
      BY <1>2, <2>1, <2>3
    <2>7. up[1] \notin Inner(snapshot) => visited = 1
      BY <1>3, <2>2, <2>3
    <2> QED
      BY <2>2, <2>4, <2>5, <2>6, <2>7
  <1>8. CASE leaf = NoName
    BY <1>4, <1>8 DEF found
  <1>9. CASE leaf # NoName /\ visited > N
    BY <1>4, <1>5, <1>9 DEF found
  <1>10. CASE leaf # NoName /\ visited <= N /\ up[visited] # NoName
    <2>1. found.status = "UNKNOWN_PARENT_FRAME_NAME"
      BY <1>2, <1>3, <1>4, <1>10
    <2>2. /\ up[visited - 1] \in Inner(snapshot)
          /\ up[visited] = snapshot[up[visited - 1]].parent
          /\ up[visited] \notin Inner(snapshot)
      BY <1>7, <1>10
    <2>3. up[visited] \in Parents(snapshot) /\ up[visited] \notin DOMAIN snapshot
      BY <1>10, <2>2 DEF Parents, Inner
    <2> QED
      BY <1>10, <2>1, <2>3 DEF found
  <1>11. CASE leaf # NoName /\ visited <= N /\ up[visited] = NoName
    <2>1. found.status = "VALID" /\ found.root = up[visited - 1]
      BY <1>2, <1>3, <1>4, <1>11
    <2>2. found.root \in Roots(snapshot)
      BY <1>7, <1>11, <2>1 DEF Roots, Inner
    <2>3. snapshot[leaf].parent \in Inner(snapshot) \cup {NoName}
      BY <1>7, <1>11
    <2>4. snapshot[leaf].parent = NoName => found.root = leaf
      <3>1. NoName \notin Inner(snapshot)
        BY DEF Inner
      <3> QED
        BY <1>2, <1>7, <1>11, <2>1, <3>1
    <2> QED
      BY <1>6, <1>11, <2>1, <2>2, <2>3, <2>4 DEF found
  <1> QED
    BY <1>2, <1>3, <1>8, <1>9, <1>10, <1>11

(* Two of a finite set make it larger than one. *)
LEMMA OneOrMore ==
  ASSUME NEW S, IsFiniteSet(S), NEW a \in S
  PROVE  /\ (Cardinality(S) = 1 <=> S = {a})
         /\ \A b \in S : b # a => Cardinality(S) > 1
  <1>1. Cardinality(S) \in Nat /\ Cardinality(S) # 0
    BY FS_CardinalityType, FS_EmptySet
  <1>2. Cardinality(S) = 1 <=> \E x : S = {x}
    BY FS_Singleton
  <1> QED
    BY <1>1, <1>2

(* There are no more roots than frames. *)
LEMMA RootsFinite ==
  ASSUME NEW snapshot \in Snapshots
  PROVE  IsFiniteSet(Roots(snapshot))
  <1>1. IsFiniteSet(Names)
    BY NamesAssumption, FS_Singleton, FS_Union DEF Names
  <1>2. Roots(snapshot) \in SUBSET Names
    BY SnapshotParts DEF Roots
  <1> QED
    BY <1>1, <1>2, FS_Subset

(* A frame is the root of every frame if all walks end well and alike. *)
LEMMA ValidIsTree ==
  ASSUME NEW snapshot \in Snapshots, DOMAIN snapshot # {},
         \A f \in DOMAIN snapshot : FindTreeRoot(snapshot, f).status = "VALID",
         \A f, g \in DOMAIN snapshot :
           FindTreeRoot(snapshot, f).root = FindTreeRoot(snapshot, g).root
  PROVE  IsTree(snapshot)
  <1>1. NoName \notin DOMAIN snapshot /\ Inner(snapshot) = DOMAIN snapshot
    <2>1. NoName \notin DOMAIN snapshot
      BY RootMeaning
    <2> QED
      BY <2>1 DEF Inner
  <1>2. PICK f \in DOMAIN snapshot : TRUE
    OBVIOUS
  <1>3. PICK r : r = FindTreeRoot(snapshot, f).root
    OBVIOUS
  <1>4. r \in Roots(snapshot)
    BY <1>3, RootMeaning
  <1>5. Roots(snapshot) = {r}
    <2>1. \A g \in Roots(snapshot) : g = r
      BY <1>3, RootMeaning DEF Roots
    <2> QED
      BY <1>4, <2>1
  <1>6. Cardinality(Roots(snapshot)) = 1
    BY <1>4, <1>5, RootsFinite, OneOrMore
  <1>7. Parents(snapshot) \subseteq DOMAIN snapshot
    <2>1. \A g \in DOMAIN snapshot : snapshot[g].parent \in Inner(snapshot) \cup {NoName}
      BY RootMeaning
    <2> QED
      BY <1>1, <2>1 DEF Parents
  <1>8. ASSUME NEW fs \in SUBSET DOMAIN snapshot, Cyclic(snapshot, fs)
        PROVE  FALSE
    <2>1. PICK g \in fs : TRUE
      BY <1>8 DEF Cyclic
    <2>2. ~ \E hs \in SUBSET Inner(snapshot) : g \in hs /\ Cyclic(snapshot, hs)
      BY RootMeaning
    <2> QED
      BY <1>1, <1>8, <2>2
  <1> QED
    BY <1>1, <1>6, <1>7, <1>8 DEF IsTree

(* What the validation says of a snapshot is so: the failure it reports is *)
(* one that a walk met, and where none is met the snapshot is a tree.      *)
LEMMA ValidationMeaning ==
  ASSUME tree \in Snapshots
  PROVE  ValidationIsExact
  <1> DEFINE found == {FindTreeRoot(tree, f) : f \in DOMAIN tree}
             failures == {r.status : r \in found} \ {"VALID"}
             disjoint == {"DISJOINT" : r \in {r \in found \X found :
                                        /\ r[1].status = "VALID" /\ r[2].status = "VALID"
                                        /\ r[1].root # r[2].root}}
  <1>1. ValidateFrameTreeSnapshot(tree) =
          IF DOMAIN tree = {} THEN {"EMPTY"}
          ELSE IF failures \union disjoint = {} THEN {"VALID"}
          ELSE failures \union disjoint
    BY Zenon DEF ValidateFrameTreeSnapshot
  <1>2. \A status \in failures : \E f \in DOMAIN tree :
          status = FindTreeRoot(tree, f).status /\ status # "VALID"
    OBVIOUS
  <1>3. \A status \in disjoint : status = "DISJOINT" /\ \E f, g \in DOMAIN tree :
          /\ FindTreeRoot(tree, f).status = "VALID" /\ FindTreeRoot(tree, g).status = "VALID"
          /\ FindTreeRoot(tree, f).root # FindTreeRoot(tree, g).root
    OBVIOUS
  <1>4. failures = {} => \A f \in DOMAIN tree : FindTreeRoot(tree, f).status = "VALID"
    OBVIOUS
  <1>5. disjoint = {} => \A f, g \in DOMAIN tree :
          FindTreeRoot(tree, f).status = "VALID" /\ FindTreeRoot(tree, g).status = "VALID"
            => FindTreeRoot(tree, f).root = FindTreeRoot(tree, g).root
    <2> SUFFICES ASSUME NEW f \in DOMAIN tree, NEW g \in DOMAIN tree,
                        FindTreeRoot(tree, f).status = "VALID",
                        FindTreeRoot(tree, g).status = "VALID",
                        FindTreeRoot(tree, f).root # FindTreeRoot(tree, g).root
                 PROVE  "DISJOINT" \in disjoint
      OBVIOUS
    <2>1. <<FindTreeRoot(tree, f), FindTreeRoot(tree, g)>> \in
             {r \in found \X found : /\ r[1].status = "VALID" /\ r[2].status = "VALID"
                                     /\ r[1].root # r[2].root}
      OBVIOUS
    <2> QED
      BY <2>1
  <1> HIDE DEF failures, disjoint
  <1>6. DOMAIN tree = {} => ~ IsTree(tree)
    <2>1. DOMAIN tree = {} => Roots(tree) = {}
      BY DEF Roots
    <2>2. Cardinality({}) = 0
      BY FS_EmptySet
    <2>3. IsTree(tree) => Cardinality(Roots(tree)) = 1
      BY DEF IsTree
    <2> HIDE DEF found
    <2> QED
      BY <2>1, <2>2, <2>3
  <1>7. ASSUME NEW status \in failures
        PROVE  /\ status # "VALID" /\ status # "EMPTY" /\ status # "DISJOINT" /\ ~ IsTree(tree)
               /\ status = "CYCLE" => \E fs \in SUBSET (DOMAIN tree \ {NoName}) : Cyclic(tree, fs)
               /\ status = "UNKNOWN_PARENT_FRAME_NAME" => ~(Parents(tree) \subseteq DOMAIN tree)
               /\ status = "EMPTY_CHILD_FRAME_NAME" => NoName \in DOMAIN tree
    <2>1. PICK f \in DOMAIN tree : status = FindTreeRoot(tree, f).status /\ status # "VALID"
      BY <1>2
    <2>2. /\ status \in {"EMPTY_CHILD_FRAME_NAME", "CYCLE", "UNKNOWN_PARENT_FRAME_NAME"}
          /\ status = "CYCLE" => \E fs \in SUBSET (DOMAIN tree \ {NoName}) : Cyclic(tree, fs)
          /\ status = "UNKNOWN_PARENT_FRAME_NAME" => ~(Parents(tree) \subseteq DOMAIN tree)
          /\ status = "EMPTY_CHILD_FRAME_NAME" => NoName \in DOMAIN tree
      BY <2>1, RootMeaning DEF Inner
    <2>3. ~ IsTree(tree)
      BY <2>2 DEF IsTree
    <2> QED
      BY <2>2, <2>3
  <1>8. ASSUME NEW status \in disjoint
        PROVE  status = "DISJOINT" /\ Cardinality(Roots(tree)) > 1 /\ ~ IsTree(tree)
    <2>1. PICK f, g \in DOMAIN tree :
            /\ FindTreeRoot(tree, f).status = "VALID" /\ FindTreeRoot(tree, g).status = "VALID"
            /\ FindTreeRoot(tree, f).root # FindTreeRoot(tree, g).root
      BY <1>3
    <2>2. PICK a, b \in Roots(tree) : a # b
      BY <2>1, RootMeaning
    <2>3. Cardinality(Roots(tree)) > 1 /\ Cardinality(Roots(tree)) \in Nat
      BY <2>2, RootsFinite, OneOrMore, FS_CardinalityType
    <2> QED
      BY <1>3, <2>3 DEF IsTree
  <1>9. DOMAIN tree # {} /\ failures \union disjoint = {} => IsTree(tree)
    BY <1>4, <1>5, ValidIsTree
  <1>10. CASE DOMAIN tree = {}
    BY <1>1, <1>6, <1>10 DEF ValidationIsExact
  <1>11. CASE DOMAIN tree # {} /\ failures \union disjoint = {}
    BY <1>1, <1>9, <1>11 DEF ValidationIsExact
  <1>12. CASE DOMAIN tree # {} /\ failures \union disjoint # {}
    <2> SUFFICES ASSUME NEW status \in failures \union disjoint
                 PROVE  /\ status = "VALID" <=> IsTree(tree)
                        /\ status = "EMPTY" => DOMAIN tree = {}
                        /\ status = "CYCLE" =>
                             \E fs \in SUBSET (DOMAIN tree \ {NoName}) : Cyclic(tree, fs)
                        /\ status = "DISJOINT" => Cardinality(Roots(tree)) > 1
                        /\ status = "UNKNOWN_PARENT_FRAME_NAME" =>
                             ~(Parents(tree) \subseteq DOMAIN tree)
                        /\ status = "EMPTY_CHILD_FRAME_NAME" => NoName \in DOMAIN tree
      BY <1>1, <1>12 DEF ValidationIsExact
    <2>1. CASE status \in failures
      BY <1>7, <2>1
    <2>2. CASE status \in disjoint
      BY <1>8, <2>2
    <2> QED
      BY <2>1, <2>2
  <1> QED
    BY <1>10, <1>11, <1>12

-----------------------------------------------------------------------------
(* Poses *)

(* The unit quaternions of whole numbers are the four half turns, each     *)
(* with either sign.                                                       *)
LEMMA UnitCases ==
  ASSUME NEW q \in UnitQuaternions
  PROVE  /\ q \in [w : Int, x : Int, y : Int, z : Int]
         /\ \/ q.w = 1 /\ q.x = 0 /\ q.y = 0 /\ q.z = 0
            \/ q.w = -1 /\ q.x = 0 /\ q.y = 0 /\ q.z = 0
            \/ q.w = 0 /\ q.x = 1 /\ q.y = 0 /\ q.z = 0
            \/ q.w = 0 /\ q.x = -1 /\ q.y = 0 /\ q.z = 0
            \/ q.w = 0 /\ q.x = 0 /\ q.y = 1 /\ q.z = 0
            \/ q.w = 0 /\ q.x = 0 /\ q.y = -1 /\ q.z = 0
            \/ q.w = 0 /\ q.x = 0 /\ q.y = 0 /\ q.z = 1
            \/ q.w = 0 /\ q.x = 0 /\ q.y = 0 /\ q.z = -1
  <1>1. /\ q \in [w : -1 .. 1, x : -1 .. 1, y : -1 .. 1, z : -1 .. 1]
        /\ q.w * q.w + q.x * q.x + q.y * q.y + q.z * q.z = 1
    BY DEF UnitQuaternions
  <1>2. /\ q.w \in {-1, 0, 1} /\ q.x \in {-1, 0, 1} /\ q.y \in {-1, 0, 1}
        /\ q.z \in {-1, 0, 1}
    BY <1>1
  <1>3. q \in [w : Int, x : Int, y : Int, z : Int]
    BY <1>1
  <1>4. \A m \in {-1, 0, 1} : m * m = IF m = 0 THEN 0 ELSE 1
    OBVIOUS
  <1>5. (IF q.w = 0 THEN 0 ELSE 1) + (IF q.x = 0 THEN 0 ELSE 1)
          + (IF q.y = 0 THEN 0 ELSE 1) + (IF q.z = 0 THEN 0 ELSE 1) = 1
    <2>1. /\ q.w * q.w = IF q.w = 0 THEN 0 ELSE 1
          /\ q.x * q.x = IF q.x = 0 THEN 0 ELSE 1
          /\ q.y * q.y = IF q.y = 0 THEN 0 ELSE 1
          /\ q.z * q.z = IF q.z = 0 THEN 0 ELSE 1
      BY <1>2, <1>4
    <2> QED
      BY <1>1, <2>1
  <1>6. q.w # 0 => q.x = 0 /\ q.y = 0 /\ q.z = 0
    BY <1>5
  <1>7. q.x # 0 => q.w = 0 /\ q.y = 0 /\ q.z = 0
    BY <1>5
  <1>8. q.y # 0 => q.w = 0 /\ q.x = 0 /\ q.z = 0
    BY <1>5
  <1>9. q.w # 0 \/ q.x # 0 \/ q.y # 0 \/ q.z # 0
    BY <1>5
  <1> QED
    BY <1>2, <1>3, <1>6, <1>7, <1>8, <1>9

(* Their product is one of them. *)
LEMMA ProductUnit ==
  ASSUME NEW p \in UnitQuaternions, NEW q \in UnitQuaternions
  PROVE  QuaternionProduct(p, q) \in UnitQuaternions
  BY UnitCases DEF QuaternionProduct, UnitQuaternions

OneNumber(w, x, y, z) ==
  \/ w \in {1, -1} /\ x = 0 /\ y = 0 /\ z = 0
  \/ w = 0 /\ x \in {1, -1} /\ y = 0 /\ z = 0
  \/ w = 0 /\ x = 0 /\ y \in {1, -1} /\ z = 0
  \/ w = 0 /\ x = 0 /\ y = 0 /\ z \in {1, -1}

(* The same of the four numbers. *)
LEMMA UnitNumbers ==
  ASSUME NEW q \in UnitQuaternions
  PROVE  \E w, x, y, z \in Int :
           q = [w |-> w, x |-> x, y |-> y, z |-> z] /\ OneNumber(w, x, y, z)
  <1>1. q = [w |-> q.w, x |-> q.x, y |-> q.y, z |-> q.z]
    BY UnitCases
  <1>2. OneNumber(q.w, q.x, q.y, q.z) /\ q.w \in Int /\ q.x \in Int /\ q.y \in Int /\ q.z \in Int
    BY UnitCases DEF OneNumber
  <1> QED
    BY <1>1, <1>2

(* A half turn about an axis turns the other two round. *)
LEMMA RotateMeaning ==
  ASSUME NEW q \in UnitQuaternions, NEW v \in Vec3
  PROVE  /\ Rotate(q, v) = [x |-> IF q.w # 0 \/ q.x # 0 THEN v.x ELSE -v.x,
                            y |-> IF q.w # 0 \/ q.y # 0 THEN v.y ELSE -v.y,
                            z |-> IF q.w # 0 \/ q.z # 0 THEN v.z ELSE -v.z]
         /\ Rotate(q, v) \in Vec3
  <1>1. PICK a, b, c \in Int : v = [x |-> a, y |-> b, z |-> c]
    BY DEF Vec3
  <1>2. PICK w, x, y, z \in Int :
          q = [w |-> w, x |-> x, y |-> y, z |-> z] /\ OneNumber(w, x, y, z)
    BY UnitNumbers
  <1>3. PICK tw, tx, ty, tz \in Int :
          /\ tw = 0 * w - a * (-x) - b * (-y) - c * (-z)
          /\ tx = 0 * (-x) + a * w + b * (-z) - c * (-y)
          /\ ty = 0 * (-y) - a * (-z) + b * w + c * (-x)
          /\ tz = 0 * (-z) + a * (-y) - b * (-x) + c * w
    OBVIOUS
  <1>4. Rotate(q, v) = [x |-> w * tx + x * tw + y * tz - z * ty,
                        y |-> w * ty - x * tz + y * tw + z * tx,
                        z |-> w * tz + x * ty - y * tx + z * tw]
    BY <1>1, <1>2, <1>3 DEF Rotate, QuaternionProduct, Conjugate
  <1>5. Rotate(q, v) = [x |-> IF w # 0 \/ x # 0 THEN a ELSE -a,
                        y |-> IF w # 0 \/ y # 0 THEN b ELSE -b,
                        z |-> IF w # 0 \/ z # 0 THEN c ELSE -c]
    <2>1. /\ w * tx + x * tw + y * tz - z * ty = IF w # 0 \/ x # 0 THEN a ELSE -a
          /\ w * ty - x * tz + y * tw + z * tx = IF w # 0 \/ y # 0 THEN b ELSE -b
          /\ w * tz + x * ty - y * tx + z * tw = IF w # 0 \/ z # 0 THEN c ELSE -c
      <3>1. CASE w \in {1, -1} /\ x = 0 /\ y = 0 /\ z = 0
        BY <1>3, <3>1
      <3>2. CASE w = 0 /\ x \in {1, -1} /\ y = 0 /\ z = 0
        BY <1>3, <3>2
      <3>3. CASE w = 0 /\ x = 0 /\ y \in {1, -1} /\ z = 0
        BY <1>3, <3>3
      <3>4. CASE w = 0 /\ x = 0 /\ y = 0 /\ z \in {1, -1}
        BY <1>3, <3>4
      <3> QED
        BY <1>2, <3>1, <3>2, <3>3, <3>4 DEF OneNumber
    <2> QED
      BY <1>4, <2>1
  <1> QED
    BY <1>1, <1>2, <1>5 DEF Vec3

(* The conjugate turns back. *)
LEMMA ConjugateUnit ==
  ASSUME NEW q \in UnitQuaternions
  PROVE  /\ Conjugate(q) \in UnitQuaternions
         /\ QuaternionProduct(q, Conjugate(q)) = Identity.rotation
         /\ QuaternionProduct(Conjugate(q), q) = Identity.rotation
  BY UnitCases DEF Conjugate, QuaternionProduct, Identity, UnitQuaternions

(* The product of rotations is associative. *)
LEMMA ProductAssociative ==
  ASSUME NEW p \in UnitQuaternions, NEW q \in UnitQuaternions, NEW r \in UnitQuaternions
  PROVE  QuaternionProduct(QuaternionProduct(p, q), r)
           = QuaternionProduct(p, QuaternionProduct(q, r))
  BY UnitCases, SMTT(30) DEF QuaternionProduct

(* To turn by a product is to turn twice. *)
LEMMA RotateTwice ==
  ASSUME NEW p \in UnitQuaternions, NEW q \in UnitQuaternions, NEW v \in Vec3
  PROVE  Rotate(QuaternionProduct(p, q), v) = Rotate(p, Rotate(q, v))
  <1>1. v.x \in Int /\ v.y \in Int /\ v.z \in Int
    BY DEF Vec3
  <1> DEFINE pq == QuaternionProduct(p, q)
             qv == Rotate(q, v)
  <1>2. pq \in UnitQuaternions
    BY ProductUnit
  <1>3. /\ qv = [x |-> IF q.w # 0 \/ q.x # 0 THEN v.x ELSE -v.x,
                 y |-> IF q.w # 0 \/ q.y # 0 THEN v.y ELSE -v.y,
                 z |-> IF q.w # 0 \/ q.z # 0 THEN v.z ELSE -v.z]
        /\ qv \in Vec3
    BY RotateMeaning
  <1>4. /\ pq.w # 0 <=> (p.w # 0 /\ q.w # 0) \/ (p.x # 0 /\ q.x # 0)
                        \/ (p.y # 0 /\ q.y # 0) \/ (p.z # 0 /\ q.z # 0)
        /\ pq.x # 0 <=> (p.w # 0 /\ q.x # 0) \/ (p.x # 0 /\ q.w # 0)
                        \/ (p.y # 0 /\ q.z # 0) \/ (p.z # 0 /\ q.y # 0)
        /\ pq.y # 0 <=> (p.w # 0 /\ q.y # 0) \/ (p.y # 0 /\ q.w # 0)
                        \/ (p.x # 0 /\ q.z # 0) \/ (p.z # 0 /\ q.x # 0)
        /\ pq.z # 0 <=> (p.w # 0 /\ q.z # 0) \/ (p.z # 0 /\ q.w # 0)
                        \/ (p.x # 0 /\ q.y # 0) \/ (p.y # 0 /\ q.x # 0)
    <2>1. PICK pw, px, py, pz \in Int :
            /\ p = [w |-> pw, x |-> px, y |-> py, z |-> pz]
            /\ OneNumber(pw, px, py, pz)
      BY UnitNumbers
    <2>2. PICK qw, qx, qy, qz \in Int :
            /\ q = [w |-> qw, x |-> qx, y |-> qy, z |-> qz]
            /\ OneNumber(qw, qx, qy, qz)
      BY UnitNumbers
    <2>3. pq = [w |-> pw * qw - px * qx - py * qy - pz * qz,
                x |-> pw * qx + px * qw + py * qz - pz * qy,
                y |-> pw * qy - px * qz + py * qw + pz * qx,
                z |-> pw * qz + px * qy - py * qx + pz * qw]
      BY <2>1, <2>2 DEF QuaternionProduct
    <2> HIDE DEF pq
    <2>4. CASE pw \in {1, -1}
      BY <2>1, <2>2, <2>3, <2>4 DEF OneNumber
    <2>5. CASE px \in {1, -1}
      BY <2>1, <2>2, <2>3, <2>5 DEF OneNumber
    <2>6. CASE py \in {1, -1}
      BY <2>1, <2>2, <2>3, <2>6 DEF OneNumber
    <2>7. CASE pz \in {1, -1}
      BY <2>1, <2>2, <2>3, <2>7 DEF OneNumber
    <2> QED
      BY <2>1, <2>4, <2>5, <2>6, <2>7 DEF OneNumber
  <1> HIDE DEF pq, qv
  <1>5. Rotate(p, qv) = [x |-> IF p.w # 0 \/ p.x # 0 THEN qv.x ELSE -qv.x,
                         y |-> IF p.w # 0 \/ p.y # 0 THEN qv.y ELSE -qv.y,
                         z |-> IF p.w # 0 \/ p.z # 0 THEN qv.z ELSE -qv.z]
    <2>1. qv \in Vec3
      BY <1>3
    <2> QED
      BY <2>1, RotateMeaning
  <1>6. Rotate(pq, v) = [x |-> IF pq.w # 0 \/ pq.x # 0 THEN v.x ELSE -v.x,
                         y |-> IF pq.w # 0 \/ pq.y # 0 THEN v.y ELSE -v.y,
                         z |-> IF pq.w # 0 \/ pq.z # 0 THEN v.z ELSE -v.z]
    BY <1>2, RotateMeaning
  <1>7. Rotate(pq, v) = Rotate(p, qv)
    BY <1>1, <1>3, <1>4, <1>5, <1>6, UnitCases
  <1> QED
    BY <1>7 DEF pq, qv

(* The sum of vectors is one, in whatever order. *)
LEMMA PlusType ==
  ASSUME NEW u \in Vec3, NEW v \in Vec3
  PROVE  Plus(u, v) \in Vec3 /\ Plus(u, v) = Plus(v, u)
  BY DEF Plus, Vec3

(* The sum of vectors is associative. *)
LEMMA PlusAssociative ==
  ASSUME NEW t \in Vec3, NEW u \in Vec3, NEW v \in Vec3
  PROVE  Plus(Plus(t, u), v) = Plus(t, Plus(u, v))
  BY DEF Plus, Vec3

(* A rotation is linear. *)
LEMMA RotatePlus ==
  ASSUME NEW q \in UnitQuaternions, NEW u \in Vec3, NEW v \in Vec3
  PROVE  Rotate(q, Plus(u, v)) = Plus(Rotate(q, u), Rotate(q, v))
  <1>1. PICK a, b, c \in Int : u = [x |-> a, y |-> b, z |-> c]
    BY DEF Vec3
  <1>2. PICK d, e, f \in Int : v = [x |-> d, y |-> e, z |-> f]
    BY DEF Vec3
  <1>3. Plus(u, v) = [x |-> a + d, y |-> b + e, z |-> c + f] /\ Plus(u, v) \in Vec3
    BY <1>1, <1>2 DEF Plus, Vec3
  <1>4. Rotate(q, u) = [x |-> IF q.w # 0 \/ q.x # 0 THEN a ELSE -a,
                        y |-> IF q.w # 0 \/ q.y # 0 THEN b ELSE -b,
                        z |-> IF q.w # 0 \/ q.z # 0 THEN c ELSE -c]
    BY <1>1, RotateMeaning
  <1>5. Rotate(q, v) = [x |-> IF q.w # 0 \/ q.x # 0 THEN d ELSE -d,
                        y |-> IF q.w # 0 \/ q.y # 0 THEN e ELSE -e,
                        z |-> IF q.w # 0 \/ q.z # 0 THEN f ELSE -f]
    BY <1>2, RotateMeaning
  <1>6. Rotate(q, Plus(u, v)) = [x |-> IF q.w # 0 \/ q.x # 0 THEN a + d ELSE -(a + d),
                                 y |-> IF q.w # 0 \/ q.y # 0 THEN b + e ELSE -(b + e),
                                 z |-> IF q.w # 0 \/ q.z # 0 THEN c + f ELSE -(c + f)]
    BY <1>3, RotateMeaning
  <1>7. Plus(Rotate(q, u), Rotate(q, v))
          = [x |-> IF q.w # 0 \/ q.x # 0 THEN a + d ELSE -a + -d,
             y |-> IF q.w # 0 \/ q.y # 0 THEN b + e ELSE -b + -e,
             z |-> IF q.w # 0 \/ q.z # 0 THEN c + f ELSE -c + -f]
    BY <1>4, <1>5 DEF Plus
  <1>8. -(a + d) = -a + -d /\ -(b + e) = -b + -e /\ -(c + f) = -c + -f
    OBVIOUS
  <1> QED
    BY <1>6, <1>7, <1>8

(* The opposite of a vector. *)
LEMMA TimesMeaning ==
  ASSUME NEW u \in Vec3
  PROVE  /\ Times(u, -1) \in Vec3
         /\ Plus(u, Times(u, -1)) = Identity.position
         /\ Plus(Identity.position, u) = u
         /\ \A q \in UnitQuaternions : Rotate(q, Times(u, -1)) = Times(Rotate(q, u), -1)
  <1>1. Times(u, -1) = [x |-> -u.x, y |-> -u.y, z |-> -u.z] /\ Times(u, -1) \in Vec3
    BY DEF Times, Vec3
  <1>2. ASSUME NEW q \in UnitQuaternions
        PROVE  Rotate(q, Times(u, -1)) = Times(Rotate(q, u), -1)
    BY <1>1, RotateMeaning DEF Times, Vec3
  <1>3. Plus(u, Times(u, -1)) = Identity.position
    BY <1>1 DEF Plus, Vec3, Identity
  <1>4. Plus(Identity.position, u) = u
    BY DEF Plus, Vec3, Identity
  <1> QED
    BY <1>1, <1>2, <1>3, <1>4

(* The poses are a group. *)
LEMMA ProductIsPose ==
  ASSUME NEW a \in SE3Pose, NEW b \in SE3Pose
  PROVE  Product(a, b) \in SE3Pose
  BY ProductUnit, RotateMeaning, PlusType, TimesMeaning DEF Product, SE3Pose

(* The inverse of a pose is one. *)
LEMMA InvertedIsPose ==
  ASSUME NEW a \in SE3Pose
  PROVE  Inverted(a) \in SE3Pose
  <1>1. Conjugate(a.rotation) \in UnitQuaternions /\ a.position \in Vec3
    BY ConjugateUnit DEF SE3Pose
  <1>2. Rotate(Conjugate(a.rotation), a.position) \in Vec3
    BY <1>1, RotateMeaning
  <1> QED
    BY <1>1, <1>2, PlusType, TimesMeaning DEF Inverted, SE3Pose

(* So is the identity. *)
LEMMA IdentityIsPose == Identity \in SE3Pose
  <1>1. Identity.position \in Vec3
    BY DEF Identity, Vec3
  <1>2. Identity.rotation \in UnitQuaternions
    BY DEF Identity, UnitQuaternions
  <1> QED
    BY <1>1, <1>2 DEF Identity, SE3Pose

(* The product of poses is associative. *)
LEMMA PoseAssociative ==
  ASSUME NEW a \in SE3Pose, NEW b \in SE3Pose, NEW c \in SE3Pose
  PROVE  Product(Product(a, b), c) = Product(a, Product(b, c))
  <1>1. /\ a.position \in Vec3 /\ b.position \in Vec3 /\ c.position \in Vec3
        /\ a.rotation \in UnitQuaternions /\ b.rotation \in UnitQuaternions
        /\ c.rotation \in UnitQuaternions
    BY DEF SE3Pose
  <1>2. PICK u \in Vec3 : u = Rotate(b.rotation, c.position)
    BY <1>1, RotateMeaning
  <1>3. PICK s, t \in Vec3 : s = Rotate(a.rotation, b.position) /\ t = Rotate(a.rotation, u)
    BY <1>1, RotateMeaning
  <1>4. Rotate(QuaternionProduct(a.rotation, b.rotation), c.position) = t
    BY <1>1, <1>2, <1>3, RotateTwice
  <1>5. Rotate(a.rotation, Plus(b.position, u)) = Plus(s, t)
    BY <1>1, <1>2, <1>3, RotatePlus
  <1>6. Plus(Plus(a.position, s), t) = Plus(a.position, Plus(s, t))
    BY <1>1, PlusAssociative
  <1>7. QuaternionProduct(QuaternionProduct(a.rotation, b.rotation), c.rotation)
          = QuaternionProduct(a.rotation, QuaternionProduct(b.rotation, c.rotation))
    BY <1>1, ProductAssociative
  <1> QED
    BY <1>2, <1>3, <1>4, <1>5, <1>6, <1>7 DEF Product

(* The inverse undoes a pose on either side; the identity leaves it alone. *)
LEMMA PoseInverse ==
  ASSUME NEW a \in SE3Pose
  PROVE  /\ Product(a, Inverted(a)) = Identity
         /\ Product(Inverted(a), a) = Identity
         /\ Product(Identity, a) = a
         /\ Product(a, Identity) = a
  <1> DEFINE r == a.rotation
             p == a.position
             i == Conjugate(r)
             one == Identity.rotation
             zero == Identity.position
  <1>1. /\ p \in Vec3 /\ r \in UnitQuaternions /\ i \in UnitQuaternions
        /\ one \in UnitQuaternions /\ zero \in Vec3
        /\ a = [position |-> p, rotation |-> r]
        /\ Identity = [position |-> zero, rotation |-> one]
    BY ConjugateUnit, IdentityIsPose DEF SE3Pose, Identity
  <1>2. QuaternionProduct(r, i) = one /\ QuaternionProduct(i, r) = one
    BY <1>1, ConjugateUnit
  <1>3. Rotate(one, p) = p
    <2>1. one.w # 0
      BY DEF Identity
    <2>2. Rotate(one, p) = [x |-> p.x, y |-> p.y, z |-> p.z]
      <3> HIDE DEF one
      <3> QED
        BY <1>1, <2>1, RotateMeaning
    <2> QED
      BY <1>1, <2>2 DEF Vec3
  <1>4. Rotate(i, p) \in Vec3 /\ Rotate(r, Rotate(i, p)) = p
    BY <1>1, <1>2, <1>3, RotateMeaning, RotateTwice
  <1>5. Inverted(a) = [position |-> Times(Rotate(i, p), -1), rotation |-> i]
    BY DEF Inverted
  <1>6. Product(a, Inverted(a)) = Identity
    <2>1. Rotate(r, Times(Rotate(i, p), -1)) = Times(p, -1)
      BY <1>1, <1>4, PlusType, TimesMeaning
    <2>2. Plus(p, Times(p, -1)) = zero
      BY <1>1, PlusType, TimesMeaning
    <2> QED
      BY <1>1, <1>2, <1>5, <2>1, <2>2 DEF Product
  <1>7. Product(Inverted(a), a) = Identity
    <2>1. Plus(Times(Rotate(i, p), -1), Rotate(i, p)) = zero
      BY <1>1, <1>4, PlusType, TimesMeaning
    <2> QED
      BY <1>1, <1>2, <1>5, <2>1 DEF Product
  <1>8. QuaternionProduct(one, r) = r /\ QuaternionProduct(r, one) = r
    BY <1>1, UnitCases DEF Identity, QuaternionProduct
  <1>9. Product(Identity, a) = a
    BY <1>1, <1>3, <1>8, PlusType, TimesMeaning DEF Product
  <1>10. Product(a, Identity) = a
    <2>1. Product(a, Product(Inverted(a), a)) = Product(Product(a, Inverted(a)), a)
      BY InvertedIsPose, PoseAssociative
    <2> QED
      BY <1>6, <1>7, <1>9, <2>1
  <1> QED
    BY <1>6, <1>7, <1>9, <1>10

(* A pose and its inverse cancel on the left. *)
LEMMA CancelLeft ==
  ASSUME NEW a \in SE3Pose, NEW b \in SE3Pose
  PROVE  Product(Inverted(a), Product(a, b)) = b /\ Product(a, Product(Inverted(a), b)) = b
  BY InvertedIsPose, PoseAssociative, PoseInverse

(* The inverse of a product takes the inverses in reverse. *)
LEMMA InvertedProduct ==
  ASSUME NEW a \in SE3Pose, NEW b \in SE3Pose
  PROVE  Inverted(Product(a, b)) = Product(Inverted(b), Inverted(a))
  <1>1. PICK i, j \in SE3Pose : i = Inverted(a) /\ j = Inverted(b)
    BY InvertedIsPose
  <1>2. PICK ab, ji, k \in SE3Pose :
          ab = Product(a, b) /\ ji = Product(j, i) /\ k = Inverted(ab)
    BY ProductIsPose, InvertedIsPose
  <1>3. Product(ab, ji) = Identity
    <2>1. Product(ab, ji) = Product(a, Product(b, ji))
      BY <1>2, PoseAssociative
    <2>2. Product(b, ji) = i
      BY <1>1, <1>2, CancelLeft
    <2> QED
      BY <1>1, <2>1, <2>2, PoseInverse
  <1>4. Product(k, Product(ab, ji)) = ji
    BY <1>2, CancelLeft
  <1>5. Product(k, Identity) = k
    BY <1>2, PoseInverse
  <1> QED
    BY <1>1, <1>2, <1>3, <1>4, <1>5

(* The cross product is linear in its first factor. *)
LEMMA CrossMeaning ==
  ASSUME NEW t \in Vec3, NEW u \in Vec3, NEW v \in Vec3
  PROVE  /\ Cross(u, v) \in Vec3
         /\ Cross(Plus(t, u), v) = Plus(Cross(t, v), Cross(u, v))
  <1>1. PICK a, b, c \in Int : u = [x |-> a, y |-> b, z |-> c]
    BY DEF Vec3
  <1>2. PICK d, e, f \in Int : v = [x |-> d, y |-> e, z |-> f]
    BY DEF Vec3
  <1>3. PICK g, h, i \in Int : t = [x |-> g, y |-> h, z |-> i]
    BY DEF Vec3
  <1>4. Cross(u, v) \in Vec3
    BY <1>1, <1>2 DEF Cross, Vec3
  <1>5. /\ (h + b) * f - (i + c) * e = (h * f - i * e) + (b * f - c * e)
        /\ (i + c) * d - (g + a) * f = (i * d - g * f) + (c * d - a * f)
        /\ (g + a) * e - (h + b) * d = (g * e - h * d) + (a * e - b * d)
    OBVIOUS
  <1>6. Cross(Plus(t, u), v) = Plus(Cross(t, v), Cross(u, v))
    BY <1>1, <1>2, <1>3, <1>5 DEF Cross, Plus
  <1> QED
    BY <1>4, <1>6

(* A rotation keeps the cross product: it does not mirror. *)
LEMMA RotateCross ==
  ASSUME NEW q \in UnitQuaternions, NEW u \in Vec3, NEW v \in Vec3
  PROVE  Rotate(q, Cross(u, v)) = Cross(Rotate(q, u), Rotate(q, v))
  <1>1. PICK a, b, c \in Int : u = [x |-> a, y |-> b, z |-> c]
    BY DEF Vec3
  <1>2. PICK d, e, f \in Int : v = [x |-> d, y |-> e, z |-> f]
    BY DEF Vec3
  <1>3. Cross(u, v) = [x |-> b * f - c * e, y |-> c * d - a * f, z |-> a * e - b * d]
        /\ Cross(u, v) \in Vec3
    BY <1>1, <1>2 DEF Cross, Vec3
  <1>4. PICK w, x, y, z \in Int :
          q = [w |-> w, x |-> x, y |-> y, z |-> z] /\ OneNumber(w, x, y, z)
    BY UnitNumbers
  <1>5. Rotate(q, u) = [x |-> IF w # 0 \/ x # 0 THEN a ELSE -a,
                        y |-> IF w # 0 \/ y # 0 THEN b ELSE -b,
                        z |-> IF w # 0 \/ z # 0 THEN c ELSE -c]
    BY <1>1, <1>4, RotateMeaning
  <1>6. Rotate(q, v) = [x |-> IF w # 0 \/ x # 0 THEN d ELSE -d,
                        y |-> IF w # 0 \/ y # 0 THEN e ELSE -e,
                        z |-> IF w # 0 \/ z # 0 THEN f ELSE -f]
    BY <1>2, <1>4, RotateMeaning
  <1>7. Rotate(q, Cross(u, v))
          = [x |-> IF w # 0 \/ x # 0 THEN b * f - c * e ELSE -(b * f - c * e),
             y |-> IF w # 0 \/ y # 0 THEN c * d - a * f ELSE -(c * d - a * f),
             z |-> IF w # 0 \/ z # 0 THEN a * e - b * d ELSE -(a * e - b * d)]
    BY <1>3, <1>4, RotateMeaning
  <1>8. \A m, n \in Int : /\ (-m) * n = -(m * n) /\ m * (-n) = -(m * n)
                          /\ (-m) * (-n) = m * n
    OBVIOUS
  <1>9. CASE w # 0
    BY <1>5, <1>6, <1>7, <1>9 DEF Cross
  <1>10. CASE x # 0
    <2>1. w = 0 /\ y = 0 /\ z = 0
      BY <1>4, <1>10 DEF OneNumber
    <2>2. Rotate(q, u) = [x |-> a, y |-> -b, z |-> -c]
      BY <1>5, <1>10, <2>1
    <2>3. Rotate(q, v) = [x |-> d, y |-> -e, z |-> -f]
      BY <1>6, <1>10, <2>1
    <2>4. /\ (-b) * (-f) - (-c) * (-e) = b * f - c * e
          /\ (-c) * d - a * (-f) = -(c * d - a * f)
          /\ a * (-e) - (-b) * d = -(a * e - b * d)
      OBVIOUS
    <2> QED
      BY <1>7, <1>10, <2>1, <2>2, <2>3, <2>4 DEF Cross
  <1>11. CASE y # 0
    <2>1. w = 0 /\ x = 0 /\ z = 0
      BY <1>4, <1>11 DEF OneNumber
    <2>2. Rotate(q, u) = [x |-> -a, y |-> b, z |-> -c]
      BY <1>5, <1>11, <2>1
    <2>3. Rotate(q, v) = [x |-> -d, y |-> e, z |-> -f]
      BY <1>6, <1>11, <2>1
    <2>4. /\ b * (-f) - (-c) * e = -(b * f - c * e)
          /\ (-c) * (-d) - (-a) * (-f) = c * d - a * f
          /\ (-a) * e - b * (-d) = -(a * e - b * d)
      OBVIOUS
    <2> QED
      BY <1>7, <1>11, <2>1, <2>2, <2>3, <2>4 DEF Cross
  <1>12. CASE z # 0
    <2>1. w = 0 /\ x = 0 /\ y = 0
      BY <1>4, <1>12 DEF OneNumber
    <2>2. Rotate(q, u) = [x |-> -a, y |-> -b, z |-> c]
      BY <1>5, <1>12, <2>1
    <2>3. Rotate(q, v) = [x |-> -d, y |-> -e, z |-> f]
      BY <1>6, <1>12, <2>1
    <2>4. /\ (-b) * f - c * (-e) = -(b * f - c * e)
          /\ c * (-d) - (-a) * f = -(c * d - a * f)
          /\ (-a) * (-e) - (-b) * (-d) = a * e - b * d
      OBVIOUS
    <2> QED
      BY <1>7, <1>12, <2>1, <2>2, <2>3, <2>4 DEF Cross
  <1> QED
    BY <1>4, <1>9, <1>10, <1>11, <1>12 DEF OneNumber

(* A velocity taken to one frame and from there to another is taken there  *)
(* at once.                                                                *)
LEMMA VelocityTwice ==
  ASSUME NEW a \in SE3Pose, NEW b \in SE3Pose,
         NEW velocity \in [linear : Vec3, angular : Vec3]
  PROVE  TransformVelocity(Product(a, b), velocity)
           = TransformVelocity(a, TransformVelocity(b, velocity))
  <1>1. PICK p, s \in Vec3, q, r \in UnitQuaternions :
          /\ a = [position |-> p, rotation |-> q]
          /\ b = [position |-> s, rotation |-> r]
    BY DEF SE3Pose
  <1>2. PICK l, m \in Vec3 : velocity = [linear |-> l, angular |-> m]
    OBVIOUS
  <1>3. PICK qs, rl, rm, qrl, qrm \in Vec3 :
          /\ qs = Rotate(q, s) /\ rl = Rotate(r, l) /\ rm = Rotate(r, m)
          /\ qrl = Rotate(q, rl) /\ qrm = Rotate(q, rm)
    BY RotateMeaning
  <1>4. Rotate(QuaternionProduct(q, r), l) = qrl /\ Rotate(QuaternionProduct(q, r), m) = qrm
    BY <1>3, RotateTwice
  <1>5. TransformVelocity(Product(a, b), velocity)
          = [linear |-> Plus(qrl, Cross(Plus(p, qs), qrm)), angular |-> qrm]
    BY <1>1, <1>2, <1>3, <1>4 DEF TransformVelocity, Product
  <1>6. TransformVelocity(b, velocity) = [linear |-> Plus(rl, Cross(s, rm)), angular |-> rm]
    BY <1>1, <1>2, <1>3 DEF TransformVelocity
  <1>7. TransformVelocity(a, TransformVelocity(b, velocity))
          = [linear |-> Plus(Rotate(q, Plus(rl, Cross(s, rm))), Cross(p, qrm)), angular |-> qrm]
    BY <1>1, <1>3, <1>6 DEF TransformVelocity
  <1>8. Cross(s, rm) \in Vec3 /\ Rotate(q, Cross(s, rm)) = Cross(qs, qrm)
    BY <1>3, CrossMeaning, RotateCross
  <1>9. Rotate(q, Plus(rl, Cross(s, rm))) = Plus(qrl, Cross(qs, qrm))
    BY <1>3, <1>8, RotatePlus
  <1>10. PICK c, d \in Vec3 : c = Cross(p, qrm) /\ d = Cross(qs, qrm)
    BY CrossMeaning
  <1>11. Cross(Plus(p, qs), qrm) = Plus(c, d)
    BY <1>10, CrossMeaning
  <1>12. Plus(Plus(qrl, d), c) = Plus(qrl, Plus(c, d))
    <2>1. Plus(Plus(qrl, d), c) = Plus(qrl, Plus(d, c)) /\ Plus(d, c) = Plus(c, d)
      BY PlusAssociative, PlusType
    <2> QED
      BY <2>1
  <1> QED
    BY <1>5, <1>7, <1>9, <1>10, <1>11, <1>12

(* The type of the tree. *)
IsSnapshot == tree \in Snapshots

(* The type invariant of the tree: it is a snapshot, whatever was done.    *)
THEOREM FrameTypes == TreeSpec => []IsSnapshot
  <1>1. ASSUME TreeInit PROVE IsSnapshot
    <2>1. tree \in [{} -> [parent : Names, parent_tform_child : SE3Pose]]
      BY <1>1 DEF TreeInit
    <2> QED
      BY <2>1 DEF Snapshots, IsSnapshot
  <1>2. ASSUME IsSnapshot, [TreeNext]_treeVars PROVE IsSnapshot'
    <2>1. ASSUME NEW parent \in Names, NEW pose \in SE3Pose
          PROVE  Edge(parent, pose) \in [parent : Names, parent_tform_child : SE3Pose]
      BY DEF Edge
    <2>2. PICK fs \in SUBSET Names :
            tree \in [fs -> [parent : Names, parent_tform_child : SE3Pose]]
      BY <1>2 DEF Snapshots, IsSnapshot
    <2>3. DOMAIN tree = fs
      BY <2>2
    <2>4. ASSUME NEW gs \in SUBSET Names, NEW t,
                 t \in [gs -> [parent : Names, parent_tform_child : SE3Pose]]
          PROVE  t \in Snapshots
      BY <2>4 DEF Snapshots
    <2>5. ASSUME NEW child \in Names, NEW parent \in Names, NEW pose \in SE3Pose
          PROVE  With(child, Edge(parent, pose)) \in Snapshots
      <3>1. With(child, Edge(parent, pose)) \in
              [fs \cup {child} -> [parent : Names, parent_tform_child : SE3Pose]]
        BY <2>1, <2>2, <2>3 DEF With
      <3> QED
        BY <2>4, <3>1
    <2>6. SUFFICES ASSUME NEW parent \in Names, NEW child \in Names, NEW pose \in SE3Pose,
                          \/ AddEdgeToFrameTree(parent, child, pose)
                          \/ SetPoseOnExistingEdge(parent, child, pose)
                          \/ ReparentFrame(parent, child, pose)
                   PROVE  tree' \in Snapshots
      BY <1>2, PosesAssumption
         DEF TreeNext, Changes, SetPoseAborts, treeVars, IsSnapshot
    <2>7. CASE AddEdgeToFrameTree(parent, child, pose)
      BY <2>5, <2>7 DEF AddEdgeToFrameTree
    <2>8. CASE SetPoseOnExistingEdge(parent, child, pose)
      <3>1. tree' = [tree EXCEPT ![child].parent_tform_child = pose]
        BY <2>8 DEF SetPoseOnExistingEdge
      <3>2. tree' \in [fs -> [parent : Names, parent_tform_child : SE3Pose]]
        BY <2>2, <3>1
      <3> QED
        BY <2>4, <3>2
    <2>9. CASE ReparentRoot(parent, child, pose)
      <3>1. CASE tree' = With(child, Edge(parent, pose))
        BY <2>5, <3>1
      <3>2. CASE tree' = [f \in DOMAIN tree \union {parent} |->
                            IF f = child THEN Edge(parent, pose)
                            ELSE IF f = parent THEN Edge(NoName, Identity) ELSE tree[f]]
        <4>1. /\ Edge(parent, pose) \in [parent : Names, parent_tform_child : SE3Pose]
              /\ Edge(NoName, Identity) \in [parent : Names, parent_tform_child : SE3Pose]
          BY <2>1, IdentityIsPose DEF Names
        <4>2. tree' \in [fs \cup {parent} -> [parent : Names, parent_tform_child : SE3Pose]]
          BY <2>2, <2>3, <3>2, <4>1
        <4> QED
          BY <2>4, <4>2
      <3> QED
        BY <2>9, <3>1, <3>2 DEF ReparentRoot
    <2>10. CASE ReparentInner(parent, child, pose)
      <3>1. CASE tree' = With(child, Edge(parent, pose))
        BY <2>5, <3>1
      <3>2. CASE tree' = [f \in DOMAIN tree \union {parent} |->
                            IF f = child THEN Edge(parent, pose)
                            ELSE IF f = parent THEN Edge(parent, Product(pose, Inverted(pose)))
                            ELSE tree[f]]
        <4>1. /\ Edge(parent, pose) \in [parent : Names, parent_tform_child : SE3Pose]
              /\ Edge(parent, Product(pose, Inverted(pose))) \in
                   [parent : Names, parent_tform_child : SE3Pose]
          BY <2>1, ProductIsPose, InvertedIsPose
        <4>2. tree' \in [fs \cup {parent} -> [parent : Names, parent_tform_child : SE3Pose]]
          BY <2>2, <2>3, <3>2, <4>1
        <4> QED
          BY <2>4, <4>2
      <3> QED
        BY <2>10, <3>1, <3>2 DEF ReparentInner
    <2> QED
      BY <2>6, <2>7, <2>8, <2>9, <2>10 DEF ReparentFrame
  <1> QED
    BY <1>1, <1>2, PTL DEF TreeSpec

(* However a program builds and changes its tree, into whatever it makes   *)
(* of it, the validation accepts exactly the trees, and a status it        *)
(* returns names a defect the snapshot has (frame_helpers.cpp:51).         *)
THEOREM FramesValidationIsExact == TreeSpec => []ValidationIsExact
  <1>1. IsSnapshot => ValidationIsExact
    BY ValidationMeaning DEF IsSnapshot
  <1> QED
    BY <1>1, FrameTypes, PTL

-----------------------------------------------------------------------------
(* What the accumulation of a path multiplies, one edge after the other. *)
Accumulated(path, ret) ==
  /\ ret \in [0 .. Len(path) -> SE3Pose]
  /\ ret[0] = Identity
  /\ \A i \in 1 .. Len(path) : ret[i] = Product(path[i].parent_tform_child, ret[i - 1])

(* The recursion of AccumulateTransforms is defined for every path. *)
LEMMA AccumulateMeaning ==
  ASSUME NEW path, Len(path) \in Nat,
         \A i \in 1 .. Len(path) : path[i].parent_tform_child \in SE3Pose
  PROVE  \E ret : Accumulated(path, ret) /\ AccumulateTransforms(path) = ret[Len(path)]
  <1> DEFINE N == Len(path)
             Steps(r) == r = [i \in 0 .. N |->
                                IF i = 0 THEN Identity
                                ELSE Product(path[i].parent_tform_child, r[i - 1])]
             g == [i \in Nat |-> [p \in SE3Pose |->
                     IF i \in 1 .. N THEN Product(path[i].parent_tform_child, p) ELSE Identity]]
  <1>1. PICK ret : ret = CHOOSE r : Steps(r)
    OBVIOUS
  <1>2. AccumulateTransforms(path) = ret[N]
    BY <1>1, Zenon DEF AccumulateTransforms
  <1>3. N \in Nat /\ \A i \in 1 .. N : i \in Nat
    OBVIOUS
  <1>4. \A i \in 1 .. N : path[i].parent_tform_child \in SE3Pose
    OBVIOUS
  <1> HIDE DEF N
  <1>5. PICK f \in [0 .. N -> SE3Pose] :
          f[0] = Identity /\ \A i \in 1 .. N : f[i] = g[i][f[i - 1]]
    <2>1. g \in [Nat -> [SE3Pose -> SE3Pose]]
      BY <1>4, ProductIsPose, IdentityIsPose
    <2>2. PICK f : IteratedUpTo(N, f, g, SE3Pose, Identity)
      <3> HIDE DEF g
      <3> QED
        BY <1>3, <2>1, IdentityIsPose, Iterates
    <2> QED
      BY <2>2 DEF IteratedUpTo
  <1>6. \A i \in 1 .. N : /\ i - 1 \in 0 .. N /\ i \in 0 .. N /\ i # 0
                          /\ f[i] = Product(path[i].parent_tform_child, f[i - 1])
    <2>1. ASSUME NEW i \in 1 .. N
          PROVE  i - 1 \in 0 .. N /\ i \in 0 .. N /\ i # 0 /\ i \in Nat
      BY <1>3
    <2>2. \A i \in 1 .. N : f[i - 1] \in SE3Pose /\ f[i] = g[i][f[i - 1]]
      BY <1>5, <2>1
    <2>3. \A i \in 1 .. N, p \in SE3Pose : g[i][p] = Product(path[i].parent_tform_child, p)
      BY <2>1
    <2> HIDE DEF g
    <2> QED
      BY <2>1, <2>2, <2>3
  <1>7. Steps(f)
    <2>1. ASSUME NEW i \in 0 .. N
          PROVE  f[i] = IF i = 0 THEN Identity
                        ELSE Product(path[i].parent_tform_child, f[i - 1])
      <3>1. i = 0 \/ i \in 1 .. N
        BY <1>3
      <3> QED
        BY <1>5, <1>6, <3>1
    <2> HIDE DEF g
    <2> QED
      BY <1>5, <2>1
  <1>8. Steps(ret)
    <2> HIDE DEF Steps
    <2> QED
      BY <1>1, <1>7
  <1>9. \A i \in 0 .. N : ret[i] = IF i = 0 THEN Identity
                                   ELSE Product(path[i].parent_tform_child, ret[i - 1])
    BY <1>8
  <1>10. ret[0] = Identity /\ 0 \in 0 .. N
    BY <1>3, <1>9
  <1>11. \A i \in 1 .. N : ret[i] = Product(path[i].parent_tform_child, ret[i - 1])
    BY <1>6, <1>9
  <1>12. \A i \in 0 .. N : ret[i] \in SE3Pose
    <2> DEFINE Bad == {i \in 0 .. N : ret[i] \notin SE3Pose}
    <2> SUFFICES ASSUME Bad # {} PROVE FALSE
      OBVIOUS
    <2>1. PICK i \in Bad : \A k \in Bad : i <= k
      <3>1. Bad \subseteq Nat
        BY <1>3
      <3> HIDE DEF Bad
      <3> QED
        BY <3>1, LeastNatural
    <2>2. i \in 1 .. N /\ i - 1 \in 0 .. N /\ ~ (i <= i - 1)
      BY <1>3, <1>10, <2>1, IdentityIsPose
    <2>3. ret[i - 1] \in SE3Pose
      BY <2>1, <2>2
    <2> QED
      BY <1>4, <1>11, <2>1, <2>2, <2>3, ProductIsPose
  <1>13. DOMAIN ret = 0 .. N /\ ret = [i \in 0 .. N |-> ret[i]]
    BY <1>8
  <1>14. ret \in [0 .. N -> SE3Pose]
    <2> HIDE DEF Steps
    <2> QED
      BY <1>12, <1>13
  <1> HIDE DEF Steps, g
  <1>15. Accumulated(path, ret)
    BY <1>10, <1>11, <1>14 DEF Accumulated, N
  <1> QED
    BY <1>2, <1>15 DEF N

(* A path that takes one more edge first multiplies its pose last. *)
LEMMA OneMoreEdge ==
  ASSUME NEW p, NEW q, Len(p) \in Nat, Len(q) = Len(p) + 1,
         \A i \in 1 .. Len(p) : p[i].parent_tform_child \in SE3Pose,
         \A i \in 1 .. Len(p) : q[i + 1] = p[i],
         q[1].parent_tform_child \in SE3Pose
  PROVE  AccumulateTransforms(q)
           = Product(AccumulateTransforms(p), q[1].parent_tform_child)
  <1> DEFINE N == Len(p)
             e == q[1].parent_tform_child
  <1>1. N \in Nat /\ Len(q) = N + 1
    OBVIOUS
  <1>2. \A i \in 1 .. N : p[i].parent_tform_child \in SE3Pose /\ q[i + 1] = p[i]
    OBVIOUS
  <1>3. e \in SE3Pose
    OBVIOUS
  <1>4. PICK below : Accumulated(p, below) /\ AccumulateTransforms(p) = below[N]
    BY AccumulateMeaning
  <1>5. \A i \in 1 .. N + 1 : q[i].parent_tform_child \in SE3Pose
    <2> SUFFICES ASSUME NEW i \in 1 .. N + 1 PROVE q[i].parent_tform_child \in SE3Pose
      OBVIOUS
    <2>1. i = 1 \/ (i - 1 \in 1 .. N /\ i - 1 + 1 = i)
      BY <1>1
    <2> HIDE DEF N
    <2> QED
      BY <1>2, <1>3, <2>1
  <1>6. PICK ret : Accumulated(q, ret) /\ AccumulateTransforms(q) = ret[N + 1]
    <2>1. Len(q) \in Nat /\ \A i \in 1 .. Len(q) : q[i].parent_tform_child \in SE3Pose
      BY <1>1, <1>5
    <2> QED
      BY <1>1, <2>1, AccumulateMeaning
  <1>7. /\ below \in [0 .. N -> SE3Pose] /\ below[0] = Identity
        /\ \A i \in 1 .. N : below[i] = Product(p[i].parent_tform_child, below[i - 1])
    BY <1>4 DEF Accumulated
  <1>8. /\ ret \in [0 .. N + 1 -> SE3Pose] /\ ret[0] = Identity
        /\ \A i \in 1 .. N + 1 : ret[i] = Product(q[i].parent_tform_child, ret[i - 1])
    BY <1>1, <1>6 DEF Accumulated
  <1> HIDE DEF N, e
  <1> DEFINE Bad == {i \in 0 .. N : ret[i + 1] # Product(below[i], e)}
  <1>9. SUFFICES Bad = {}
    <2>1. N \in 0 .. N
      BY <1>1
    <2>2. ret[N + 1] = Product(below[N], e)
      BY <1>9, <2>1
    <2> QED
      BY <1>4, <1>6, <2>2 DEF e
  <1>10. SUFFICES ASSUME Bad # {} PROVE FALSE
    OBVIOUS
  <1>11. PICK i \in Bad : \A k \in Bad : i <= k
    <2>1. Bad \subseteq Nat
      BY <1>1
    <2> HIDE DEF Bad
    <2> QED
      BY <1>10, <2>1, LeastNatural
  <1>12. i \in 0 .. N /\ i + 1 \in 1 .. N + 1 /\ i + 1 - 1 = i
    BY <1>1, <1>11
  <1>13. CASE i = 0
    <2>1. 1 \in 1 .. N + 1 /\ 1 - 1 = 0 /\ 0 + 1 = 1
      BY <1>1
    <2>2. ret[1] = Product(e, Identity)
      BY <1>8, <2>1 DEF e
    <2>3. ret[1] = Product(below[0], e)
      BY <1>3, <1>7, <2>2, PoseInverse
    <2> QED
      BY <1>11, <1>13, <2>1, <2>3
  <1>14. CASE i # 0
    <2>1. i \in 1 .. N /\ i - 1 \in 0 .. N /\ i - 1 + 1 = i /\ ~ (i <= i - 1)
      BY <1>1, <1>12, <1>14
    <2>2. PICK pose \in SE3Pose : pose = p[i].parent_tform_child
      BY <1>2, <2>1
    <2>3. ret[i] = Product(below[i - 1], e)
      <3>1. i - 1 \notin Bad
        BY <1>11, <2>1
      <3> QED
        BY <2>1, <3>1
    <2>4. ret[i + 1] = Product(pose, ret[i])
      BY <1>2, <1>8, <1>12, <2>1, <2>2
    <2>5. below[i] = Product(pose, below[i - 1]) /\ below[i - 1] \in SE3Pose
      BY <1>7, <2>1, <2>2
    <2>6. Product(Product(pose, below[i - 1]), e) = Product(pose, Product(below[i - 1], e))
      BY <1>3, <2>5, PoseAssociative
    <2> QED
      BY <1>11, <2>3, <2>4, <2>5, <2>6
  <1> QED
    BY <1>13, <1>14

-----------------------------------------------------------------------------
(* Poses of the frames of a snapshot *)

(* The pose of a frame in the root. *)
InRoot(snapshot, leaf) == AccumulateTransforms(WalkTreeToRoot(snapshot, leaf))

(* The path from a frame has one edge for each frame the walk visits but   *)
(* the last, in the order of the walk.                                     *)
LEMMA PathMeaning ==
  ASSUME NEW snapshot \in Snapshots, NEW leaf \in Inner(snapshot)
  PROVE  LET path == WalkTreeToRoot(snapshot, leaf)
             visited == Visited(snapshot, leaf)
         IN /\ visited \in Nat /\ visited >= 1
            /\ Len(path) = visited - 1
            /\ \A i \in 1 .. visited - 1 :
                 /\ path[i] = snapshot[Above(snapshot, leaf)[i - 1]]
                 /\ path[i].parent_tform_child \in SE3Pose
  <1> DEFINE N == Cardinality(Frames)
             up == Above(snapshot, leaf)
             visited == Visited(snapshot, leaf)
             path == WalkTreeToRoot(snapshot, leaf)
  <1>1. leaf \in Names
    BY SnapshotParts DEF Inner
  <1>2. N \in Nat /\ up[0] = leaf
    BY <1>1, AboveMeaning
  <1>3. /\ visited \in Nat /\ visited <= N + 1
        /\ \A n \in 0 .. N : up[n] \in Inner(snapshot) <=> n < visited
    BY <1>1, VisitedMeaning
  <1>4. path = [i \in 1 .. visited - 1 |-> snapshot[up[i - 1]]]
    BY DEF WalkTreeToRoot
  <1> HIDE DEF N, up, visited, path
  <1>5. visited >= 1
    <2>1. 0 \in 0 .. N
      BY <1>2
    <2> QED
      BY <1>2, <1>3, <2>1
  <1>6. Len(path) = visited - 1
    <2>1. visited - 1 \in Nat
      BY <1>3, <1>5
    <2> QED
      BY <1>4, <2>1
  <1>7. ASSUME NEW i \in 1 .. visited - 1
        PROVE  path[i] = snapshot[up[i - 1]] /\ path[i].parent_tform_child \in SE3Pose
    <2>1. i - 1 \in 0 .. N /\ i - 1 < visited
      BY <1>2, <1>3
    <2>2. up[i - 1] \in DOMAIN snapshot
      BY <1>3, <2>1 DEF Inner
    <2> QED
      BY <1>4, <2>2, SnapshotParts
  <1> QED
    BY <1>3, <1>5, <1>6, <1>7 DEF up, visited, path

(* The pose of a frame in the root is one. *)
LEMMA InRootIsPose ==
  ASSUME NEW snapshot \in Snapshots, NEW leaf \in Inner(snapshot)
  PROVE  InRoot(snapshot, leaf) \in SE3Pose
  <1> DEFINE path == WalkTreeToRoot(snapshot, leaf)
  <1>1. /\ Len(path) \in Nat
        /\ \A i \in 1 .. Len(path) : path[i].parent_tform_child \in SE3Pose
    BY PathMeaning
  <1>2. PICK ret : Accumulated(path, ret) /\ AccumulateTransforms(path) = ret[Len(path)]
    BY <1>1, AccumulateMeaning
  <1> HIDE DEF path
  <1>3. Len(path) \in 0 .. Len(path)
    BY <1>1
  <1> QED
    BY <1>2, <1>3 DEF Accumulated, InRoot, path

(* In a tree every walk leaves it. *)
LEMMA TreeWalks ==
  ASSUME NEW snapshot \in Snapshots, IsTree(snapshot), NEW leaf \in DOMAIN snapshot
  PROVE  leaf \in Inner(snapshot) /\ Visited(snapshot, leaf) <= Cardinality(Frames)
  <1>1. leaf \in Inner(snapshot) /\ leaf \in Names
    BY SnapshotParts DEF IsTree, Inner
  <1>2. Visited(snapshot, leaf) \in Nat /\ Cardinality(Frames) \in Nat
    BY <1>1, VisitedMeaning, AboveMeaning
  <1>3. ~ (Visited(snapshot, leaf) > Cardinality(Frames))
    <2> SUFFICES ASSUME Visited(snapshot, leaf) > Cardinality(Frames) PROVE FALSE
      OBVIOUS
    <2>1. \E fs \in SUBSET Inner(snapshot) : Cyclic(snapshot, fs)
      BY <1>1, EndlessWalk
    <2> QED
      BY <2>1 DEF IsTree, Inner
  <1> QED
    BY <1>1, <1>2, <1>3

(* The root is where it is. *)
LEMMA RootInRoot ==
  ASSUME NEW snapshot \in Snapshots, IsTree(snapshot), NEW root \in Roots(snapshot)
  PROVE  InRoot(snapshot, root) = Identity
  <1> DEFINE N == Cardinality(Frames)
             up == Above(snapshot, root)
             visited == Visited(snapshot, root)
             path == WalkTreeToRoot(snapshot, root)
  <1>1. root \in Inner(snapshot) /\ visited <= N /\ root \in Names
    BY TreeWalks, SnapshotParts DEF Roots
  <1>2. /\ N \in Nat /\ up[0] = root
        /\ \A n \in 1 .. N : up[n] = IF up[n - 1] \in Inner(snapshot)
                                     THEN snapshot[up[n - 1]].parent ELSE NoName
    BY <1>1, AboveMeaning
  <1>3. \A n \in 0 .. N : up[n] \in Inner(snapshot) <=> n < visited
    BY <1>1, VisitedMeaning
  <1>4. visited \in Nat /\ visited >= 1 /\ Len(path) = visited - 1
    BY <1>1, PathMeaning
  <1> HIDE DEF N, up, visited, path
  <1>5. up[1] = NoName /\ NoName \notin Inner(snapshot)
    <2>1. 1 \in 1 .. N /\ 1 - 1 = 0
      BY <1>1, <1>2, <1>4
    <2> QED
      BY <1>1, <1>2, <2>1 DEF Roots, Inner
  <1>6. Len(path) = 0
    <2>1. 1 \in 0 .. N
      BY <1>1, <1>2, <1>4
    <2> QED
      BY <1>3, <1>4, <1>5, <2>1
  <1>7. PICK ret : Accumulated(path, ret) /\ AccumulateTransforms(path) = ret[Len(path)]
    <2>1. Len(path) \in Nat /\ \A i \in 1 .. Len(path) : path[i].parent_tform_child \in SE3Pose
      BY <1>6
    <2> QED
      BY <2>1, AccumulateMeaning
  <1> QED
    BY <1>6, <1>7 DEF Accumulated, InRoot, path

(* The pose of a frame is that of its parent, and from there its own. *)
LEMMA InRootStep ==
  ASSUME NEW snapshot \in Snapshots, IsTree(snapshot), NEW b \in DOMAIN snapshot,
         snapshot[b].parent \in DOMAIN snapshot
  PROVE  LET a == snapshot[b].parent IN
         /\ Visited(snapshot, a) \in Nat
         /\ Visited(snapshot, b) = Visited(snapshot, a) + 1
         /\ InRoot(snapshot, b) = Product(InRoot(snapshot, a), snapshot[b].parent_tform_child)
  <1> DEFINE N == Cardinality(Frames)
             a == snapshot[b].parent
             upA == Above(snapshot, a)
             upB == Above(snapshot, b)
             visitedA == Visited(snapshot, a)
             visitedB == Visited(snapshot, b)
             pathA == WalkTreeToRoot(snapshot, a)
             pathB == WalkTreeToRoot(snapshot, b)
  <1>1. /\ a \in Inner(snapshot) /\ a \in Names /\ visitedA <= N
        /\ b \in Inner(snapshot) /\ b \in Names /\ visitedB <= N
    BY TreeWalks, SnapshotParts
  <1>2. /\ N \in Nat /\ upA[0] = a
        /\ \A n \in 1 .. N : upA[n] = IF upA[n - 1] \in Inner(snapshot)
                                      THEN snapshot[upA[n - 1]].parent ELSE NoName
    BY <1>1, AboveMeaning
  <1>3. /\ upB[0] = b
        /\ \A n \in 1 .. N : upB[n] = IF upB[n - 1] \in Inner(snapshot)
                                      THEN snapshot[upB[n - 1]].parent ELSE NoName
    BY <1>1, AboveMeaning
  <1>4. \A n \in 0 .. N : upA[n] \in Inner(snapshot) <=> n < visitedA
    BY <1>1, VisitedMeaning
  <1>5. \A n \in 0 .. N : upB[n] \in Inner(snapshot) <=> n < visitedB
    BY <1>1, VisitedMeaning
  <1>6. /\ visitedA \in Nat /\ visitedA >= 1 /\ Len(pathA) = visitedA - 1
        /\ \A i \in 1 .. visitedA - 1 : /\ pathA[i] = snapshot[upA[i - 1]]
                                        /\ pathA[i].parent_tform_child \in SE3Pose
    BY <1>1, PathMeaning
  <1>7. /\ visitedB \in Nat /\ visitedB >= 1 /\ Len(pathB) = visitedB - 1
        /\ \A i \in 1 .. visitedB - 1 : /\ pathB[i] = snapshot[upB[i - 1]]
                                        /\ pathB[i].parent_tform_child \in SE3Pose
    BY <1>1, PathMeaning
  <1>8. a = snapshot[b].parent
    OBVIOUS
  <1> HIDE DEF N, a, upA, upB, visitedA, visitedB, pathA, pathB
  <1>9. \A n \in 0 .. N - 1 : upB[n + 1] = upA[n]
    <2> DEFINE Bad == {n \in 0 .. N - 1 : upB[n + 1] # upA[n]}
    <2> SUFFICES ASSUME Bad # {} PROVE FALSE
      OBVIOUS
    <2>1. PICK n \in Bad : \A k \in Bad : n <= k
      <3>1. Bad \subseteq Nat
        BY <1>2
      <3> HIDE DEF Bad
      <3> QED
        BY <3>1, LeastNatural
    <2>2. n \in 0 .. N - 1 /\ n + 1 \in 1 .. N /\ n + 1 - 1 = n
      BY <1>2, <2>1
    <2>3. n # 0
      <3>1. 1 \in 1 .. N /\ 1 - 1 = 0 /\ 0 + 1 = 1
        BY <1>1, <1>2, <1>7
      <3>2. upB[1] = upA[0]
        BY <1>1, <1>2, <1>3, <1>8, <3>1
      <3> QED
        BY <2>1, <3>1, <3>2
    <2>4. n \in 1 .. N /\ n - 1 \in 0 .. N - 1 /\ n - 1 + 1 = n /\ ~ (n <= n - 1)
      BY <1>2, <2>2, <2>3
    <2>5. upB[n] = upA[n - 1]
      <3>1. n - 1 \notin Bad
        BY <2>1, <2>4
      <3> QED
        BY <2>4, <3>1
    <2>6. upB[n + 1] = upA[n]
      BY <1>2, <1>3, <2>2, <2>4, <2>5
    <2> QED
      BY <2>1, <2>6
  <1>10. visitedB = visitedA + 1
    <2>1. ASSUME visitedB > visitedA + 1 PROVE FALSE
      <3>1. visitedA \in 0 .. N - 1 /\ visitedA + 1 \in 0 .. N /\ visitedA \in 0 .. N
        BY <1>1, <1>2, <1>6, <1>7, <2>1
      <3>2. upB[visitedA + 1] \in Inner(snapshot)
        BY <1>5, <2>1, <3>1
      <3>3. visitedA < visitedA
        BY <1>4, <1>9, <3>1, <3>2
      <3> QED
        BY <1>6, <3>3
    <2>2. ASSUME visitedB < visitedA + 1 PROVE FALSE
      <3>1. /\ visitedB - 1 \in 0 .. N - 1 /\ visitedB - 1 + 1 = visitedB
            /\ visitedB \in 0 .. N /\ visitedB - 1 \in 0 .. N /\ visitedB - 1 < visitedA
        BY <1>1, <1>2, <1>6, <1>7, <2>2
      <3>2. upB[visitedB] = upA[visitedB - 1]
        BY <1>9, <3>1
      <3>3. upA[visitedB - 1] \in Inner(snapshot)
        BY <1>4, <3>1
      <3>4. visitedB < visitedB
        BY <1>5, <3>1, <3>2, <3>3
      <3> QED
        BY <1>7, <3>4
    <2> QED
      BY <1>6, <1>7, <2>1, <2>2
  <1>11. ASSUME NEW i \in 1 .. Len(pathA)
         PROVE  pathB[i + 1] = pathA[i]
    <2>1. /\ i \in 1 .. visitedA - 1 /\ i + 1 \in 1 .. visitedB - 1
          /\ i + 1 - 1 = i /\ i - 1 \in 0 .. N - 1 /\ i - 1 + 1 = i
      BY <1>1, <1>2, <1>6, <1>7, <1>10
    <2>2. pathA[i] = snapshot[upA[i - 1]]
      BY <1>6, <2>1
    <2>3. pathB[i + 1] = snapshot[upB[i]]
      BY <1>7, <2>1
    <2>4. upB[i] = upA[i - 1]
      BY <1>9, <2>1
    <2> QED
      BY <2>2, <2>3, <2>4
  <1>12. pathB[1] = snapshot[b]
    <2>1. 1 \in 1 .. visitedB - 1 /\ 1 - 1 = 0
      BY <1>6, <1>7, <1>10
    <2> QED
      BY <1>3, <1>7, <2>1
  <1>13. AccumulateTransforms(pathB)
           = Product(AccumulateTransforms(pathA), snapshot[b].parent_tform_child)
    <2>1. Len(pathA) \in Nat /\ Len(pathB) = Len(pathA) + 1
      BY <1>6, <1>7, <1>10
    <2>2. \A i \in 1 .. Len(pathA) : pathA[i].parent_tform_child \in SE3Pose
      BY <1>6
    <2>3. pathB[1].parent_tform_child \in SE3Pose
      BY <1>12, SnapshotParts
    <2> QED
      BY <1>11, <1>12, <2>1, <2>2, <2>3, OneMoreEdge
  <1> QED
    BY <1>6, <1>10, <1>13 DEF InRoot, a, visitedA, visitedB, pathA, pathB

(* What is valid to the code is a tree. *)
LEMMA HasTransformMeaning ==
  ASSUME tree \in Snapshots, NEW a, NEW b, HasTransform(tree, a, b)
  PROVE  IsTree(tree) /\ a \in DOMAIN tree /\ b \in DOMAIN tree
  BY ValidationMeaning DEF HasTransform, ValidationIsExact

(* From a to b is up from a and down to b; from one to another, and on. *)
LEMMA ThereAndOn ==
  ASSUME NEW a \in SE3Pose, NEW b \in SE3Pose, NEW c \in SE3Pose
  PROVE  Product(Product(Inverted(a), b), Product(Inverted(b), c)) = Product(Inverted(a), c)
  <1>1. PICK i, k \in SE3Pose : i = Inverted(a) /\ k = Product(Inverted(b), c)
    BY InvertedIsPose, ProductIsPose
  <1>2. Product(b, k) = c
    BY <1>1, CancelLeft
  <1>3. Product(Product(i, b), k) = Product(i, Product(b, k))
    BY <1>1, PoseAssociative
  <1> QED
    BY <1>1, <1>2, <1>3

(* In a valid tree transforms along different ways agree. *)
LEMMA ComposeMeaning ==
  ASSUME tree \in Snapshots
  PROVE  TransformsCompose
  <1>1. SUFFICES ASSUME NEW a \in DOMAIN tree, NEW b \in DOMAIN tree, HasTransform(tree, a, b)
        PROVE  /\ tree[b].parent = a => Equals(ATformB(tree, a, b), tree[b].parent_tform_child)
               /\ \A c \in DOMAIN tree :
                    /\ Equals(Product(ATformB(tree, a, b), ATformB(tree, b, c)),
                              ATformB(tree, a, c))
                    /\ \A velocity \in Velocities :
                         ExpressVelocityInNewFrame(tree, b, c,
                             ExpressVelocityInNewFrame(tree, a, b, velocity))
                           = ExpressVelocityInNewFrame(tree, a, c, velocity)
    BY DEF TransformsCompose
  <1>2. IsTree(tree)
    BY <1>1, HasTransformMeaning
  <1>3. \A f \in DOMAIN tree : InRoot(tree, f) \in SE3Pose
    BY <1>2, TreeWalks, InRootIsPose
  <1>4. \A f, g \in DOMAIN tree :
          ATformB(tree, f, g) = Product(Inverted(InRoot(tree, f)), InRoot(tree, g))
    BY DEF ATformB, InRoot
  <1>5. ASSUME tree[b].parent = a
        PROVE  Equals(ATformB(tree, a, b), tree[b].parent_tform_child)
    <2>1. PICK pose \in SE3Pose : pose = tree[b].parent_tform_child
      BY SnapshotParts
    <2>2. InRoot(tree, b) = Product(InRoot(tree, a), pose)
      BY <1>2, <1>5, <2>1, InRootStep
    <2>3. ATformB(tree, a, b) = pose
      BY <1>3, <1>4, <2>2, CancelLeft
    <2> QED
      BY <2>1, <2>3 DEF Equals
  <1>6. ASSUME NEW c \in DOMAIN tree
        PROVE  Equals(Product(ATformB(tree, a, b), ATformB(tree, b, c)), ATformB(tree, a, c))
    <2>1. Product(ATformB(tree, a, b), ATformB(tree, b, c)) = ATformB(tree, a, c)
      BY <1>3, <1>4, ThereAndOn
    <2> QED
      BY <2>1 DEF Equals
  <1>7. ASSUME NEW c \in DOMAIN tree, NEW velocity \in Velocities
        PROVE  ExpressVelocityInNewFrame(tree, b, c,
                   ExpressVelocityInNewFrame(tree, a, b, velocity))
                 = ExpressVelocityInNewFrame(tree, a, c, velocity)
    <2>1. PICK ba, cb \in SE3Pose : ba = ATformB(tree, b, a) /\ cb = ATformB(tree, c, b)
      BY <1>3, <1>4, InvertedIsPose, ProductIsPose
    <2>2. Product(cb, ba) = ATformB(tree, c, a)
      BY <1>3, <1>4, <2>1, ThereAndOn
    <2>3. velocity \in [linear : Vec3, angular : Vec3]
      BY VelocitiesAssumption
    <2>4. TransformVelocity(Product(cb, ba), velocity)
            = TransformVelocity(cb, TransformVelocity(ba, velocity))
      BY <2>3, VelocityTwice
    <2> QED
      BY <2>1, <2>2, <2>4 DEF ExpressVelocityInNewFrame
  <1> QED
    BY <1>5, <1>6, <1>7

(* In every tree a program can build of frames and poses the transform     *)
(* along an edge is the edge's pose, to go on from b to c is to go to c,   *)
(* and a velocity expressed in one frame after another is expressed in the *)
(* last (frame_helpers.cpp:164, get_a_tform_b).                            *)
THEOREM FramesTransformsCompose == TreeSpec => []TransformsCompose
  <1>1. IsSnapshot => TransformsCompose
    BY ComposeMeaning DEF IsSnapshot
  <1> QED
    BY <1>1, FrameTypes, PTL

-----------------------------------------------------------------------------
(* A new root *)

(* A tree with one more frame, of which the old root is the child. *)
Rerooted(snapshot, parent, child, pose) ==
  [f \in DOMAIN snapshot \union {parent} |->
     IF f = child THEN Edge(parent, pose)
     ELSE IF f = parent THEN Edge(NoName, Identity) ELSE snapshot[f]]

(* It is a tree, of which the new frame is the root. *)
LEMMA RerootedIsTree ==
  ASSUME NEW snapshot \in Snapshots, IsTree(snapshot),
         NEW parent \in Frames, parent \notin DOMAIN snapshot,
         NEW child \in Roots(snapshot), NEW pose \in SE3Pose
  PROVE  LET new == Rerooted(snapshot, parent, child, pose) IN
         /\ new \in Snapshots
         /\ Roots(new) = {parent}
         /\ IsTree(new)
  <1> DEFINE new == Rerooted(snapshot, parent, child, pose)
  <1>1. Roots(snapshot) = {child} /\ child \in DOMAIN snapshot
    BY RootsFinite, OneOrMore DEF IsTree, Roots
  <1>2. NoName \notin DOMAIN snapshot /\ parent # NoName
    BY NamesAssumption DEF IsTree
  <1>3. /\ DOMAIN new = DOMAIN snapshot \union {parent}
        /\ new[child] = Edge(parent, pose)
        /\ new[parent] = Edge(NoName, Identity)
        /\ \A f \in DOMAIN snapshot \ {child} : new[f] = snapshot[f]
    BY <1>1 DEF Rerooted
  <1>4. \A f \in DOMAIN new :
          new[f] \in [parent : Names, parent_tform_child : SE3Pose]
    <2>1. /\ Edge(parent, pose) \in [parent : Names, parent_tform_child : SE3Pose]
          /\ Edge(NoName, Identity) \in [parent : Names, parent_tform_child : SE3Pose]
      BY IdentityIsPose DEF Edge, Names
    <2>2. \A f \in DOMAIN snapshot :
            snapshot[f] \in [parent : Names, parent_tform_child : SE3Pose]
      BY DEF Snapshots
    <2> HIDE DEF new
    <2> QED
      BY <1>3, <2>1, <2>2
  <1>5. new \in Snapshots
    <2>1. DOMAIN new \in SUBSET Names
      BY <1>3, SnapshotParts DEF Names
    <2>2. new = [f \in DOMAIN new |-> new[f]]
      BY DEF Rerooted
    <2> HIDE DEF new
    <2>3. new \in [DOMAIN new -> [parent : Names, parent_tform_child : SE3Pose]]
      BY <1>4, <2>2
    <2> QED
      BY <2>1, <2>3 DEF Snapshots
  <1> HIDE DEF new
  <1>6. Roots(new) = {parent}
    <2>1. new[child].parent # NoName /\ new[parent].parent = NoName
      BY <1>2, <1>3 DEF Edge
    <2>2. \A f \in DOMAIN snapshot \ {child} : new[f].parent # NoName
      BY <1>1, <1>3 DEF Roots
    <2> QED
      BY <1>3, <2>1, <2>2 DEF Roots
  <1>7. Cardinality(Roots(new)) = 1
    BY <1>5, <1>6, RootsFinite, OneOrMore
  <1>8. Parents(new) \subseteq DOMAIN new
    <2> SUFFICES ASSUME NEW f \in DOMAIN new, new[f].parent # NoName
                 PROVE  new[f].parent \in DOMAIN new
      BY DEF Parents
    <2>1. CASE f \in {child, parent}
      BY <1>3, <2>1 DEF Edge
    <2>2. CASE f \in DOMAIN snapshot \ {child}
      <3>1. snapshot[f].parent \in Parents(snapshot)
        BY <1>3, <2>2 DEF Parents
      <3> QED
        BY <1>3, <2>2, <3>1 DEF IsTree
    <2> QED
      BY <1>3, <2>1, <2>2
  <1>9. ASSUME NEW fs \in SUBSET DOMAIN new, Cyclic(new, fs)
        PROVE  FALSE
    <2>1. parent \notin fs
      BY <1>2, <1>3, <1>9 DEF Cyclic, Edge
    <2>2. child \notin fs
      BY <1>3, <1>9, <2>1 DEF Cyclic, Edge
    <2>3. fs \in SUBSET DOMAIN snapshot /\ \A f \in fs : new[f] = snapshot[f]
      BY <1>3, <2>1, <2>2
    <2>4. Cyclic(snapshot, fs)
      BY <1>9, <2>3 DEF Cyclic
    <2> QED
      BY <2>3, <2>4 DEF IsTree
  <1>10. NoName \notin DOMAIN new
    BY <1>2, <1>3
  <1> QED
    BY <1>5, <1>6, <1>7, <1>8, <1>9, <1>10 DEF IsTree, new

(* Under a new root every frame of the tree is where the old one puts it. *)
LEMMA RerootedInRoot ==
  ASSUME NEW snapshot \in Snapshots, IsTree(snapshot),
         NEW parent \in Frames, parent \notin DOMAIN snapshot,
         NEW child \in Roots(snapshot), NEW pose \in SE3Pose
  PROVE  LET new == Rerooted(snapshot, parent, child, pose) IN
         /\ InRoot(new, parent) = Identity
         /\ \A f \in DOMAIN snapshot : InRoot(new, f) = Product(pose, InRoot(snapshot, f))
  <1> DEFINE new == Rerooted(snapshot, parent, child, pose)
  <1>1. new \in Snapshots /\ Roots(new) = {parent} /\ IsTree(new)
    BY RerootedIsTree
  <1>2. Roots(snapshot) = {child} /\ child \in DOMAIN snapshot
    BY RootsFinite, OneOrMore DEF IsTree, Roots
  <1>3. /\ DOMAIN new = DOMAIN snapshot \union {parent}
        /\ new[child] = Edge(parent, pose)
        /\ \A f \in DOMAIN snapshot \ {child} : new[f] = snapshot[f]
    BY <1>2 DEF Rerooted
  <1> HIDE DEF new
  <1>4. InRoot(new, parent) = Identity
    BY <1>1, RootInRoot
  <1>5. InRoot(new, child) = Product(pose, InRoot(snapshot, child))
    <2>1. InRoot(new, child) = Product(InRoot(new, parent), pose)
      <3>1. new[child].parent = parent /\ new[child].parent_tform_child = pose
        BY <1>3 DEF Edge
      <3> QED
        BY <1>1, <1>2, <1>3, <3>1, InRootStep
    <2>2. InRoot(snapshot, child) = Identity
      BY RootInRoot
    <2> QED
      BY <1>4, <2>1, <2>2, PoseInverse
  <1> DEFINE Bad == {f \in DOMAIN snapshot :
                       InRoot(new, f) # Product(pose, InRoot(snapshot, f))}
             Walks == {Visited(snapshot, f) : f \in Bad}
  <1>6. \A f \in DOMAIN snapshot :
          f \in Inner(snapshot) /\ f \in Names /\ Visited(snapshot, f) \in Nat
    BY SnapshotParts, TreeWalks, VisitedMeaning
  <1>7. Bad = {}
    <2> SUFFICES ASSUME Bad # {} PROVE FALSE
      OBVIOUS
    <2>1. PICK v \in Walks : \A k \in Walks : v <= k
      <3>1. Walks \subseteq Nat /\ Walks # {}
        BY <1>6
      <3> HIDE DEF Walks
      <3> QED
        BY <3>1, LeastNatural
    <2>2. PICK f \in Bad : v = Visited(snapshot, f)
      BY <2>1
    <2>3. f \in DOMAIN snapshot /\ f # child
      BY <1>5, <2>2
    <2>4. snapshot[f].parent \in DOMAIN snapshot
      BY <1>2, <2>3 DEF IsTree, Roots, Parents
    <2>5. PICK p \in DOMAIN snapshot, e \in SE3Pose :
            p = snapshot[f].parent /\ e = snapshot[f].parent_tform_child
      BY <2>3, <2>4, SnapshotParts
    <2>6. /\ Visited(snapshot, p) \in Nat
          /\ Visited(snapshot, f) = Visited(snapshot, p) + 1
          /\ InRoot(snapshot, f) = Product(InRoot(snapshot, p), e)
      BY <2>3, <2>5, InRootStep
    <2>7. InRoot(new, p) = Product(pose, InRoot(snapshot, p))
      <3>1. ASSUME p \in Bad PROVE FALSE
        <4>1. v <= Visited(snapshot, p)
          BY <2>1, <3>1
        <4> QED
          BY <2>2, <2>6, <4>1
      <3> QED
        BY <3>1
    <2>8. InRoot(new, f) = Product(InRoot(new, p), e)
      <3>1. /\ new[f].parent = p /\ new[f].parent_tform_child = e
            /\ f \in DOMAIN new /\ p \in DOMAIN new
        BY <1>3, <2>3, <2>5
      <3> QED
        BY <1>1, <3>1, InRootStep
    <2>9. InRoot(snapshot, p) \in SE3Pose
      BY <1>6, InRootIsPose
    <2>10. InRoot(new, f) = Product(pose, InRoot(snapshot, f))
      BY <2>6, <2>7, <2>8, <2>9, PoseAssociative
    <2> QED
      BY <2>2, <2>10
  <1> QED
    BY <1>4, <1>7 DEF new

(* What is put above both poses drops out between them. *)
LEMMA DropsOut ==
  ASSUME NEW pose \in SE3Pose, NEW a \in SE3Pose, NEW b \in SE3Pose
  PROVE  Product(Inverted(Product(pose, a)), Product(pose, b)) = Product(Inverted(a), b)
  <1>1. PICK i, j \in SE3Pose : i = Inverted(a) /\ j = Inverted(pose)
    BY InvertedIsPose
  <1>2. PICK pb \in SE3Pose : pb = Product(pose, b)
    BY ProductIsPose
  <1>3. Inverted(Product(pose, a)) = Product(i, j)
    BY <1>1, InvertedProduct
  <1>4. Product(Product(i, j), pb) = Product(i, Product(j, pb))
    BY <1>1, <1>2, PoseAssociative
  <1>5. Product(j, pb) = b
    BY <1>1, <1>2, CancelLeft
  <1> QED
    BY <1>1, <1>2, <1>3, <1>4, <1>5

(* What ReparentFrame does of the root keeps every transform. *)
LEMMA RerootMeaning ==
  ASSUME tree \in Snapshots, NEW parent \in Frames, NEW child \in Frames,
         NEW pose \in EdgePoses,
         IsTree(tree), child \in Roots(tree), parent \notin DOMAIN tree,
         ReparentRoot(parent, child, pose)
  PROVE  /\ IsTree(tree') /\ Roots(tree') = {parent}
         /\ Equals(ATformB(tree', parent, child), pose)
         /\ \A a, b \in DOMAIN tree : Equals(ATformB(tree', a, b), ATformB(tree, a, b))
  <1>1. pose \in SE3Pose
    BY PosesAssumption
  <1>2. child \in DOMAIN tree
    BY DEF Roots
  <1>3. PICK new : new = Rerooted(tree, parent, child, pose)
    OBVIOUS
  <1>4. tree' = new
    BY <1>2, <1>3 DEF ReparentRoot, Rerooted
  <1>5. new \in Snapshots /\ IsTree(new) /\ Roots(new) = {parent}
    BY <1>1, <1>3, RerootedIsTree
  <1>6. /\ InRoot(new, parent) = Identity
        /\ \A f \in DOMAIN tree : InRoot(new, f) = Product(pose, InRoot(tree, f))
    BY <1>1, <1>3, RerootedInRoot
  <1>7. \A f \in DOMAIN tree : InRoot(tree, f) \in SE3Pose
    BY TreeWalks, InRootIsPose
  <1>8. \A snapshot, f, g :
          ATformB(snapshot, f, g) = Product(Inverted(InRoot(snapshot, f)), InRoot(snapshot, g))
    BY DEF ATformB, InRoot
  <1>9. ATformB(new, parent, child) = pose
    <2>1. InRoot(tree, child) = Identity
      BY RootInRoot
    <2>2. InRoot(new, child) = pose
      BY <1>1, <1>2, <1>6, <2>1, PoseInverse
    <2>3. Product(Inverted(Identity), Product(Identity, pose)) = pose
          /\ Product(Identity, pose) = pose
      BY <1>1, IdentityIsPose, CancelLeft, PoseInverse
    <2> QED
      BY <1>6, <1>8, <2>2, <2>3
  <1>10. ASSUME NEW a \in DOMAIN tree, NEW b \in DOMAIN tree
         PROVE  ATformB(new, a, b) = ATformB(tree, a, b)
    BY <1>1, <1>6, <1>7, <1>8, DropsOut
  <1> QED
    BY <1>4, <1>5, <1>9, <1>10 DEF Equals

(* To put a new frame above the root makes it the root, with the pose that *)
(* was given, and no other transform of the tree changes                   *)
(* (frame_helpers.cpp:292).                                                *)
THEOREM FramesRerootKeepsTransforms == TreeSpec => RerootKeepsTransforms
  <1>1. ASSUME IsSnapshot, [TreeNext]_treeVars
        PROVE  [\A parent \in Frames, child \in Frames, pose \in EdgePoses :
                  /\ IsTree(tree) /\ child \in Roots(tree) /\ parent \notin DOMAIN tree
                  /\ ReparentRoot(parent, child, pose)
                  => /\ IsTree(tree') /\ Roots(tree') = {parent}
                     /\ Equals(ATformB(tree', parent, child), pose)
                     /\ \A a, b \in DOMAIN tree :
                          Equals(ATformB(tree', a, b), ATformB(tree, a, b))]_tree
    BY <1>1, RerootMeaning DEF IsSnapshot
  <1> QED
    BY <1>1, FrameTypes, PTL DEF TreeSpec, RerootKeepsTransforms
==============================================================================
