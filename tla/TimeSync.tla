------------------------------ MODULE TimeSync ------------------------------
(***************************************************************************)
(* The estimate of the robot's clock: TimeSyncEndpoint, TimeSyncThread and *)
(* RobotTimeConverter (src/cpp/bosdyn/client/time_sync/time_sync_helpers,  *)
(* common/robot_time_converter).  A request names the clock that the robot *)
(* assigned to the client and carries the times of the last exchange; from *)
(* these the robot estimates the skew between the clocks, which its        *)
(* responses report once there are enough of them.                         *)
(*                                                                         *)
(* Times are left out: of an exchange matters whether there was one, of an *)
(* estimate whether it is one.  Waits may end at any moment.               *)
(***************************************************************************)
EXTENDS Naturals

CONSTANTS Controllers, \* threads that start and stop the time sync thread
          Establishers, \* threads that call EstablishTimeSync
          SyncThread,  \* the time sync thread
          Waiters,     \* threads that ask for a converter
          Clocks,      \* the clock identifiers that the robot assigns
          NoClock,     \* the empty clock identifier
          Needed,      \* external: samples that make an estimate
          MaxSamples   \* EstablishTimeSync: max_samples

VARIABLES endpoint,  \* status, clock and round trip, all under m_mutex
          call,      \* the update that each thread has under way
          request,   \* its request
          response,  \* its response
          late,      \* history: updates older than what the endpoint holds
          thread,    \* where the thread is
          shouldExit, \* m_locked_should_exit
          stopped,   \* m_locked_thread_stopped
          joinable,  \* m_thread holds a thread that nobody has joined
          control,   \* where each controller is
          establishing, \* the establishers that are at it
          samples,   \* what is left of the samples of each
          crossed,   \* history: Start or Stop began while another Stop ran
          waiter,    \* where each waiter is
          overtaken, \* history: waiters that a late answer came between
          ready,     \* robot: its time sync service has started
          known      \* robot: samples per clock it has assigned

calls    == <<call, request, response>>
updating == <<endpoint, call, request, response, late, overtaken>>
controls == <<shouldExit, stopped, joinable, control, crossed>>
establish == <<establishing, samples>>
service  == <<ready, known>>
syncVars == <<updating, thread, controls, establish, waiter, service>>

Updaters == Establishers \cup {SyncThread}

SyncStatus == {"UNSET", "NOT_READY", "MORE_SAMPLES_NEEDED", "OK"}

ASSUME TimeSyncAssumption ==
  /\ SyncThread \notin Establishers
  /\ NoClock \notin Clocks
  /\ Needed \in Nat \ {0} /\ MaxSamples \in Nat \ {0}

HasEstablishedTimeSync == endpoint.status = "OK"

NoRequest  == [clock |-> NoClock, timed |-> FALSE]
NoResponse == [status |-> "UNSET", clock |-> NoClock]
NoEstimate == [status |-> "UNSET", clock |-> NoClock, timed |-> FALSE]

-----------------------------------------------------------------------------
(* Update and GetNewEstimate.  The mutex is held to read the clock and to  *)
(* store the answer, not in between: the thread and any number of calls of *)
(* EstablishTimeSync have updates under way at once.  That line 146 reads  *)
(* the round trip without the mutex concerns only the times in it.         *)

Ask(u, timed) ==
  /\ call[u] = "none"
  /\ call' = [call EXCEPT ![u] = "asked"]
  /\ request' = [request EXCEPT ![u] = [clock |-> endpoint.clock, timed |-> timed]]
  /\ UNCHANGED <<endpoint, response, late, overtaken>>

(* Mutant: the round trip is sent whether there is a clock or not. *)
UpdateAlwaysTimed(u) == Ask(u, endpoint.timed)

(* A round trip is sent only with a clock identifier. *)
Update(u) == Ask(u, endpoint.clock # NoClock /\ endpoint.timed)

Underway(u) == call[u] # "none"

Finish(u) ==
  /\ call' = [call EXCEPT ![u] = "none"]
  /\ request' = [request EXCEPT ![u] = NoRequest]
  /\ response' = [response EXCEPT ![u] = NoResponse]

(* From now on every other update under way is late. *)
Store(u) ==
  /\ endpoint' = [status |-> response[u].status, clock |-> response[u].clock, timed |-> TRUE]
  /\ late' = {v \in Updaters \ {u} : Underway(v)}
  /\ overtaken' = overtaken \cup {w \in Waiters : u \in late /\ waiter[w] = "synced"}

(* Mutant: what a failed call left in the response is stored. *)
StoreAnything(u) ==
  /\ call[u] \in {"answered", "failed"}
  /\ Store(u) /\ Finish(u)

(* Nothing changes when the call failed. *)
GetNewEstimate(u) ==
  /\ \/ call[u] = "answered" /\ Store(u)
     \/ call[u] = "failed" /\ late' = late \ {u} /\ UNCHANGED <<endpoint, overtaken>>
  /\ Finish(u)

-----------------------------------------------------------------------------
(* The robot, as the comments of Update and time_sync.proto have it *)

Respond(u, status, clock) ==
  /\ call[u] = "asked"
  /\ call' = [call EXCEPT ![u] = "served"]
  /\ response' = [response EXCEPT ![u] = [status |-> status, clock |-> clock]]
  /\ UNCHANGED request

(* A service that is not ready need not name a clock. *)
AnswersNotReady(u) ==
  /\ ~ready
  /\ \E clock \in {NoClock, request[u].clock} : Respond(u, "NOT_READY", clock)
  /\ UNCHANGED service

(* A client without a clock gets one that nobody has. *)
Taken(clock) ==
  \/ endpoint.clock = clock
  \/ \E u \in Updaters : request[u].clock = clock \/ response[u].clock = clock

AnswersNewcomer(u) ==
  /\ ready /\ request[u].clock = NoClock /\ ~request[u].timed
  /\ \E clock \in Clocks :
       /\ ~Taken(clock)
       /\ Respond(u, "MORE_SAMPLES_NEEDED", clock)
       /\ known' = [known EXCEPT ![clock] = 0]
  /\ UNCHANGED ready

Counted(u) == known[request[u].clock] + (IF request[u].timed THEN 1 ELSE 0)

AnswersKnown(u) ==
  /\ ready /\ request[u].clock # NoClock
  /\ Respond(u, IF Counted(u) >= Needed THEN "OK" ELSE "MORE_SAMPLES_NEEDED",
             request[u].clock)
  /\ known' = [known EXCEPT ![request[u].clock] =
                 IF Counted(u) < Needed THEN Counted(u) ELSE Needed]
  /\ UNCHANGED ready

RobotAnswers(u) == AnswersNotReady(u) \/ AnswersNewcomer(u) \/ AnswersKnown(u)

AnswerComes(u) ==
  /\ call[u] = "served"
  /\ call' = [call EXCEPT ![u] = "answered"]
  /\ UNCHANGED <<request, response, service>>

(* The call, or its header, has an error, or its answer is lost. *)
CallFails(u) ==
  /\ call[u] \in {"asked", "served"}
  /\ call' = [call EXCEPT ![u] = "failed"]
  /\ response' = [response EXCEPT ![u] = NoResponse]
  /\ UNCHANGED <<request, service>>

RobotGetsReady == ~ready /\ ready' = TRUE /\ UNCHANGED <<known, calls>>

-----------------------------------------------------------------------------
(* TimeSyncThreadMethod *)

(* The exit is noticed between updates, and in the slices of a sleep. *)
ThreadExits ==
  /\ thread \in {"top", "sleeping"} /\ shouldExit
  /\ thread' = "ended" /\ stopped' = TRUE
  /\ UNCHANGED <<updating, shouldExit>>

(* There is no delay while the robot asks for more samples. *)
Delayed == endpoint.status \in {"NOT_READY", "OK"}

ThreadSleeps ==
  /\ thread = "top" /\ ~shouldExit /\ Delayed
  /\ thread' = "sleeping"
  /\ UNCHANGED <<updating, shouldExit, stopped>>

ThreadAsks ==
  /\ \/ thread = "top" /\ ~shouldExit /\ ~Delayed
     \/ thread = "sleeping" /\ ~shouldExit
  /\ thread' = "updating"
  /\ Update(SyncThread)
  /\ UNCHANGED <<shouldExit, stopped>>

ThreadUpdates ==
  /\ thread = "updating"
  /\ GetNewEstimate(SyncThread)
  /\ thread' = "top"
  /\ UNCHANGED <<shouldExit, stopped>>

ThreadStep ==
  /\ ThreadExits \/ ThreadSleeps \/ ThreadAsks \/ ThreadUpdates
  /\ UNCHANGED <<joinable, control, crossed, establish, waiter, service>>

-----------------------------------------------------------------------------
(* Controllers *)

Enter(k, place) == control' = [control EXCEPT ![k] = place]

(* Another controller has told the thread to exit and not joined it yet. *)
Crossing == crossed' = (crossed \/ \E j \in Controllers : control[j] = "joining")

(* Start: assigning to a std::thread that is joinable ends the program. *)
Start(k) ==
  /\ control[k] = "idle" /\ stopped
  /\ shouldExit' = FALSE /\ stopped' = FALSE
  /\ thread' = "top" /\ joinable' = TRUE
  /\ IF joinable THEN Enter(k, "terminated") ELSE UNCHANGED control
  /\ Crossing
  /\ UNCHANGED <<updating>>

(* Mutant: the thread is told to exit and left to itself. *)
StopWithoutJoin(k) ==
  /\ control[k] = "idle" /\ ~stopped
  /\ shouldExit' = TRUE
  /\ Crossing
  /\ UNCHANGED <<updating, thread, stopped, joinable, control>>

Stop(k) ==
  /\ control[k] = "idle" /\ ~stopped
  /\ shouldExit' = TRUE
  /\ Enter(k, "joining")
  /\ Crossing
  /\ UNCHANGED <<updating, thread, stopped, joinable>>

(* join of a thread that has been joined ends the program, too. *)
JoinThread(k) ==
  /\ control[k] = "joining" /\ thread = "ended"
  /\ joinable' = FALSE
  /\ Enter(k, IF joinable THEN "idle" ELSE "terminated")
  /\ UNCHANGED <<updating, thread, shouldExit, stopped, crossed>>

(* Robot::StartTimeSync replaces the thread and with it the endpoint; a    *)
(* thread that runs is first stopped and joined, by the destructor of the  *)
(* old.  The program does so only when nobody uses the endpoint.           *)
StartTimeSync ==
  /\ stopped /\ ~joinable
  /\ establishing = {} /\ \A u \in Updaters : ~Underway(u)
  /\ \A j \in Controllers : control[j] = "idle"
  /\ \A w \in Waiters : waiter[w] = "idle"
  /\ endpoint' = NoEstimate
  /\ shouldExit' = FALSE /\ stopped' = FALSE
  /\ thread' = "top" /\ joinable' = TRUE
  /\ UNCHANGED <<call, request, response, late, overtaken, control, crossed>>

Control(k) == Start(k) \/ Stop(k) \/ JoinThread(k)

ControllerStep ==
  /\ StartTimeSync \/ \E k \in Controllers : Control(k)
  /\ UNCHANGED <<establish, waiter, service>>

-----------------------------------------------------------------------------
(* EstablishTimeSync, breaking on success, while the thread runs or not *)

Establish(e) ==
  /\ e \notin establishing
  /\ establishing' = establishing \cup {e}
  /\ samples' = [samples EXCEPT ![e] = MaxSamples]
  /\ UNCHANGED updating

EstablishAsks(e) ==
  /\ e \in establishing
  /\ samples[e] > 0 /\ ~HasEstablishedTimeSync
  /\ Update(e)
  /\ samples' = [samples EXCEPT ![e] = @ - 1]
  /\ UNCHANGED establishing

EstablishUpdates(e) ==
  /\ e \in establishing
  /\ GetNewEstimate(e)
  /\ UNCHANGED establish

EstablishReturns(e) ==
  /\ e \in establishing /\ ~Underway(e)
  /\ samples[e] = 0 \/ HasEstablishedTimeSync
  /\ establishing' = establishing \ {e}
  /\ samples' = [samples EXCEPT ![e] = 0]
  /\ UNCHANGED updating

EstablishGoes(e) == EstablishAsks(e) \/ EstablishUpdates(e) \/ EstablishReturns(e)

EstablishRest == UNCHANGED <<thread, controls, waiter, service>>

EstablishStep ==
  (\E e \in Establishers : Establish(e) \/ EstablishGoes(e)) /\ EstablishRest

-----------------------------------------------------------------------------
(* GetRobotTimeConverter, GetRobotClockSkew of the thread: WaitForSync, of *)
(* which the time-out may be zero, then another look at the result.        *)
Pass(w, place) == waiter' = [waiter EXCEPT ![w] = place]

Wait(w) ==
  /\ waiter[w] = "idle"
  /\ Pass(w, IF HasEstablishedTimeSync THEN "synced" ELSE "waiting")

WaitSucceeds(w) == waiter[w] = "waiting" /\ HasEstablishedTimeSync /\ Pass(w, "synced")

(* WaitForSync gives up by its time-out, or when the thread has stopped;   *)
(* then it does not look again.                                            *)
WaitFails(w) == waiter[w] = "waiting" /\ Pass(w, "idle")

TakeEstimate(w) ==
  /\ waiter[w] = "synced"
  /\ Pass(w, IF HasEstablishedTimeSync THEN "converting" ELSE "converting without skew")

Wondering(w) == Wait(w) \/ WaitSucceeds(w) \/ WaitFails(w) \/ TakeEstimate(w)

Convert(w) ==
  /\ waiter[w] \in {"converting", "converting without skew"}
  /\ Pass(w, "idle") /\ overtaken' = overtaken \ {w}

WaiterStep ==
  /\ \E w \in Waiters : (Wondering(w) /\ UNCHANGED overtaken) \/ Convert(w)
  /\ UNCHANGED <<endpoint, calls, late, thread, controls, establish, service>>

-----------------------------------------------------------------------------
RobotGoes(u) == RobotAnswers(u) \/ AnswerComes(u) \/ CallFails(u)

RobotRest == UNCHANGED <<endpoint, late, overtaken, thread, controls, establish, waiter>>

RobotStep == (RobotGetsReady \/ \E u \in Updaters : RobotGoes(u)) /\ RobotRest

(* std::terminate has ended the program. *)
Terminated == \E k \in Controllers : control[k] = "terminated"

SyncInit ==
  /\ endpoint = NoEstimate
  /\ call = [u \in Updaters |-> "none"]
  /\ request = [u \in Updaters |-> NoRequest]
  /\ response = [u \in Updaters |-> NoResponse]
  /\ late = {} /\ overtaken = {}
  /\ thread = "ended" /\ shouldExit = FALSE /\ stopped = TRUE /\ joinable = FALSE
  /\ control = [k \in Controllers |-> "idle"]
  /\ crossed = FALSE
  /\ establishing = {}
  /\ samples = [e \in Establishers |-> 0]
  /\ waiter = [w \in Waiters |-> "idle"]
  /\ ready = FALSE
  /\ known = [c \in Clocks |-> 0]

SyncNext ==
  \/ ~Terminated /\ (ThreadStep \/ ControllerStep \/ EstablishStep \/ WaiterStep)
  \/ RobotStep

SyncSpec == SyncInit /\ [][SyncNext]_syncVars

(* Threads go on, a call ends by its deadline, and the robot, whose service *)
(* starts one day, answers the thread again and again if it is asked again  *)
(* and again, and of the answers some get through.                          *)
FairSyncSpec ==
  /\ SyncSpec
  /\ WF_syncVars(ThreadStep /\ ~Terminated)
  /\ \A e \in Establishers : WF_syncVars(EstablishGoes(e) /\ EstablishRest /\ ~Terminated)
  /\ \A u \in Updaters : WF_syncVars(RobotGoes(u) /\ RobotRest)
  /\ WF_syncVars(RobotGetsReady /\ RobotRest)
  /\ SF_syncVars(RobotAnswers(SyncThread) /\ RobotRest)
  /\ SF_syncVars(AnswerComes(SyncThread) /\ RobotRest)

-----------------------------------------------------------------------------
(* The one way for Start and Stop, called by any threads at any time, to   *)
(* end the program -- a std::thread overwritten while it can be joined, or *)
(* joined twice -- is that one of them began while another thread was in   *)
(* Stop, between the unlock and the join (lines 156, 171).                 *)
TerminationNeedsCrossing == Terminated => crossed

(* Neither is it then, as is said of Start, "Start the thread if it is not *)
(* yet running" (time_sync_helpers.h:70).  The code does not do that.      *)
NeverTerminates == ~Terminated

(* Who waited for time sync converts with an estimate of the robot.  The   *)
(* one thing that can take it away between the wait and the second look at *)
(* the result is the answer to an update that was asked for before the     *)
(* result it replaces was stored; no call that fails or comes in turn does *)
(* (lines 105-108, 220, 226).                                              *)
ConversionNeedsLateAnswer ==
  \A w \in Waiters : waiter[w] = "converting without skew" => w \in overtaken

(* It does so always: "This object is thread-safe" (time_sync_helpers.h:27).*)
(* The code does not ensure it.                                            *)
ConvertsWithEstimate == \A w \in Waiters : waiter[w] # "converting without skew"

(* The thread establishes time sync, whatever was lost on the way: a clock *)
(* assigned or a sample counted by an answer that never came, a clock that *)
(* a late answer replaced, a service that was not ready (line 139).        *)
Establishes == thread # "ended" ~> (HasEstablishedTimeSync \/ shouldExit \/ Terminated)
=============================================================================
