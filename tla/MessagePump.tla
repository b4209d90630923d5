----------------------------- MODULE MessagePump -----------------------------
(***************************************************************************)
(* The message pump: threads of the program initiate calls, one thread     *)
(* takes their events from the gRPC completion queue and runs their        *)
(* callbacks, and any thread may shut the pump down                        *)
(* (src/cpp/bosdyn/client/service_client/message_pump.{h,cpp} and          *)
(* ServiceClient::InitiateAsyncCall in service_client.h).                  *)
(*                                                                         *)
(* A call object is created, handed to the tracker and started in three    *)
(* steps with no lock held from one to the next.  RequestShutdown takes    *)
(* m_shutdown_mutex to set the flag and the tracker's mutex to cancel;     *)
(* CompleteOne holds m_shutdown_mutex while it runs a callback.            *)
(***************************************************************************)
EXTENDS Naturals

CONSTANTS Calls,    \* the calls the program may make, one thread each
          NoCall,
          Events    \* completion-queue events call c raises: one if unary

ASSUME NoCallAssumption == NoCall \notin Calls
ASSUME EventsAssumption == Events \in [Calls -> Nat \ {0}]

VARIABLES thread,    \* how far the thread of each call has come
          status,    \* m_call_status of each call object
          future,    \* what the future of each call has become
          left,      \* events each call has still to raise
          tracked,   \* m_outstanding_calls: the call objects alive
          pending,   \* gRPC: calls with an operation under way
          queue,     \* gRPC: calls with an event in the completion queue
          closed,    \* gRPC: has the completion queue been shut down?
          pump,      \* the thread that runs CompleteOne, and its event
          stopper,   \* how far RequestShutdown has come
          toCancel,  \* the calls CancelAll has still to visit
          auto,      \* the auto-update thread, if the pump has one
          caught,    \* auxiliary: calls half initiated at the shutdown
          crash      \* what has terminated the program

callVars == <<thread, status, future, left>>
grpcVars == <<pending, queue, closed>>
stopVars == <<stopper, toCancel, auto, caught>>
vars == <<thread, status, future, left, tracked, pending, queue, closed,
          pump, stopper, toCancel, auto, caught, crash>>

Thread == {"idle", "created", "tracked", "issued", "refused"}
CallStatus == {"NotStarted", "Called", "Cancelled", "Completed"}
Future == {"none", "waiting", "refused", "answered", "cancelled", "broken"}
PumpAt == {"polling", "got", "inside", "removing", "stopped"}
Stopper == {"running", "requested", "cancelling", "closing", "joining", "stopped"}
AutoThread == {"none", "running", "joined"}
Crash == {"none", "precondition", "freed", "queue", "event"}

(* m_shutdown_requested; it is set in the step that leaves "running". *)
ShutdownRequested == stopper # "running"

(* CompleteOne holds m_shutdown_mutex while it handles an event. *)
ShutdownMutexFree == pump.at \notin {"inside", "removing"}

(* CancelAll holds the tracker's mutex until it has visited every call. *)
TrackerMutexFree == stopper # "cancelling"

PumpIs(at, c) == pump' = [at |-> at, call |-> c]

-----------------------------------------------------------------------------
(* The thread of call c: InitiateAsyncCall *)

(* Mutant: the flag is not looked at when a call is created. *)
CreateAnyway(c) ==
  /\ thread[c] = "idle"
  /\ thread' = [thread EXCEPT ![c] = "created"]
  /\ future' = [future EXCEPT ![c] = "waiting"]
  /\ UNCHANGED <<status, left, tracked, grpcVars, pump, stopVars, crash>>

CreateUnaryCall(c) ==
  /\ thread[c] = "idle"
  /\ IF ShutdownRequested
     THEN /\ thread' = [thread EXCEPT ![c] = "refused"]
          /\ future' = [future EXCEPT ![c] = "refused"]
     ELSE /\ thread' = [thread EXCEPT ![c] = "created"]
          /\ future' = [future EXCEPT ![c] = "waiting"]
  /\ UNCHANGED <<status, left, tracked, grpcVars, pump, stopVars, crash>>

(* A request processor fails, e.g. because the wallet has no lease. *)
ProcessorFails(c) ==
  /\ thread[c] = "created"
  /\ thread' = [thread EXCEPT ![c] = "refused"]
  /\ future' = [future EXCEPT ![c] = "refused"]
  /\ UNCHANGED <<status, left, tracked, grpcVars, pump, stopVars, crash>>

AddCall(c) ==
  /\ thread[c] = "created"
  /\ TrackerMutexFree
  /\ thread' = [thread EXCEPT ![c] = "tracked"]
  /\ tracked' = tracked \cup {c}
  /\ UNCHANGED <<status, future, left, grpcVars, pump, stopVars, crash>>

(* Start asserts that the call is not started, moves the promise into it   *)
(* and begins the first gRPC operation.  The three ways it can go wrong:   *)
(* the object is freed, it is cancelled, or gRPC, which admits no more     *)
(* operations on a queue that is shut down, aborts.                        *)
StartFault(c) ==
  CASE c \notin tracked -> "freed"
    [] c \in tracked /\ status[c] # "NotStarted" -> "precondition"
    [] c \in tracked /\ status[c] = "NotStarted" /\ closed -> "queue"
    [] OTHER -> "none"

Start(c) ==
  /\ thread[c] = "tracked"
  /\ crash' = StartFault(c)
  /\ IF crash' = "none"
     THEN /\ thread' = [thread EXCEPT ![c] = "issued"]
          /\ status' = [status EXCEPT ![c] = "Called"]
          /\ pending' = pending \cup {c}
     ELSE UNCHANGED <<thread, status, pending>>
  /\ UNCHANGED <<future, left, tracked, queue, closed, pump, stopVars>>

(* gRPC: the operation ends, with an answer or by its deadline. *)
Deliver(c) ==
  /\ c \in pending
  /\ pending' = pending \ {c}
  /\ queue' = queue \cup {c}
  /\ UNCHANGED <<callVars, tracked, closed, pump, stopVars, crash>>

-----------------------------------------------------------------------------
(* The pump: CompleteOne, in the loop of UpdateLoop or of the program.     *)
(* Between AsyncNext and the mutex anything may happen.                    *)

(* gRPC stores the answer in the call object before it returns the event.  *)
AsyncNext(c) ==
  /\ pump.at = "polling"
  /\ c \in queue
  /\ crash' = IF c \in tracked THEN "none" ELSE "event"
  /\ IF crash' = "none"
     THEN /\ queue' = queue \ {c}
          /\ PumpIs("got", c)
     ELSE UNCHANGED <<queue, pump>>
  /\ UNCHANGED <<callVars, tracked, pending, closed, stopVars>>

(* Mutant: only an event makes the pump look at the flag. *)
NoticeWithEvent ==
  /\ pump.at = "got"
  /\ ShutdownRequested
  /\ PumpIs("stopped", NoCall)
  /\ UNCHANGED <<callVars, tracked, grpcVars, stopVars, crash>>

(* Event or timeout, once the flag is set the pump does nothing more. *)
NoticeShutdown ==
  /\ pump.at \in {"polling", "got"}
  /\ ShutdownRequested
  /\ PumpIs("stopped", NoCall)
  /\ UNCHANGED <<callVars, tracked, grpcVars, stopVars, crash>>

(* Mutant: the flag is not looked at again under the mutex. *)
LockAnyway ==
  /\ pump.at = "got"
  /\ PumpIs("inside", pump.call)
  /\ UNCHANGED <<callVars, tracked, grpcVars, stopVars, crash>>

LockToComplete ==
  /\ pump.at = "got"
  /\ ~ShutdownRequested
  /\ PumpIs("inside", pump.call)
  /\ UNCHANGED <<callVars, tracked, grpcVars, stopVars, crash>>

(* Mutant: the next operation of a streaming call is never begun. *)
DropLaterEvents ==
  LET c == pump.call IN
  /\ pump.at = "inside"
  /\ IF left[c] > 1
     THEN /\ PumpIs("polling", NoCall)
          /\ left' = [left EXCEPT ![c] = @ - 1]
          /\ UNCHANGED <<status, future, pending>>
     ELSE /\ PumpIs("removing", c)
          /\ status' = [status EXCEPT ![c] = "Completed"]
          /\ future' = [future EXCEPT ![c] = "answered"]
          /\ UNCHANGED <<pending, left>>
  /\ UNCHANGED <<thread, tracked, queue, closed, stopVars, crash>>

(* OnCompletionQueueEvent: the next operation of a streaming call, or the  *)
(* callback, which sets the promise.                                       *)
OnCompletionQueueEvent ==
  LET c == pump.call IN
  /\ pump.at = "inside"
  /\ IF status[c] = "Cancelled"
     THEN /\ PumpIs("removing", c)
          /\ UNCHANGED <<status, future, pending, left>>
     ELSE IF left[c] > 1
     THEN /\ PumpIs("polling", NoCall)
          /\ left' = [left EXCEPT ![c] = @ - 1]
          /\ pending' = pending \cup {c}
          /\ UNCHANGED <<status, future>>
     ELSE /\ PumpIs("removing", c)
          /\ status' = [status EXCEPT ![c] = "Completed"]
          /\ future' = [future EXCEPT ![c] = "answered"]
          /\ UNCHANGED <<pending, left>>
  /\ UNCHANGED <<thread, tracked, queue, closed, stopVars, crash>>

RemoveCall ==
  /\ pump.at = "removing"
  /\ TrackerMutexFree
  /\ tracked' = tracked \ {pump.call}
  /\ PumpIs("polling", NoCall)
  /\ UNCHANGED <<callVars, grpcVars, stopVars, crash>>

-----------------------------------------------------------------------------
(* The thread that shuts the pump down *)

HalfInitiated(c) == thread[c] \in {"created", "tracked"}

(* Mutant: the flag is set without taking m_shutdown_mutex. *)
RequestWithoutMutex ==
  /\ stopper = "running"
  /\ stopper' = "requested"
  /\ caught' = {c \in Calls : HalfInitiated(c)}
  /\ UNCHANGED <<callVars, tracked, grpcVars, pump, toCancel, auto, crash>>

(* Nothing keeps the threads that initiate calls out meanwhile. *)
RequestShutdown ==
  /\ stopper = "running"
  /\ ShutdownMutexFree
  /\ stopper' = "requested"
  /\ caught' = {c \in Calls : HalfInitiated(c)}
  /\ UNCHANGED <<callVars, tracked, grpcVars, pump, toCancel, auto, crash>>

CancelAll ==
  /\ stopper = "requested"
  /\ stopper' = "cancelling"
  /\ toCancel' = tracked
  /\ UNCHANGED <<callVars, tracked, grpcVars, pump, auto, caught, crash>>

(* Mutant: a call that was started is marked but its promise is forgotten. *)
CancelUnstartedOnly(c) ==
  /\ stopper = "cancelling"
  /\ c \in toCancel
  /\ toCancel' = toCancel \ {c}
  /\ status' = [status EXCEPT ![c] = IF @ \in {"NotStarted", "Called"}
                                     THEN "Cancelled" ELSE @]
  /\ UNCHANGED <<thread, future, left, tracked, grpcVars, pump, stopper, auto,
                 caught, crash>>

(* Cancel: the promise of a call that was started is set.  One that was    *)
(* not still is with the thread that initiates the call, and what is set   *)
(* is an empty promise nobody waits for.                                   *)
Cancel(c) ==
  /\ stopper = "cancelling"
  /\ c \in toCancel
  /\ toCancel' = toCancel \ {c}
  /\ status' = [status EXCEPT ![c] = IF @ \in {"NotStarted", "Called"}
                                     THEN "Cancelled" ELSE @]
  /\ future' = [future EXCEPT ![c] = IF status[c] = "Called"
                                     THEN "cancelled" ELSE @]
  /\ UNCHANGED <<thread, left, tracked, grpcVars, pump, stopper, auto, caught,
                 crash>>

CancelledAll ==
  /\ stopper = "cancelling"
  /\ toCancel = {}
  /\ stopper' = "closing"
  /\ UNCHANGED <<callVars, tracked, grpcVars, pump, toCancel, auto, caught, crash>>

CloseQueue ==
  /\ stopper = "closing"
  /\ stopper' = "joining"
  /\ closed' = TRUE
  /\ UNCHANGED <<callVars, tracked, pending, queue, pump, toCancel, auto, caught,
                 crash>>

(* The auto-update thread is joined and the call objects are destroyed;    *)
(* the futures of started calls whose promise was never set are broken.    *)
JoinAndRemoveAllCalls ==
  /\ stopper = "joining"
  /\ auto = "running" => pump.at = "stopped"
  /\ stopper' = "stopped"
  /\ tracked' = {}
  /\ future' = [c \in Calls |->
                  IF c \in tracked /\ thread[c] = "issued" /\ future[c] = "waiting"
                  THEN "broken" ELSE future[c]]
  /\ auto' = IF auto = "running" THEN "joined" ELSE auto
  /\ UNCHANGED <<thread, status, left, grpcVars, pump, toCancel, caught, crash>>

-----------------------------------------------------------------------------
Init ==
  /\ thread = [c \in Calls |-> "idle"]
  /\ status = [c \in Calls |-> "NotStarted"]
  /\ future = [c \in Calls |-> "none"]
  /\ left = Events
  /\ tracked = {} /\ pending = {} /\ queue = {}
  /\ closed = FALSE
  /\ pump = [at |-> "polling", call |-> NoCall]
  /\ stopper = "running" /\ toCancel = {}
  /\ auto \in {"none", "running"}
  /\ caught = {}
  /\ crash = "none"

Initiate(c) == CreateUnaryCall(c) \/ ProcessorFails(c) \/ AddCall(c) \/ Start(c)

Complete ==
  \/ \E c \in Calls : AsyncNext(c)
  \/ NoticeShutdown \/ LockToComplete \/ OnCompletionQueueEvent \/ RemoveCall

Shutdown ==
  \/ CancelAll
  \/ \E c \in Calls : Cancel(c)
  \/ CancelledAll \/ CloseQueue \/ JoinAndRemoveAllCalls

(* Every thread has come to its end, or the program has been terminated:   *)
(* there is no other way the pump rests for good.                          *)
Rest ==
  /\ \/ crash # "none"
     \/ /\ \A c \in Calls : thread[c] \in {"issued", "refused"}
        /\ pending = {} /\ stopper = "stopped" /\ pump.at = "stopped"
  /\ UNCHANGED vars

Next ==
  \/ /\ crash = "none"
     /\ \/ \E c \in Calls : Initiate(c) \/ Deliver(c)
        \/ Complete \/ RequestShutdown \/ Shutdown
  \/ Rest

Spec == Init /\ [][Next]_vars

(* A thread that has begun to initiate a call, the pump's loop and a       *)
(* shutdown that was requested go on, and every gRPC operation ends, at    *)
(* the latest by its deadline.  Whether a call is made or the pump shut    *)
(* down is up to the program.                                              *)
Fairness ==
  /\ \A c \in Calls : /\ WF_vars(crash = "none" /\ (AddCall(c) \/ Start(c)))
                      /\ WF_vars(crash = "none" /\ Deliver(c))
  /\ WF_vars(crash = "none" /\ Complete)
  /\ WF_vars(crash = "none" /\ Shutdown)

FairSpec == Spec /\ Fairness

-----------------------------------------------------------------------------
TypeOK ==
  /\ thread \in [Calls -> Thread]
  /\ status \in [Calls -> CallStatus]
  /\ future \in [Calls -> Future]
  /\ left \in [Calls -> Nat \ {0}]
  /\ tracked \subseteq Calls /\ pending \subseteq Calls /\ queue \subseteq Calls
  /\ closed \in BOOLEAN
  /\ pump \in [at : PumpAt, call : Calls \cup {NoCall}]
  /\ pump.at \in {"got", "inside", "removing"} => pump.call \in Calls
  /\ stopper \in Stopper
  /\ toCancel \subseteq Calls
  /\ auto \in AutoThread
  /\ caught \subseteq Calls
  /\ crash \in Crash

(* Once a shutdown has been requested no callback is running nor will any  *)
(* run: the program may destroy what callbacks refer to as soon as         *)
(* RequestShutdown has returned (message_pump.cpp:37, message_pump.cpp:68).*)
CallbacksStopAtShutdown ==
  ShutdownRequested => pump.at \notin {"inside", "removing"}

(* A call object is alive for as long as gRPC may raise an event for it,   *)
(* up to the end of its callback or of the shutdown (message_pump.h:749,   *)
(* message_pump.cpp:87).                                                   *)
AliveUntilCallback ==
  /\ pump.at \in {"inside", "removing"} => pump.call \in tracked
  /\ stopper # "stopped" => pending \cup queue \subseteq tracked

(* What has become of a call as those who wait for it see it. *)
Life(c) ==
  IF future[c] # "waiting" THEN future[c]
  ELSE IF thread[c] = "issued" THEN "underway" ELSE "promised"

Async == INSTANCE AsyncCalls
           WITH life <- [c \in Calls |-> Life(c)], down <- ShutdownRequested

(* The threads together keep what a future promises: it is settled once,   *)
(* by the callback or by the shutdown and never by both, it is refused     *)
(* only if the call was not begun, and only a call that the shutdown found *)
(* half initiated may be forgotten (message_pump.h:65, message_pump.h:110, *)
(* message_pump.cpp:74).                                                   *)
ImplementsAsync == Async!Spec

(* No interleaving of the threads brings the program down but two: a call  *)
(* that is half initiated when the pump is shut down, and then starts on   *)
(* what the shutdown has cancelled, closed or destroyed, and a program     *)
(* that goes on to poll a pump another thread has shut down, which gives   *)
(* it an event of a destroyed call (message_pump.h:625, message_pump.h:732,*)
(* message_pump.cpp:87).                                                   *)
CrashNeedsRace ==
  /\ \A c \in Calls :
       thread[c] = "tracked" /\ StartFault(c) # "none" => c \in caught
  /\ crash \in {"precondition", "freed", "queue"} => caught # {}
  /\ crash = "event" => auto = "none" /\ stopper = "stopped"

(* The program is never brought down.  It is, in each of the two races.    *)
NeverCrashes == crash = "none"

Settled(c) ==
  \/ future[c] \in {"answered", "cancelled", "refused"}
  \/ future[c] = "broken" /\ c \in caught

(* Every future that was handed out is settled, whether the call completes *)
(* or the pump is shut down first, unless the program crashes or the call  *)
(* was half initiated at the shutdown (message_pump.h:108).                *)
EveryFutureSettles ==
  \A c \in Calls :
    future[c] = "waiting" ~> (Settled(c) \/ crash # "none")

(* A shutdown that was requested ends, if the program does not crash: no   *)
(* thread waits for another that waits for it (message_pump.cpp:65).       *)
ShutdownEnds == ShutdownRequested ~> (stopper = "stopped" \/ crash # "none")
=============================================================================
