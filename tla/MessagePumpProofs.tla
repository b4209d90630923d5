-------------------------- MODULE MessagePumpProofs --------------------------
(***************************************************************************)
(* Proofs about MessagePump, for any number of calls and of events and for *)
(* any program: what callbacks may rely on, which races are the only ones  *)
(* to bring the program down, and what becomes of each promise.            *)
(***************************************************************************)
EXTENDS MessagePump, TLAPS

-----------------------------------------------------------------------------
(* Types *)

(* Every step keeps every variable in its set.                             *)
LEMMA NextTypeOK == ASSUME TypeOK, [Next]_vars PROVE TypeOK'
<1> USE EventsAssumption, NoCallAssumption
        DEF TypeOK, Thread, CallStatus, Future, PumpAt, Stopper, AutoThread, Crash,
            PumpIs, callVars, grpcVars, stopVars
<1>1. ASSUME NEW c \in Calls, CreateUnaryCall(c) PROVE TypeOK'
  BY <1>1 DEF CreateUnaryCall
<1>2. ASSUME NEW c \in Calls, ProcessorFails(c) PROVE TypeOK'
  BY <1>2 DEF ProcessorFails
<1>3. ASSUME NEW c \in Calls, AddCall(c) PROVE TypeOK'
  BY <1>3 DEF AddCall
<1>4. ASSUME NEW c \in Calls, Start(c) PROVE TypeOK'
  BY <1>4 DEF Start, StartFault
<1>5. ASSUME NEW c \in Calls, Deliver(c) PROVE TypeOK'
  BY <1>5 DEF Deliver
<1>6. ASSUME NEW c \in Calls, AsyncNext(c) PROVE TypeOK'
  BY <1>6 DEF AsyncNext
<1>7. ASSUME NoticeShutdown PROVE TypeOK'
  BY <1>7 DEF NoticeShutdown
<1>8. ASSUME LockToComplete PROVE TypeOK'
  BY <1>8 DEF LockToComplete
<1>9. ASSUME OnCompletionQueueEvent PROVE TypeOK'
  BY <1>9 DEF OnCompletionQueueEvent
<1>10. ASSUME RemoveCall PROVE TypeOK'
  BY <1>10 DEF RemoveCall
<1>11. ASSUME RequestShutdown PROVE TypeOK'
  BY <1>11 DEF RequestShutdown
<1>12. ASSUME CancelAll PROVE TypeOK'
  BY <1>12 DEF CancelAll
<1>13. ASSUME NEW c \in Calls, Cancel(c) PROVE TypeOK'
  BY <1>13 DEF Cancel
<1>14. ASSUME CancelledAll PROVE TypeOK'
  BY <1>14 DEF CancelledAll
<1>15. ASSUME CloseQueue PROVE TypeOK'
  BY <1>15 DEF CloseQueue
<1>16. ASSUME JoinAndRemoveAllCalls PROVE TypeOK'
  BY <1>16 DEF JoinAndRemoveAllCalls
<1>17. CASE UNCHANGED vars
  BY <1>17 DEF vars
<1> QED
  BY <1>1, <1>2, <1>3, <1>4, <1>5, <1>6, <1>7, <1>8,
     <1>9, <1>10, <1>11, <1>12, <1>13, <1>14, <1>15, <1>16, <1>17
     DEF Next, Initiate, Complete, Shutdown, Rest

(* Every variable stays in its set (message_pump.h, its types). *)
THEOREM PumpTypeOK == Spec => []TypeOK
<1>1. Init => TypeOK
  <2> SUFFICES ASSUME Init PROVE TypeOK
    OBVIOUS
  <2>1. left \in [Calls -> Nat \ {0}]
    BY EventsAssumption DEF Init
  <2> QED
    BY <2>1 DEF Init, TypeOK, Thread, CallStatus, Future, PumpAt, Stopper, AutoThread, Crash
<1>2. TypeOK /\ [Next]_vars => TypeOK'
  BY NextTypeOK
<1> QED
  BY <1>1, <1>2, PTL DEF Spec

-----------------------------------------------------------------------------
(* Where call objects and their events are, in every program *)

(* The pump has taken an event of pump.call and is not done with it. *)
Handling == pump.at \in {"got", "inside", "removing"}

(* A call has at most one event under way: in gRPC, in the queue or with   *)
(* the pump; none before it is started.                                    *)
OneEvent ==
  /\ Handling => thread[pump.call] = "issued"
  /\ pending \cap queue = {}
  /\ Handling => pump.call \notin pending \cup queue
  /\ \A c \in pending \cup queue : thread[c] = "issued"

(* Until a shutdown has destroyed the objects, one whose events may still  *)
(* come, and one that is about to be started, is alive; by then the thread *)
(* of the pump itself has been joined.                                     *)
AliveWhileRunning ==
  /\ stopper # "stopped" =>
       /\ pending \cup queue \subseteq tracked
       /\ Handling => pump.call \in tracked
       /\ \A c \in Calls : thread[c] = "tracked" => c \in tracked
  /\ auto = "joined" => pump.at = "stopped"
  /\ stopper = "stopped" => auto # "running"

TrackedIsBegun == \A c \in tracked : thread[c] \in {"tracked", "issued"}

Objects ==
  /\ CallbacksStopAtShutdown
  /\ OneEvent
  /\ AliveWhileRunning
  /\ TrackedIsBegun

(* Every step, in any program, keeps what relates the call objects to the  *)
(* pump and to gRPC.                                                       *)
LEMMA NextObjects == ASSUME TypeOK, Objects, [Next]_vars PROVE Objects'
<1> USE NoCallAssumption
        DEF TypeOK, Objects, CallbacksStopAtShutdown, OneEvent, AliveWhileRunning,
            TrackedIsBegun, Handling, ShutdownRequested, PumpIs,
            callVars, grpcVars, stopVars
<1>1. ASSUME NEW c \in Calls, CreateUnaryCall(c) PROVE Objects'
  BY <1>1 DEF CreateUnaryCall
<1>2. ASSUME NEW c \in Calls, ProcessorFails(c) PROVE Objects'
  BY <1>2 DEF ProcessorFails
<1>3. ASSUME NEW c \in Calls, AddCall(c) PROVE Objects'
  BY <1>3 DEF AddCall
<1>4. ASSUME NEW c \in Calls, Start(c) PROVE Objects'
  BY <1>4 DEF Start, StartFault
<1>5. ASSUME NEW c \in Calls, Deliver(c) PROVE Objects'
  BY <1>5 DEF Deliver
<1>6. ASSUME NEW c \in Calls, AsyncNext(c) PROVE Objects'
  BY <1>6 DEF AsyncNext
<1>7. ASSUME NoticeShutdown PROVE Objects'
  BY <1>7 DEF NoticeShutdown
<1>8. ASSUME LockToComplete PROVE Objects'
  BY <1>8 DEF LockToComplete
<1>9. ASSUME OnCompletionQueueEvent PROVE Objects'
  BY <1>9 DEF OnCompletionQueueEvent
<1>10. ASSUME RemoveCall PROVE Objects'
  BY <1>10 DEF RemoveCall
<1>11. ASSUME RequestShutdown PROVE Objects'
  BY <1>11 DEF RequestShutdown, ShutdownMutexFree
<1>12. ASSUME CancelAll PROVE Objects'
  BY <1>12 DEF CancelAll
<1>13. ASSUME NEW c \in Calls, Cancel(c) PROVE Objects'
  BY <1>13 DEF Cancel
<1>14. ASSUME CancelledAll PROVE Objects'
  BY <1>14 DEF CancelledAll
<1>15. ASSUME CloseQueue PROVE Objects'
  BY <1>15 DEF CloseQueue
<1>16. ASSUME JoinAndRemoveAllCalls PROVE Objects'
  BY <1>16 DEF JoinAndRemoveAllCalls, AutoThread
<1>17. CASE UNCHANGED vars
  BY <1>17 DEF vars
<1> QED
  BY <1>1, <1>2, <1>3, <1>4, <1>5, <1>6, <1>7, <1>8,
     <1>9, <1>10, <1>11, <1>12, <1>13, <1>14, <1>15, <1>16, <1>17
     DEF Next, Initiate, Complete, Shutdown, Rest

(* In every program: no callback runs once a shutdown was requested, and   *)
(* the call of a callback is alive until the callback has returned         *)
(* (message_pump.cpp:37, message_pump.h:749).                              *)
THEOREM PumpCallbacks == Spec => [](CallbacksStopAtShutdown /\ AliveUntilCallback)
<1>1. Init => Objects
  BY DEF Init, Objects, CallbacksStopAtShutdown, OneEvent, AliveWhileRunning,
         TrackedIsBegun, Handling, ShutdownRequested
<1>2. TypeOK /\ Objects /\ [Next]_vars => Objects'
  BY NextObjects
<1>3. Objects => CallbacksStopAtShutdown /\ AliveUntilCallback
  BY DEF Objects, CallbacksStopAtShutdown, AliveUntilCallback, AliveWhileRunning,
         Handling, ShutdownRequested
<1> QED
  BY <1>1, <1>2, <1>3, PumpTypeOK, PTL DEF Spec

(* No shutdown deletes the call whose callback runs (message_pump.h:749).  *)
THEOREM PumpCallsLive == Spec => []AliveUntilCallback
BY PumpCallbacks, PTL

-----------------------------------------------------------------------------
(* What becomes of promises *)

(* Only a shutdown disturbs a call that is not started. *)
NotDisturbed ==
  /\ closed => ShutdownRequested
  /\ \A c \in Calls : thread[c] # "issued" /\ ~ShutdownRequested => status[c] = "NotStarted"

WaitingIsCalled ==
  \A c \in Calls :
    thread[c] = "issued" /\ future[c] = "waiting" => status[c] = "Called"

(* A shutdown finds calls that are under way, each of which awaits its     *)
(* cancellation, is settled or was never tracked, and calls it has caught. *)
CaughtShutdown ==
  /\ ShutdownRequested => \A c \in Calls : HalfInitiated(c) => c \in caught
  /\ stopper = "cancelling" =>
       \A c \in tracked \ toCancel : future[c] = "waiting" => c \in caught
  /\ stopper \in {"closing", "joining"} =>
       \A c \in tracked : future[c] = "waiting" => c \in caught

BrokenIsCaught == \A c \in Calls : future[c] = "broken" => c \in caught

CrashIsCaught ==
  /\ caught # {} => ShutdownRequested
  /\ crash \in {"precondition", "freed", "queue"} => caught # {}
  /\ crash = "event" => auto = "none" /\ stopper = "stopped"

Promises ==
  /\ NotDisturbed
  /\ WaitingIsCalled
  /\ CaughtShutdown
  /\ BrokenIsCaught
  /\ CrashIsCaught

(* A call that is not caught can always start.                             *)
LEMMA UncaughtStarts ==
  ASSUME TypeOK, Objects, Promises, NEW c \in Calls, thread[c] = "tracked",
         c \notin caught
  PROVE  StartFault(c) = "none"
BY DEF TypeOK, Objects, AliveWhileRunning, Promises, NotDisturbed, CaughtShutdown,
       HalfInitiated, ShutdownRequested, StartFault

(* Every step keeps the promises: what is waited for is started and tracked *)
(* until it is answered or cancelled, or caught by the shutdown.            *)
LEMMA NextPromises ==
  ASSUME TypeOK, Objects, Promises, [Next]_vars
  PROVE  Promises'
<1> USE DEF TypeOK, Promises, NotDisturbed, WaitingIsCalled, CaughtShutdown,
            BrokenIsCaught, CrashIsCaught, ShutdownRequested, HalfInitiated,
            PumpIs, callVars, grpcVars, stopVars
<1>1. ASSUME NEW c \in Calls, CreateUnaryCall(c) PROVE Promises'
  BY <1>1 DEF CreateUnaryCall
<1>2. ASSUME NEW c \in Calls, ProcessorFails(c) PROVE Promises'
  BY <1>2 DEF ProcessorFails
<1>3. ASSUME NEW c \in Calls, AddCall(c) PROVE Promises'
  BY <1>3 DEF AddCall
<1>4. ASSUME NEW c \in Calls, Start(c) PROVE Promises'
  <2>1. CASE crash' = "none"
    BY <1>4, <2>1 DEF Start, StartFault
  <2>2. CASE crash' # "none"
    <3>1. crash' \in {"precondition", "freed", "queue"} /\ thread[c] = "tracked"
      BY <1>4, <2>2 DEF Start, StartFault
    <3>2. c \in caught
      BY <1>4, <2>2, <3>1, UncaughtStarts DEF Start
    <3> QED
      BY <1>4, <2>2, <3>1, <3>2 DEF Start
  <2> QED
    BY <2>1, <2>2
<1>5. ASSUME NEW c \in Calls, Deliver(c) PROVE Promises'
  BY <1>5 DEF Deliver
<1>6. ASSUME NEW c \in Calls, AsyncNext(c) PROVE Promises'
  BY <1>6 DEF AsyncNext, Objects, AliveWhileRunning, AutoThread
<1>7. ASSUME NoticeShutdown PROVE Promises'
  BY <1>7 DEF NoticeShutdown
<1>8. ASSUME LockToComplete PROVE Promises'
  BY <1>8 DEF LockToComplete
<1>9. ASSUME OnCompletionQueueEvent PROVE Promises'
  BY <1>9 DEF OnCompletionQueueEvent, Objects, CallbacksStopAtShutdown, OneEvent, Handling
<1>10. ASSUME RemoveCall PROVE Promises'
  BY <1>10 DEF RemoveCall
<1>11. ASSUME RequestShutdown PROVE Promises'
  BY <1>11 DEF RequestShutdown
<1>12. ASSUME CancelAll PROVE Promises'
  BY <1>12 DEF CancelAll, Objects, TrackedIsBegun
<1>13. ASSUME NEW c \in Calls, Cancel(c) PROVE Promises'
  BY <1>13 DEF Cancel, Objects, TrackedIsBegun
<1>14. ASSUME CancelledAll PROVE Promises'
  BY <1>14 DEF CancelledAll
<1>15. ASSUME CloseQueue PROVE Promises'
  BY <1>15 DEF CloseQueue
<1>16. ASSUME JoinAndRemoveAllCalls PROVE Promises'
  BY <1>16 DEF JoinAndRemoveAllCalls
<1>17. CASE UNCHANGED vars
  BY <1>17 DEF vars
<1> QED
  BY <1>1, <1>2, <1>3, <1>4, <1>5, <1>6, <1>7, <1>8,
     <1>9, <1>10, <1>11, <1>12, <1>13, <1>14, <1>15, <1>16, <1>17
     DEF Next, Initiate, Complete, Shutdown, Rest

(* In every program, for any number of calls and events: only a call that  *)
(* is half initiated when the pump is shut down, and a program that polls  *)
(* the pump itself when another thread has shut it down, can bring the     *)
(* program down (message_pump.h:625, message_pump.cpp:87).                 *)
THEOREM PumpCrashNeedsRace == Spec => []CrashNeedsRace
<1>1. Init => Objects /\ Promises
  BY DEF Init, Objects, CallbacksStopAtShutdown, OneEvent, AliveWhileRunning,
         TrackedIsBegun, Handling, ShutdownRequested, Promises, NotDisturbed,
         WaitingIsCalled, CaughtShutdown, BrokenIsCaught, CrashIsCaught, HalfInitiated
<1>2. TypeOK /\ Objects /\ Promises /\ [Next]_vars => (Objects /\ Promises)'
  BY NextObjects, NextPromises
<1>3. TypeOK /\ Objects /\ Promises => CrashNeedsRace
  BY UncaughtStarts DEF Promises, CrashIsCaught, CrashNeedsRace
<1> QED
  BY <1>1, <1>2, <1>3, PumpTypeOK, PTL DEF Spec

-----------------------------------------------------------------------------
(* What becomes of each future, in every program *)

(* How far the thread of a call has come, the status of the call object    *)
(* and the future that was handed out agree: until the objects are         *)
(* destroyed, "Called" is the status of exactly the calls that are under   *)
(* way, and no event comes for a call that has completed.                  *)
Lives ==
  /\ \A c \in Calls : thread[c] = "idle" => future[c] = "none"
  /\ \A c \in Calls : HalfInitiated(c) => future[c] = "waiting"
  /\ \A c \in Calls : thread[c] = "refused" => future[c] = "refused"
  /\ \A c \in Calls : thread[c] = "issued" => status[c] # "NotStarted"
  /\ \A c \in Calls :
       status[c] = "Called" =>
         thread[c] = "issued" /\ (stopper # "stopped" => future[c] = "waiting")
  /\ \A c \in pending \cup queue : status[c] # "Completed"
  /\ pump.at \in {"got", "inside"} => status[pump.call] # "Completed"

(* Every step of any program keeps the agreement.                          *)
LEMMA NextLives == ASSUME TypeOK, Objects, Lives, [Next]_vars PROVE Lives'
<1> USE DEF TypeOK, Lives, HalfInitiated, ShutdownRequested, PumpIs,
            callVars, grpcVars, stopVars
<1>1. ASSUME NEW c \in Calls, CreateUnaryCall(c) PROVE Lives'
  <2>1. status[c] # "Called" /\ thread[c] = "idle"
    BY <1>1 DEF CreateUnaryCall
  <2> QED
    BY <1>1, <2>1 DEF CreateUnaryCall
<1>2. ASSUME NEW c \in Calls, ProcessorFails(c) PROVE Lives'
  <2>1. status[c] # "Called" /\ thread[c] = "created"
    BY <1>2 DEF ProcessorFails
  <2> QED
    BY <1>2, <2>1 DEF ProcessorFails
<1>3. ASSUME NEW c \in Calls, AddCall(c) PROVE Lives'
  <2>1. status[c] # "Called" /\ thread[c] = "created"
    BY <1>3 DEF AddCall
  <2> QED
    BY <1>3, <2>1 DEF AddCall
<1>4. ASSUME NEW c \in Calls, Start(c) PROVE Lives'
  <2>1. CASE crash' = "none"
    <3>1. future[c] = "waiting"
      BY <1>4 DEF Start
    <3>2. c \notin queue /\ (pump.at \in {"got", "inside"} => pump.call # c)
      BY <1>4 DEF Start, Objects, OneEvent, Handling
    <3> QED
      BY <1>4, <2>1, <3>1, <3>2 DEF Start
  <2>2. CASE crash' # "none"
    BY <1>4, <2>2 DEF Start
  <2> QED
    BY <2>1, <2>2
<1>5. ASSUME NEW c \in Calls, Deliver(c) PROVE Lives'
  BY <1>5 DEF Deliver
<1>6. ASSUME NEW c \in Calls, AsyncNext(c) PROVE Lives'
  BY <1>6 DEF AsyncNext
<1>7. ASSUME NoticeShutdown PROVE Lives'
  BY <1>7 DEF NoticeShutdown
<1>8. ASSUME LockToComplete PROVE Lives'
  BY <1>8 DEF LockToComplete
<1>9. ASSUME OnCompletionQueueEvent PROVE Lives'
  <2>1. thread[pump.call] = "issued" /\ pump.call \notin pending \cup queue
    BY <1>9 DEF OnCompletionQueueEvent, Objects, OneEvent, Handling
  <2> QED
    BY <1>9, <2>1 DEF OnCompletionQueueEvent
<1>10. ASSUME RemoveCall PROVE Lives'
  BY <1>10 DEF RemoveCall
<1>11. ASSUME RequestShutdown PROVE Lives'
  BY <1>11 DEF RequestShutdown
<1>12. ASSUME CancelAll PROVE Lives'
  BY <1>12 DEF CancelAll
<1>13. ASSUME NEW c \in Calls, Cancel(c) PROVE Lives'
  BY <1>13 DEF Cancel
<1>14. ASSUME CancelledAll PROVE Lives'
  BY <1>14 DEF CancelledAll
<1>15. ASSUME CloseQueue PROVE Lives'
  BY <1>15 DEF CloseQueue
<1>16. ASSUME JoinAndRemoveAllCalls PROVE Lives'
  BY <1>16 DEF JoinAndRemoveAllCalls
<1>17. CASE UNCHANGED vars
  BY <1>17 DEF vars
<1> QED
  BY <1>1, <1>2, <1>3, <1>4, <1>5, <1>6, <1>7, <1>8,
     <1>9, <1>10, <1>11, <1>12, <1>13, <1>14, <1>15, <1>16, <1>17
     DEF Next, Initiate, Complete, Shutdown, Rest

(* Every step that touches the future of a call is one the promise of the  *)
(* abstract call allows.                                                   *)
LEMMA NextAsync ==
  ASSUME TypeOK, Objects, Lives, Promises, [Next]_vars
  PROVE  [Async!Next]_<<[c \in Calls |-> Life(c)], ShutdownRequested, caught>>
<1> DEFINE life == [c \in Calls |-> Life(c)]
           after == [c \in Calls |-> Life(c)']
           Same == UNCHANGED <<ShutdownRequested, caught>>
<1> USE DEF TypeOK, Lives, HalfInitiated, Life, PumpIs, callVars, grpcVars, stopVars
<1>0. ASSUME UNCHANGED <<thread, future>> PROVE after = life
  BY <1>0
<1>1. ASSUME NEW c \in Calls, CreateUnaryCall(c)
      PROVE  Async!Promise(c) \/ Async!Refuse(c)
  <2>1. life[c] = "none" /\ thread[c] = "idle" /\ Same
    BY <1>1 DEF CreateUnaryCall, ShutdownRequested
  <2>2. CASE ShutdownRequested
    <3>1. /\ thread' = [thread EXCEPT ![c] = "refused"]
          /\ future' = [future EXCEPT ![c] = "refused"]
      BY <1>1, <2>2 DEF CreateUnaryCall
    <3>2. after = [life EXCEPT ![c] = "refused"]
      BY <3>1
    <3> QED
      BY <2>1, <3>2 DEF Async!Refuse, Async!Becomes
  <2>3. CASE ~ShutdownRequested
    <3>1. /\ thread' = [thread EXCEPT ![c] = "created"]
          /\ future' = [future EXCEPT ![c] = "waiting"]
      BY <1>1, <2>3 DEF CreateUnaryCall
    <3>2. after = [life EXCEPT ![c] = "promised"]
      BY <3>1
    <3> QED
      BY <2>1, <2>3, <3>2 DEF Async!Promise, Async!Becomes
  <2> QED
    BY <2>2, <2>3
<1>2. ASSUME NEW c \in Calls, ProcessorFails(c) PROVE Async!Refuse(c)
  <2>1. life[c] = "promised" /\ after = [life EXCEPT ![c] = "refused"] /\ Same
    BY <1>2 DEF ProcessorFails, ShutdownRequested
  <2> QED
    BY <2>1 DEF Async!Refuse, Async!Becomes
<1>3. ASSUME NEW c \in Calls, AddCall(c) PROVE after = life /\ Same
  BY <1>3 DEF AddCall, ShutdownRequested
<1>4. ASSUME NEW c \in Calls, Start(c) PROVE (after = life /\ Same) \/ Async!Begin(c)
  <2>1. future[c] = "waiting" /\ life[c] = "promised" /\ Same
    BY <1>4 DEF Start, ShutdownRequested
  <2>2. CASE crash' = "none"
    <3>1. thread' = [thread EXCEPT ![c] = "issued"] /\ future' = future
      BY <1>4, <2>2 DEF Start
    <3>2. after = [life EXCEPT ![c] = "underway"]
      BY <2>1, <3>1
    <3>3. ShutdownRequested => c \in caught
      BY <1>4 DEF Start, Promises, CaughtShutdown
    <3> QED
      BY <2>1, <3>2, <3>3 DEF Async!Begin, Async!Becomes
  <2>3. CASE crash' # "none"
    BY <1>4, <2>1, <2>3, <1>0 DEF Start
  <2> QED
    BY <2>2, <2>3
<1>9. ASSUME OnCompletionQueueEvent
      PROVE  (after = life /\ Same) \/ \E c \in Calls : Async!Answer(c)
  <2>0. Same
    BY <1>9 DEF OnCompletionQueueEvent, ShutdownRequested
  <2>1. CASE UNCHANGED future
    BY <1>9, <2>0, <2>1, <1>0 DEF OnCompletionQueueEvent
  <2>2. CASE future' = [future EXCEPT ![pump.call] = "answered"]
              /\ status[pump.call] # "Cancelled"
    <3>1. /\ pump.call \in Calls /\ thread[pump.call] = "issued"
          /\ stopper = "running"
      BY <1>9 DEF OnCompletionQueueEvent, Objects, CallbacksStopAtShutdown,
                  ShutdownRequested, OneEvent, Handling
    <3>2. status[pump.call] = "Called"
      BY <1>9, <2>2, <3>1 DEF OnCompletionQueueEvent, CallStatus
    <3>3. future[pump.call] = "waiting"
      BY <3>1, <3>2
    <3>4. /\ life[pump.call] = "underway"
          /\ after = [life EXCEPT ![pump.call] = "answered"]
      BY <1>9, <2>2, <3>1, <3>3 DEF OnCompletionQueueEvent
    <3>5. ~ShutdownRequested
      BY <3>1 DEF ShutdownRequested
    <3> QED
      BY <2>0, <3>1, <3>4, <3>5 DEF Async!Answer, Async!Becomes
  <2> QED
    BY <1>9, <2>1, <2>2 DEF OnCompletionQueueEvent
<1>11. ASSUME RequestShutdown PROVE Async!Shutdown
  <2>1. after = life
    BY <1>11, <1>0 DEF RequestShutdown
  <2>2. ~ShutdownRequested /\ ShutdownRequested' = TRUE
    BY <1>11 DEF RequestShutdown, ShutdownRequested
  <2>3. \A c \in Calls : HalfInitiated(c) <=> life[c] = "promised"
    BY DEF Thread, Future
  <2>4. caught' = {c \in Calls : life[c] = "promised"}
    BY <1>11, <2>3 DEF RequestShutdown
  <2> QED
    BY <2>1, <2>2, <2>4 DEF Async!Shutdown
<1>13. ASSUME NEW c \in Calls, Cancel(c) PROVE (after = life /\ Same) \/ Async!Cancel(c)
  <2>0. Same
    BY <1>13 DEF Cancel, ShutdownRequested
  <2>1. CASE status[c] # "Called"
    BY <1>13, <2>0, <2>1 DEF Cancel
  <2>2. CASE status[c] = "Called"
    <3>1. life[c] = "underway" /\ after = [life EXCEPT ![c] = "cancelled"]
      BY <1>13, <2>2 DEF Cancel
    <3> QED
      BY <2>0, <3>1 DEF Async!Cancel, Async!Becomes
  <2> QED
    BY <2>1, <2>2
<1>16. ASSUME JoinAndRemoveAllCalls
       PROVE  \E S \in SUBSET Calls : Async!Abandon(S)
  <2> DEFINE forgotten == {c \in tracked : thread[c] = "issued" /\ future[c] = "waiting"}
  <2>1. forgotten \subseteq caught
    BY <1>16 DEF JoinAndRemoveAllCalls, Promises, CaughtShutdown
  <2>2. /\ forgotten \in SUBSET Calls
        /\ \A c \in forgotten : life[c] = "underway"
    OBVIOUS
  <2>3. after = [c \in Calls |-> IF c \in forgotten THEN "broken" ELSE life[c]]
    BY <1>16 DEF JoinAndRemoveAllCalls
  <2>4. Same
    BY <1>16 DEF JoinAndRemoveAllCalls, ShutdownRequested
  <2> QED
    BY <2>1, <2>2, <2>3, <2>4 DEF Async!Abandon
<1>18. ASSUME CancelAll \/ CancelledAll \/ CloseQueue PROVE after = life /\ Same
  BY <1>18, <1>0 DEF CancelAll, CancelledAll, CloseQueue, ShutdownRequested
<1>19. ASSUME UNCHANGED <<thread, future, stopper, caught>> PROVE after = life /\ Same
  BY <1>19, <1>0 DEF ShutdownRequested
<1> QED
  <2>1. \/ UNCHANGED <<thread, future, stopper, caught>>
        \/ \E c \in Calls : CreateUnaryCall(c) \/ ProcessorFails(c) \/ AddCall(c)
                            \/ Start(c) \/ Cancel(c)
        \/ RequestShutdown \/ CancelAll \/ CancelledAll \/ CloseQueue
        \/ OnCompletionQueueEvent \/ JoinAndRemoveAllCalls
    BY DEF Next, Initiate, Complete, Shutdown, Rest, vars, Deliver, AsyncNext,
           NoticeShutdown, LockToComplete, RemoveCall
  <2> QED
    BY <2>1, <1>1, <1>2, <1>3, <1>4, <1>9, <1>11, <1>13, <1>16, <1>18, <1>19
       DEF Async!Next

(* The pump implements the abstract calls for every number of calls and    *)
(* events and in any program: a promise is set at most once, by the        *)
(* callback, the shutdown or a refusal before the call was begun, and is   *)
(* broken only if the shutdown caught the call half initiated              *)
(* (message_pump.h:65, message_pump.h:110, message_pump.cpp:55).           *)
THEOREM PumpImplementsAsync == Spec => ImplementsAsync
<1>1. Init => Objects /\ Lives /\ Promises /\ Async!Init
  <2>1. Init => Objects /\ Promises
    BY DEF Init, Objects, CallbacksStopAtShutdown, OneEvent, AliveWhileRunning,
           TrackedIsBegun, Handling, ShutdownRequested, Promises, NotDisturbed,
           WaitingIsCalled, CaughtShutdown, BrokenIsCaught, CrashIsCaught, HalfInitiated
  <2>2. Init => Lives
    BY DEF Init, Lives, HalfInitiated
  <2>3. Init => Async!Init
    BY DEF Init, Async!Init, Life, ShutdownRequested
  <2> QED
    BY <2>1, <2>2, <2>3
<1>2. TypeOK /\ Objects /\ Lives /\ Promises /\ [Next]_vars
        => (Objects /\ Lives /\ Promises)'
  BY NextObjects, NextLives, NextPromises
<1>3. TypeOK /\ Objects /\ Lives /\ Promises /\ [Next]_vars
      => [Async!Next]_<<[c \in Calls |-> Life(c)], ShutdownRequested, caught>>
  BY NextAsync
<1> QED
  BY <1>1, <1>2, <1>3, PumpTypeOK, PTL DEF Spec, ImplementsAsync, Async!Spec
=============================================================================
