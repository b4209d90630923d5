--------------------------- MODULE PeriodicThreads ---------------------------
(***************************************************************************)
(* The threads that keep what the robot would otherwise forget or revoke,  *)
(* all of them loops around a PeriodicThreadHelper:                        *)
(*   token      TokenManager::Update renews the user's token               *)
(*   directory  DirectoryRegistrationKeepAlive keeps a service registered, *)
(*              and reports on itself with a fault on the robot            *)
(*   payload    PayloadRegistrationKeepAlive keeps a payload registered    *)
(* A behaviour has one of them; they share nothing.  Waits last as long as *)
(* their interval at most.  An answer may be lost after the robot acted.   *)
(***************************************************************************)
EXTENDS Integers

CONSTANTS Interval, \* m_registration_interval, ..._refresh_interval
          Initial,  \* m_registration_initial_retry_interval, ...
          Kinds     \* the kinds of threads considered

VARIABLES kind,     \* of the thread
          at,       \* where it is
          wait,     \* wait_interval, which WaitForInterval gets
          retry,    \* retry_interval
          exit,     \* the helper's m_should_exit
          alive,    \* m_refresh_thread_is_alive, !m_thread_stopped, m_is_alive
          program,  \* where the program is that owns the thread
          callback, \* token: is m_token_refresh_error_callback set?
          flag,     \* directory: m_registration_fault_active
          heard,    \* token: has the callback been called for this loss?
          held,     \* robot: the token is valid, the entry is in the directory
          fault     \* robot: the registration fault is active

periodicVars == <<kind, at, wait, retry, exit, alive, program, callback, flag, heard, held,
                  fault>>
timing   == <<wait, retry>>
owner    == <<kind, exit, alive, program, callback>>
outcomes == <<flag, heard, held, fault>>

ASSUME IntervalsAssumption ==
  /\ Interval \in Nat /\ Initial \in 1 .. Interval
  /\ Kinds \subseteq {"token", "directory", "payload"}

Action == {"default", "immediately", "backOff", "resume", "abort"}

Shorter(a, b) == IF a < b THEN a ELSE b

-----------------------------------------------------------------------------
(* What a thread does with the outcome of an attempt *)

Resume == wait' = Interval /\ retry' = Initial

(* The directory's thread keeps its retry interval when an attempt was not *)
(* one of updating.                                                        *)
ResumeKeepingRetry == wait' = Interval /\ UNCHANGED retry

BackOff == wait' = retry /\ retry' = Shorter(2 * retry, Interval)

Immediately == wait' = 0 /\ UNCHANGED retry

(* kDefaultAction is a back-off for tokens, the full interval for others;  *)
(* in the directory's thread nothing but a success resets the interval.    *)
Proceed(action) ==
  CASE action = "abort"       -> UNCHANGED timing
    [] action = "immediately" -> Immediately
    [] action = "backOff"     -> BackOff
    [] action = "resume"      -> IF kind = "directory" THEN ResumeKeepingRetry ELSE Resume
    [] action = "default"     -> CASE kind = "token"     -> BackOff
                                   [] kind = "directory" -> ResumeKeepingRetry
                                   [] kind = "payload"   -> Resume

Follow(action) ==
  /\ Proceed(action)
  /\ at' = IF action = "abort" THEN "leaving" ELSE "waiting"

(* Success: back to the interval. *)
Done == Resume /\ at' = "waiting"

-----------------------------------------------------------------------------
(* PeriodicThreadHelper::WaitForInterval, and the end of the loop *)

(* Mutant: an exit is not looked for after the interval. *)
WaitEndsUnchecked ==
  /\ at = "waiting"
  /\ at' = "attempt"
  /\ UNCHANGED <<timing, owner, outcomes>>

WaitEnds ==
  /\ at = "waiting"
  /\ at' = IF exit THEN "leaving" ELSE "attempt"
  /\ UNCHANGED <<timing, owner, outcomes>>

(* The flag, then the helper: the thread stops even if it chose to. *)
Leave ==
  /\ at = "leaving"
  /\ at' = "ended" /\ alive' = FALSE /\ exit' = TRUE
  /\ UNCHANGED <<timing, kind, program, callback, outcomes>>

-----------------------------------------------------------------------------
(* TokenManager::Update *)

TokenRenewed ==
  /\ kind = "token" /\ at = "attempt" /\ held
  /\ Done
  /\ UNCHANGED <<owner, outcomes>>

(* Mutant: every failure is one to retry silently. *)
TokenFailsSilently ==
  /\ kind = "token" /\ at = "attempt"
  /\ Follow("backOff")
  /\ UNCHANGED <<owner, outcomes>>

(* Only a token that the robot calls invalid is the callback's matter, if  *)
(* there is one; an exception of the callback leaves the back-off.         *)
TokenFails ==
  /\ kind = "token" /\ at = "attempt"
  /\ \/ Follow("backOff") /\ UNCHANGED heard
     \/ /\ ~held /\ callback
        /\ heard' = TRUE
        /\ \E action \in Action : Follow(action)
  /\ UNCHANGED <<owner, flag, held, fault>>

-----------------------------------------------------------------------------
(* PayloadRegistrationKeepAlive::PeriodicReregisterThreadMethod *)

PayloadBegins ==
  /\ kind = "payload" /\ at = "begin"
  /\ alive' = TRUE /\ at' = "attempt"
  /\ UNCHANGED <<timing, kind, exit, program, callback, outcomes>>

(* STATUS_ALREADY_EXISTS is a heartbeat as good as a registration. *)
PayloadRegistered ==
  /\ kind = "payload" /\ at = "attempt"
  /\ held' = TRUE
  /\ Done
  /\ UNCHANGED <<owner, flag, heard, fault>>

PayloadFails ==
  /\ kind = "payload" /\ at = "attempt"
  /\ held' \in {held, TRUE}
  /\ \E action \in Action : Follow(action)
  /\ UNCHANGED <<owner, flag, heard, fault>>

-----------------------------------------------------------------------------
(* DirectoryRegistrationKeepAlive *)

(* A call to the fault service: the flag follows an answer that arrives.   *)
SetFault(on) ==
  \/ fault' = on /\ flag' = on
  \/ fault' \in {fault, on} /\ UNCHANGED flag

(* Start clears what an earlier keep-alive has left; without an answer, or *)
(* with one that the fault is not cleared, it is taken to be active.       *)
DirectoryStarts ==
  /\ kind = "directory" /\ at = "unstarted" /\ program = "starting"
  /\ \/ fault' = FALSE /\ flag' = FALSE
     \/ fault' \in {fault, FALSE} /\ flag' = TRUE
  /\ at' = "attempt" /\ program' = "running"
  /\ UNCHANGED <<timing, kind, exit, alive, callback, heard, held>>

(* The directory clears the faults of a service it registers.  The thread  *)
(* goes back to its interval, but not its retry interval.                  *)
DirectoryRegisters ==
  /\ kind = "directory" /\ at = "attempt" /\ ~held
  /\ held' = TRUE /\ fault' = FALSE /\ flag' = FALSE
  /\ ResumeKeepingRetry /\ at' = "waiting"
  /\ UNCHANGED <<owner, heard>>

DirectoryAlreadyExists ==
  /\ kind = "directory" /\ at = "attempt" /\ held
  /\ at' = "update"
  /\ UNCHANGED <<timing, owner, outcomes>>

(* A registration, or an update, that fails triggers the fault. *)
DirectoryFails ==
  /\ kind = "directory" /\ at \in {"attempt", "update"}
  /\ held' \in IF at = "attempt" THEN {held, TRUE} ELSE {held}
  /\ SetFault(TRUE)
  /\ \E action \in Action : Follow(action)
  /\ UNCHANGED <<owner, heard>>

DirectoryUpdates ==
  /\ kind = "directory" /\ at = "update" /\ held
  /\ at' = "clear"
  /\ UNCHANGED <<timing, owner, outcomes>>

(* Mutant: only a fault that is known to be active is cleared. *)
DirectoryClearsKnown ==
  /\ kind = "directory" /\ at = "clear"
  /\ IF flag THEN SetFault(FALSE) ELSE UNCHANGED <<flag, fault>>
  /\ Done
  /\ UNCHANGED <<owner, heard, held>>

(* The fault is cleared whatever the flag says. *)
DirectoryClears ==
  /\ kind = "directory" /\ at = "clear"
  /\ SetFault(FALSE)
  /\ Done
  /\ UNCHANGED <<owner, heard, held>>

-----------------------------------------------------------------------------
(* The program *)

(* The constructors of the other two create the thread; Start of the       *)
(* directory's may be called again after Shutdown, not before.             *)
Create ==
  /\ program = "new"
  /\ CASE kind = "token"     -> /\ at' = "waiting" /\ alive' = TRUE
                                /\ program' = "running"
       [] kind = "payload"   -> /\ at' = "begin" /\ UNCHANGED alive
                                /\ program' = "running"
       [] kind = "directory" -> /\ at' = "unstarted" /\ alive' = TRUE
                                /\ program' = "starting"
  /\ wait' = Interval /\ retry' = Initial
  /\ UNCHANGED <<kind, exit, callback, outcomes>>

StartAgain ==
  /\ kind = "directory" /\ program = "joined"
  /\ at' = "unstarted" /\ alive' = TRUE /\ program' = "starting"
  /\ wait' = Interval /\ retry' = Initial
  /\ UNCHANGED <<kind, exit, callback, outcomes>>

(* Shutdown, Stop: the helper, then the join. *)
Shutdown ==
  /\ program = "running"
  /\ exit' = TRUE /\ program' = "joining"
  /\ UNCHANGED <<at, timing, kind, alive, callback, outcomes>>

Join ==
  /\ program = "joining" /\ at = "ended"
  /\ program' = "joined"
  /\ UNCHANGED <<at, timing, kind, exit, alive, callback, outcomes>>

(* SetTokenRefreshErrorCallback, of Robot and TokenManager, at any time; a *)
(* program that never calls it has an empty callback.                      *)
SetCallback ==
  /\ kind = "token"
  /\ callback' \in BOOLEAN
  /\ UNCHANGED <<at, timing, kind, exit, alive, program, outcomes>>

(* The robot forgets, by a restart or a time-out, or revokes the token ... *)
Lose ==
  /\ held
  /\ held' = FALSE /\ heard' = FALSE
  /\ fault' \in {fault, FALSE}
  /\ UNCHANGED <<at, timing, owner, flag>>

(* ... and the program, when told, authenticates anew. *)
Authenticate ==
  /\ kind = "token" /\ ~held /\ heard
  /\ held' = TRUE
  /\ UNCHANGED <<at, timing, owner, flag, heard, fault>>

-----------------------------------------------------------------------------
PeriodicInit ==
  /\ kind \in Kinds
  /\ at = "none" /\ wait = Interval /\ retry = Initial
  /\ exit = FALSE /\ alive = FALSE /\ program = "new" /\ callback = FALSE
  /\ flag \in BOOLEAN /\ heard = FALSE
  /\ held = (kind = "token")
  /\ fault \in IF kind = "directory" THEN BOOLEAN ELSE {FALSE}

Token   == TokenRenewed \/ TokenFails
Payload == PayloadBegins \/ PayloadRegistered \/ PayloadFails
Directory ==
  \/ DirectoryStarts \/ DirectoryRegisters \/ DirectoryAlreadyExists
  \/ DirectoryFails \/ DirectoryUpdates \/ DirectoryClears

Thread == WaitEnds \/ Leave \/ Token \/ Payload \/ Directory

Program == Create \/ StartAgain \/ Shutdown \/ Join \/ SetCallback \/ Authenticate

PeriodicNext == Thread \/ Program \/ Lose

PeriodicSpec == PeriodicInit /\ [][PeriodicNext]_periodicVars

(* Intervals end and calls return; a call made again and again succeeds    *)
(* again and again, as far as the robot's state allows.                    *)
FairPeriodicSpec ==
  /\ PeriodicSpec
  /\ WF_periodicVars(Thread) /\ WF_periodicVars(Join)
  /\ SF_periodicVars(TokenFails /\ heard')
  /\ SF_periodicVars(PayloadRegistered) /\ SF_periodicVars(DirectoryRegisters)
  /\ SF_periodicVars(DirectoryAlreadyExists) /\ SF_periodicVars(DirectoryUpdates)
  /\ SF_periodicVars(DirectoryClears /\ fault' = FALSE)

-----------------------------------------------------------------------------
(* Is there nobody to tell of a lost token? *)
Deaf == kind = "token" /\ ~callback

(* What the robot has lost, it is told again, or the program hears of it   *)
(* while the thread lives: an expired token, an entry that timed out, each *)
(* behind any number of failed calls and back-offs (token_manager.cpp:47,  *)
(* directory_registration_helpers.cpp:134, docs/cpp_release_notes.md:53).  *)
(* Of a token it hears by a callback that it has registered and not taken  *)
(* back: by default there is none (robot.h:347) and it never hears.        *)
NeverLostUnnoticed ==
  at = "waiting" /\ ~held ~> held \/ heard \/ Deaf \/ at \in {"leaving", "ended"}

(* A registration fault is cleared after the service recovers, even when   *)
(* the answer to the call that triggered it was lost and the keep-alive    *)
(* does not know of it (directory_registration_helpers.cpp:165).           *)
FaultIsCleared ==
  at = "waiting" /\ fault ~> ~fault \/ at \in {"leaving", "ended"}

(* A failing thread backs off by no more than its interval, which is to be *)
(* shorter than the robot's time-out (token_manager.cpp:70).               *)
TriesInTime == wait <= Interval /\ retry <= Interval

(* Shutdown, and with it the destructor, returns: whether the thread has   *)
(* begun, waits, calls, or has already left by itself                      *)
(* (payload_registration_helpers.cpp:45, periodic_thread_helper.cpp:24).   *)
ShutdownReturns == program = "joining" ~> program = "joined"
=============================================================================
