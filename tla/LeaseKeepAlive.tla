--------------------------- MODULE LeaseKeepAlive ---------------------------
(***************************************************************************)
(* The lease keep-alive: a thread that retains the wallet's lease for one  *)
(* resource over and over, so that the robot does not take its holder for  *)
(* lost, and calls a function of the program when that fails               *)
(* (src/cpp/bosdyn/client/lease/lease_keepalive.{h,cpp}).                  *)
(*                                                                         *)
(* The wallet is the atomic one: the program issues its commands, takes    *)
(* and returns the lease on another thread.  Time passes in ticks, and     *)
(* never while the thread has something to do that takes no time.          *)
(***************************************************************************)
EXTENDS LeaseOrder

CONSTANTS NoLease,
          resource,      \* m_resource
          Interval,      \* m_rpc_interval, in ticks
          RpcTime,       \* the time a RetainLease call may take
          CallbackTime,  \* the time the program's function may take
          MaxLost,       \* bound: calls that fail with an RPC error
          MaxRoot,       \* bound: leases the robot grants
          MaxUse         \* bound: commands issued with one lease

ASSUME ResourceAssumption == resource \in Resources
ASSUME NoLeaseAssumption == NoLease \notin Lease
ASSUME TimeAssumption ==
  /\ Interval \in Nat /\ RpcTime \in Nat /\ CallbackTime \in Nat
  /\ MaxLost \in Nat
  /\ MaxRoot \in 1 .. SeqMod - 1 /\ MaxUse \in 0 .. SeqMod - 1
  /\ Epochs = {0}

VARIABLES wallet,
          alive,    \* m_thread_is_alive
          at,       \* where the thread is
          call,     \* its RetainLease call
          elapsed,  \* ticks since exec_start_ns
          latest,   \* robot: latest known sequence
          holder,   \* robot: who owns the resource
          unheard,  \* robot: ticks since its holder last used the lease
          lost,     \* the calls that failed so far
          crossed   \* has a check-in with an earlier lease reached the robot
                    \* since it granted the wallet's?

Wallet == INSTANCE AtomicLeaseWallet WITH Grants <- {}, Answers <- {}

robot == <<latest, holder, unheard>>
vars == <<wallet, alive, at, call, elapsed, latest, holder, unheard, lost, crossed>>


At == {"head", "look", "await", "report", "waiting", "ended"}

Message(s) == [resource |-> resource, epoch |-> 0, sequence |-> s]

NoRequest == [at |-> "none", proto |-> Message(<<0>>),
              status |-> "PENDING", latest |-> Message(<<0>>)]

Longer(m, n) == IF m < n THEN n ELSE m

(* How long the robot may have to wait for a check-in. *)
OnTime == Longer(Interval, RpcTime + CallbackTime) + RpcTime

-----------------------------------------------------------------------------
(* The thread: PeriodicCheckIn *)

(* Mutant: the loop never ends. *)
LoopForever ==
  /\ at = "head"
  /\ at' = "look" /\ elapsed' = 0
  /\ UNCHANGED <<wallet, alive, call, robot, lost, crossed>>

Loop ==
  /\ at = "head"
  /\ IF alive THEN at' = "look" /\ elapsed' = 0
              ELSE at' = "ended" /\ UNCHANGED elapsed
  /\ UNCHANGED <<wallet, alive, call, robot, lost, crossed>>

(* GetLease, and RetainLeaseAsync or the report that there is no lease. *)
Look ==
  /\ at = "look"
  /\ IF Wallet!InWallet(resource)
     THEN /\ at' = "await"
          /\ call' = [NoRequest EXCEPT !.at = "sent", !.proto = wallet[resource].proto]
     ELSE /\ at' = "report"
          /\ call' = NoRequest
  /\ UNCHANGED <<wallet, alive, elapsed, robot, lost, crossed>>

(* The wait for the future is left every 100 ms to see to a stop. *)
GiveUp ==
  /\ at = "await"
  /\ call.at # "done"
  /\ ~alive
  /\ at' = "ended"
  /\ UNCHANGED <<wallet, alive, call, elapsed, robot, lost, crossed>>

Failed == call.status # "OK"

(* Mutant: every failure is reported, a late answer's too. *)
JudgeAnswerOnly ==
  /\ at = "await"
  /\ call.at = "done"
  /\ at' = IF Failed THEN "report" ELSE "waiting"
  /\ UNCHANGED <<wallet, alive, call, elapsed, robot, lost, crossed>>

(* Mutant: a failure is reported while the lease is owned. *)
JudgeWhileOwned ==
  /\ at = "await"
  /\ call.at = "done"
  /\ at' = IF Failed /\ Wallet!Owned(resource) THEN "report" ELSE "waiting"
  /\ UNCHANGED <<wallet, alive, call, elapsed, robot, lost, crossed>>

(* Mutant: the thread waits for an interval after the check-in. *)
JudgeAndWaitFromNow ==
  /\ at = "await"
  /\ call.at = "done"
  /\ at' = IF Failed /\ ~Wallet!Owned(resource) THEN "report" ELSE "waiting"
  /\ elapsed' = 0
  /\ UNCHANGED <<wallet, alive, call, robot, lost, crossed>>

Judge ==
  /\ at = "await"
  /\ call.at = "done"
  /\ at' = IF Failed /\ ~Wallet!Owned(resource) THEN "report" ELSE "waiting"
  /\ UNCHANGED <<wallet, alive, call, elapsed, robot, lost, crossed>>

(* The program's function, which may stop the thread, has returned. *)
Report ==
  /\ at = "report"
  /\ at' = "waiting"
  /\ alive' \in {alive, FALSE}
  /\ UNCHANGED <<wallet, call, elapsed, robot, lost, crossed>>

(* wait_for has no predicate: it returns in time, or spuriously before. *)
WakeUp ==
  /\ at = "waiting"
  /\ at' = "head"
  /\ UNCHANGED <<wallet, alive, call, elapsed, robot, lost, crossed>>

-----------------------------------------------------------------------------
(* The robot and the answer *)

Verdict(p) ==
  IF Compare(p, Message(latest)) = "OLDER" THEN "OLDER"
  ELSE IF holder = "nobody" THEN "REVOKED" ELSE "OK"

(* Is the check-in that arrives one with an earlier lease than the wallet's? *)
Overtaken ==
  /\ Wallet!InWallet(resource)
  /\ call.proto.sequence[1] < wallet[resource].proto.sequence[1]

Serve ==
  /\ call.at = "sent"
  /\ call' = [call EXCEPT !.at = "served", !.status = Verdict(call.proto),
                          !.latest = Message(latest)]
  /\ unheard' = IF Verdict(call.proto) = "OK" THEN 0 ELSE unheard
  /\ crossed' = (crossed \/ Overtaken)
  /\ UNCHANGED <<wallet, alive, at, elapsed, latest, holder, lost>>

(* OnRetainLeaseComplete, on the message pump *)
OnRetainLeaseComplete ==
  /\ call.at = "served"
  /\ call' = [call EXCEPT !.at = "done"]
  /\ \/ Wallet!OnLeaseUseResult([status    |-> call.status,
                                 attempted |-> call.proto,
                                 latest    |-> call.latest])
     \/ ~Wallet!InWallet(resource) /\ UNCHANGED wallet
  /\ UNCHANGED <<alive, at, elapsed, robot, lost, crossed>>

(* The network fails, or the answer comes too late. *)
RpcError ==
  /\ lost < MaxLost
  /\ lost' = lost + 1
  /\ call.at \in {"sent", "served"}
  /\ call' = [call EXCEPT !.at = "done", !.status = "RPC_ERROR"]
  /\ UNCHANGED <<wallet, alive, at, elapsed, robot, crossed>>

-----------------------------------------------------------------------------
(* The program's other threads, and other clients *)

(* SetLease, whatever has become of the check-ins with an earlier lease *)
TakeLease ==
  /\ latest[1] < MaxRoot
  /\ latest' = <<latest[1] + 1>>
  /\ holder' = "us"
  /\ unheard' = 0
  /\ Wallet!AddLease(resource, LeaseOf(Message(latest')), TRUE)
  /\ crossed' = FALSE
  /\ UNCHANGED <<alive, at, call, elapsed, lost>>

(* A command is sent with an advanced lease, served and answered.  Like a  *)
(* check-in it keeps the lease from going stale (lease.proto:268).         *)
Command ==
  LET next == Increment(wallet[resource].proto)
      result == [status |-> Verdict(next), attempted |-> next, latest |-> Message(latest')]
  IN
  /\ Wallet!Owned(resource)
  /\ wallet[resource].proto.sequence[2] < MaxUse
  /\ latest' = IF Verdict(next) = "OK" THEN next.sequence ELSE latest
  /\ unheard' = IF Verdict(next) = "OK" THEN 0 ELSE unheard
  /\ Wallet!Put(resource, UpdateFromLeaseUseResult(LeaseOf(next), result))
  /\ UNCHANGED <<alive, at, call, elapsed, holder, lost, crossed>>

ReturnLease ==
  /\ Wallet!InWallet(resource)
  /\ Wallet!RemoveLease(resource)
  /\ holder' = IF Verdict(wallet[resource].proto) = "OK" THEN "nobody" ELSE holder
  /\ UNCHANGED <<alive, at, call, elapsed, latest, unheard, lost, crossed>>

(* The signal reaches the thread only while it waits. *)
StopKeepAliveThread ==
  /\ alive
  /\ alive' = FALSE
  /\ at' = IF at = "waiting" THEN "head" ELSE at
  /\ UNCHANGED <<wallet, call, elapsed, robot, lost, crossed>>

OtherTakes ==
  /\ latest[1] < MaxRoot
  /\ latest' = <<latest[1] + 1>>
  /\ holder' = "other"
  /\ UNCHANGED <<wallet, alive, at, call, elapsed, unheard, lost, crossed>>

Release ==
  /\ holder # "nobody"
  /\ holder' = "nobody"
  /\ UNCHANGED <<wallet, alive, at, call, elapsed, latest, unheard, lost, crossed>>

-----------------------------------------------------------------------------
Tick ==
  /\ \/ at = "await" /\ call.at # "done" /\ elapsed < RpcTime
     \/ at = "report" /\ elapsed < RpcTime + CallbackTime
     \/ at = "waiting" /\ elapsed < Interval
  /\ elapsed' = elapsed + 1
  /\ unheard' = IF holder = "us" /\ unheard <= OnTime THEN unheard + 1 ELSE unheard
  /\ UNCHANGED <<wallet, alive, at, call, latest, holder, lost, crossed>>

Init ==
  /\ wallet = [r \in Resources |-> NoLease]
  /\ alive = TRUE
  /\ at = "head"
  /\ call = NoRequest
  /\ elapsed = 0
  /\ latest = <<0>> /\ holder = "nobody" /\ unheard = 0
  /\ lost = 0 /\ crossed = FALSE

KeepAliveThread == Loop \/ Look \/ GiveUp \/ Judge \/ Report \/ WakeUp

Program == TakeLease \/ Command \/ ReturnLease \/ StopKeepAliveThread

Next ==
  \/ KeepAliveThread
  \/ Serve \/ OnRetainLeaseComplete \/ RpcError
  \/ Program
  \/ OtherTakes \/ Release
  \/ Tick

Spec == Init /\ [][Next]_vars

(* The thread runs, and a call is served and answered unless it fails.     *)
(* Nothing makes the program or the other clients do anything.             *)
FairSpec ==
  /\ Spec
  /\ WF_vars(KeepAliveThread)
  /\ WF_vars(Serve)
  /\ WF_vars(OnRetainLeaseComplete)

-----------------------------------------------------------------------------
TypeOK ==
  /\ wallet \in [Resources -> Lease \cup {NoLease}]
  /\ alive \in BOOLEAN
  /\ at \in At
  /\ call \in [at     : {"none", "sent", "served", "done"},
               proto  : LeaseProto,
               status : UseStatus \cup {"PENDING", "RPC_ERROR"},
               latest : LeaseProto]
  /\ elapsed \in 0 .. Longer(Interval, RpcTime + CallbackTime)
  /\ latest \in Seq(SeqNumber) \ {<<>>}
  /\ holder \in {"us", "other", "nobody"}
  /\ unheard \in 0 .. OnTime + 1
  /\ lost \in 0 .. MaxLost
  /\ crossed \in BOOLEAN

(* While the thread runs and calls get through, the robot hears from its   *)
(* holder at a steady pace: the time a check-in takes is deducted from the *)
(* time to the next, and a check-in that is refused because a command has  *)
(* overtaken it does no harm (lease_keepalive.cpp:57, :87).                *)
ChecksInOnTime == lost = 0 /\ alive /\ holder = "us" => unheard <= OnTime

(* The robot does not regard the program as the holder of its lease. *)
Dispossessed ==
  \/ holder # "us"
  \/ ~Wallet!InWallet(resource)
  \/ wallet[resource].proto.sequence[1] < latest[1]

(* The program is told that retaining its lease failed only when the robot *)
(* does not regard it as the holder of that lease: a late refusal of an    *)
(* older lease is no alarm (lease_keepalive.cpp:72).  One case is: a lease *)
(* taken again while a check-in with the earlier one was on its way to the *)
(* robot, which refuses it with the bare new grant as its latest; to that  *)
(* the wallet's sublease is neither NEWER nor the SAME (lease.cpp:205).    *)
NoFalseAlarm ==
  [][at = "await" /\ at' = "report" =>
       \/ Dispossessed
       \/ crossed]_vars

(* Without the exception it does not hold. *)
AlarmsOnlyOfLoss == [][at = "await" /\ at' = "report" => Dispossessed]_vars

(* If the robot stops regarding the program as the holder, the program is  *)
(* told, unless it stops the thread or takes the lease again               *)
(* (lease_keepalive.cpp:72, lease_keepalive.cpp:80).                       *)
LossIsReported ==
  alive /\ holder # "us" ~> at = "report" \/ ~alive \/ holder = "us"

(* A thread that is stopped ends: the destructor can join it               *)
(* (lease_keepalive.cpp:40, lease_keepalive.cpp:50).                       *)
StopEndsThread == ~alive ~> at = "ended"
=============================================================================
