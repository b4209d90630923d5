----------------------------- MODULE ClientCalls -----------------------------
(***************************************************************************)
(* The calls of the service clients (table ClientStubs), from the method   *)
(* that attaches leases to the completion that settles the future, as the  *)
(* processors of leases (lease/lease_processors.h) and of responses        *)
(* (service_client/service_client.h) make them go.  The calls share a      *)
(* wallet, whose AdvanceLease and OnLeaseUseResult take its mutex twice,   *)
(* once to copy an entry and once to store what became of the copy, as in  *)
(* module LeaseWallet.                                                     *)
(*                                                                         *)
(* Threads of the program interleave with each other and with the message  *)
(* pump inside the operations of the wallet, between the leases that a     *)
(* call attaches, and between attaching and sending; completions run on    *)
(* the pump one after the other.  How a call of each kind travels is       *)
(* module StreamCalls; here the robot gets it whole or it fails.           *)
(***************************************************************************)
EXTENDS LeaseOrder, ClientStubs, FiniteSets

CONSTANTS NoLease,   \* as in AtomicLeaseWallet
          Body,      \* kBodyResource
          Calls,     \* the calls that may be under way together
          Chosen,    \* the calls of Rpcs that the program makes
          MaxRoot,   \* bound: leases the robot grants, per resource
          MaxUse,    \* bound: times a lease is advanced, per resource
          MaxChunks, \* bound: requests in a stream of requests
          Lists      \* the lists of resources that callers name

VARIABLES wallet,  \* the wallet that the clients share
          calls,   \* the calls
          held,    \* the copy of an entry that a call is to store anew, if any
          latest,  \* robot: latest known sequence per resource
          holder,  \* robot: does this client own the resource?
          returns, \* the lease auto return was configured with, per resource
          torn     \* history: the leases stored over a change since they were read

vars == <<wallet, calls, held, latest, holder, returns, torn>>
robot == <<latest, holder>>
copies == <<held, torn>>

Wallet == INSTANCE AtomicLeaseWallet WITH Grants <- {}, Answers <- {}

ASSUME CallsAssumption ==
  /\ Body \in Resources
  /\ Chosen \subseteq Rpcs
  /\ \E first \in Epochs : Epochs = {first}
  /\ Lists \subseteq Seq(Resources)
  /\ NoLease \notin Lease
ASSUME BoundsAssumption ==
  /\ MaxRoot \in [Resources -> 0 .. SeqMod - 1]
  /\ MaxUse \in [Resources -> 0 .. SeqMod - 1]
  /\ MaxChunks \in Nat

(* Configure, when AutoReturnClient::Init makes the call. *)
InitReturn == <<"autoReturn", "Configure">>
InitStub   == AutoReturn.Configure

NoRpc == <<"none", "none">>

NoAnswer == [header |-> TRUE, whole |-> TRUE, done |-> FALSE, results |-> <<>>]

Free == [stage |-> "free", rpc |-> NoRpc, stub |-> Reply, todo |-> <<>>, leases |-> <<>>,
         answer |-> NoAnswer, taken |-> 0, outcome |-> "none", lent |-> NoLease]

(* The leases in a request, and those it is still to get, are in use. *)
Concerns(c, r) ==
  /\ calls[c].stage \notin {"free", "settled"}
  /\ \/ \E i \in DOMAIN calls[c].todo : calls[c].todo[i] = r
     \/ \E i \in DOMAIN calls[c].leases : calls[c].leases[i].resource = r

Quiet(r) == ~\E c \in Calls : Concerns(c, r)

Settle(c, outcome) ==
  calls' = [calls EXCEPT ![c].stage = "settled", ![c].outcome = outcome,
                         ![c].leases = <<>>]

Fail(c) ==
  calls' = [calls EXCEPT ![c] = [Free EXCEPT !.stage = "settled",
                                             !.outcome = "failed", !.lent = calls[c].lent]]

-----------------------------------------------------------------------------
(* FooAsync *)

(* The resources a call wants leases for.  A call with one lease asks for  *)
(* the body, a call with many for what the caller names; in a stream of    *)
(* requests every message gets a lease.                                    *)
Wanted(rpc) ==
  LET s == Stub(rpc) IN
  CASE s.lease = "none"     -> {<<>>}
    [] s.kind = "requests"  -> {[i \in 1 .. n |-> Body] : n \in 1 .. MaxChunks}
    [] s.lease = "one"      -> {<<Body>>}
    [] s.lease = "many"     -> Lists

(* The calls the program may make and the leases it may want for each. *)
Plans ==
  UNION {{[rpc |-> rpc, stub |-> Stub(rpc), wanted |-> rs] : rs \in Wanted(rpc)} :
           rpc \in Chosen}

(* A call that neither carries leases nor hears of them reads and writes   *)
(* nothing that another call does.                                         *)
Loner(stub) == stub.lease = "none" /\ stub.result = "none"

(* Bounds: such a call goes by itself, before there are leases, and so     *)
(* does any call once auto return is set up; a settled call is forgotten   *)
(* before the next begins.                                                 *)
Apart(stub) ==
  /\ Loner(stub) => \A r \in Resources : wallet[r] = NoLease
  /\ \A c \in Calls :
       calls[c].stage # "free" =>
         /\ calls[c].stage # "settled" /\ calls[c].lent = NoLease
         /\ ~Loner(stub) /\ ~Loner(calls[c].stub)
         /\ \A r \in Resources : returns[r] = NoLease

(* Bound on the clocks: the calls under way advance at most this far. *)
Claims(r) ==
  Cardinality(UNION {{c} \X {i \in DOMAIN calls[c].todo : calls[c].todo[i] = r} :
                       c \in Calls})

Room(r, n) ==
  Wallet!InWallet(r) =>
    wallet[r].proto.sequence[Len(wallet[r].proto.sequence)] + Claims(r) + n <= MaxUse[r]

Occurrences(rs, r) == Cardinality({i \in DOMAIN rs : rs[i] = r})

Planned(plan) == [Free EXCEPT !.stage = "sending", !.rpc = plan.rpc, !.stub = plan.stub]

GivenLease(stub) == stub.lease = "none" /\ stub.result # "none"

Begin(c, plan) ==
  /\ calls[c].stage = "free" /\ Apart(plan.stub) /\ ~GivenLease(plan.stub)
  /\ \A r \in Resources : Occurrences(plan.wanted, r) > 0 => Room(r, Occurrences(plan.wanted, r))
  /\ calls' = [calls EXCEPT ![c] = [Planned(plan) EXCEPT !.todo = plan.wanted]]
  /\ UNCHANGED <<wallet, robot, returns, copies>>

(* The request already carries a lease: nothing is attached.  The program  *)
(* may do so in any call; RetainLease knows no other way.                  *)
BeginAttached(c, plan) ==
  /\ calls[c].stage = "free" /\ Apart(plan.stub) /\ GivenLease(plan.stub)
  /\ Wallet!InWallet(Body)
  /\ calls' = [calls EXCEPT ![c] =
                 [Planned(plan) EXCEPT !.leases = <<wallet[Body].proto>>]]
  /\ UNCHANGED <<wallet, robot, returns, copies>>

(* What comes before the leases fails: the future is settled at once. *)
PrepareFails(c, plan) ==
  /\ calls[c].stage = "free" /\ Apart(plan.stub)
  /\ plan.stub.prepares
  /\ Fail(c)
  /\ UNCHANGED <<wallet, robot, returns, copies>>

(* The first half of an operation of the wallet: the entry is copied. *)
Copy(c, r) ==
  /\ held' = [held EXCEPT ![c] = wallet[r]]
  /\ UNCHANGED <<wallet, torn>>

(* The second half, whatever the entry has become: what was made of the    *)
(* copy is stored.                                                         *)
Store(c, r, l) ==
  /\ Wallet!AddLease(r, l, FALSE)
  /\ held' = [held EXCEPT ![c] = NoLease]
  /\ torn' = IF wallet[r] = held[c] THEN torn ELSE torn \cup {r}

(* One step of ProcessRequestWithLease, ...WithMultipleLeases: a lease is  *)
(* advanced, in two halves, and attached.                                  *)
AttachRead(c) ==
  LET r == Head(calls[c].todo) IN
  /\ held[c] = NoLease
  /\ Wallet!Owned(r)
  /\ Copy(c, r)
  /\ UNCHANGED calls

Attach(c) ==
  LET advanced == LeaseOf(Increment(held[c].proto)) IN
  /\ held[c] # NoLease
  /\ Store(c, Head(calls[c].todo), advanced)
  /\ calls' = [calls EXCEPT ![c].todo = Tail(@),
                            ![c].leases = Append(@, advanced.proto)]

(* The first lease that cannot be advanced ends the call; those before it  *)
(* stay advanced.                                                          *)
LeaseMissing(c) ==
  /\ held[c] = NoLease
  /\ ~Wallet!Owned(Head(calls[c].todo))
  /\ Fail(c)
  /\ UNCHANGED <<wallet, copies>>

ProcessRequest(c) ==
  /\ calls[c].stage = "sending" /\ calls[c].todo # <<>>
  /\ AttachRead(c) \/ Attach(c) \/ LeaseMissing(c)
  /\ UNCHANGED <<robot, returns>>

(* A call with its leases is initiated at once.  Nobody can tell when: the *)
(* robot serves calls in any order.                                        *)
Initiated(c) == calls[c].stage = "sending" /\ calls[c].todo = <<>>

(* The pump has shut down: it creates no call. *)
Cancelled(c) ==
  /\ Initiated(c)
  /\ Fail(c)
  /\ UNCHANGED <<wallet, robot, returns, copies>>

-----------------------------------------------------------------------------
(* The robot *)

LatestProto(r) ==
  [resource |-> r, epoch |-> CHOOSE e \in Epochs : TRUE, sequence |-> latest[r]]

UseVerdict(p) ==
  IF Compare(p, LatestProto(p.resource)) = "OLDER" THEN "OLDER"
  ELSE IF ~holder[p.resource] THEN "REVOKED"
  ELSE "OK"

(* The leases the robot accepts become the latest it knows of. *)
Accepted(leases, r) ==
  {i \in DOMAIN leases : leases[i].resource = r /\ UseVerdict(leases[i]) = "OK"}

Latest(leases) ==
  [r \in Resources |->
     IF Accepted(leases, r) = {} THEN latest[r]
     ELSE LET last == CHOOSE i \in Accepted(leases, r) :
                        \A j \in Accepted(leases, r) : j <= i
          IN leases[last].sequence]

UseResult(p, known) ==
  [status |-> UseVerdict(p), attempted |-> p,
   latest |-> [LatestProto(p.resource) EXCEPT !.sequence = known[p.resource]]]

(* A response has a result for each lease of a request with several; one   *)
(* result, of a refused lease if there is one, otherwise.                  *)
Results(leases, s) ==
  LET all     == [i \in DOMAIN leases |-> UseResult(leases[i], Latest(leases))]
      refused == {i \in DOMAIN leases : UseVerdict(leases[i]) # "OK"}
  IN IF leases = <<>> THEN {<<>>}
     ELSE IF s.lease = "many" THEN {all}
     ELSE {<<all[i]>> : i \in IF refused = {} THEN {Len(leases)} ELSE refused}

(* The robot carries out a call whose leases it accepts, unless something  *)
(* else is wrong with it, which the response's status says if it has one.  *)
(* Auto return keeps the lease it is given for later.                      *)
Serve(c) ==
  LET leases == calls[c].leases  s == calls[c].stub
      refused == \E i \in DOMAIN leases : UseVerdict(leases[i]) # "OK"
  IN /\ Initiated(c)
     /\ \E results \in Results(leases, s), done \in BOOLEAN, whole \in BOOLEAN :
          /\ refused => ~done
          /\ ~refused /\ s.verdict = "absent" => done
          /\ ~whole => s.kind \in {"responses", "chunksBothWays"}
          /\ calls' = [calls EXCEPT ![c].stage = "answered",
                         ![c].answer = [header |-> TRUE, whole |-> whole,
                                        done |-> done, results |-> results]]
     /\ latest' = IF calls[c].rpc = InitReturn THEN latest ELSE Latest(leases)
     /\ UNCHANGED <<wallet, holder, returns, copies>>

(* The header of the response tells of an error: nothing was done. *)
Reject(c) ==
  /\ Initiated(c)
  /\ calls' = [calls EXCEPT ![c].stage = "answered", ![c].answer.header = FALSE]
  /\ UNCHANGED <<wallet, robot, returns, copies>>

Grant(r) == [LatestProto(r) EXCEPT !.sequence = <<latest[r][1] + 1>>]

OtherTakes(r) ==
  /\ latest[r][1] < MaxRoot[r]
  /\ latest' = [latest EXCEPT ![r] = Grant(r).sequence]
  /\ holder' = [holder EXCEPT ![r] = FALSE]
  /\ UNCHANGED <<wallet, calls, returns, copies>>

(* The lease goes stale. *)
Release(r) ==
  /\ holder[r]
  /\ holder' = [holder EXCEPT ![r] = FALSE]
  /\ UNCHANGED <<wallet, calls, latest, returns, copies>>

(* Communication is lost and the robot walks back with its own lease. *)
RobotReturns(r) ==
  /\ returns[r] # NoLease
  /\ UseVerdict(returns[r].proto) = "OK"
  /\ latest' = [latest EXCEPT ![r] = returns[r].proto.sequence]
  /\ UNCHANGED <<wallet, calls, holder, returns, copies>>

-----------------------------------------------------------------------------
(* OnFooComplete *)

(* The completion has begun to take results in. *)
Completing(c) == calls[c].stage = "answered" /\ (calls[c].taken > 0 \/ held[c] # NoLease)

RpcFails(c) ==
  /\ Initiated(c) \/ calls[c].stage = "answered"
  /\ ~Completing(c)
  /\ Fail(c)
  /\ UNCHANGED <<wallet, robot, returns, copies>>

(* The results that the completion passes to the wallet. *)
Passed(c) == IF calls[c].stub.result = "none" THEN <<>> ELSE calls[c].answer.results

(* The pump runs one completion at a time. *)
PumpIdle(c) == \A d \in Calls \ {c} : ~Completing(d)

(* Mutant: the error in the header is not looked for. *)
AcceptsAnyHeader(c) ==
  PumpIdle(c) /\ calls[c].stage = "answered" /\ calls[c].answer.whole

(* RunOnlyResponseProcessors lets the response through, whose parts join.  *)
Accepts(c) ==
  /\ PumpIdle(c)
  /\ calls[c].stage = "answered"
  /\ calls[c].answer.header /\ calls[c].answer.whole

BadResponse(c) ==
  /\ PumpIdle(c)
  /\ calls[c].stage = "answered" /\ ~Accepts(c)
  /\ Fail(c)
  /\ UNCHANGED <<wallet, robot, returns, copies>>

(* ProcessResponseWithLeaseUseResult, ProcessResponseForMultipleLease: the *)
(* result that is next is taken in, in two halves.  The entry is there: no *)
(* lease leaves this wallet (LeaseSystem returns leases).                  *)
NextResult(c) == Passed(c)[calls[c].taken + 1]

TakesNext(c) ==
  Accepts(c) /\ calls[c].taken < Len(Passed(c)) /\ UNCHANGED <<robot, returns>>

TakeRead(c) ==
  LET r == NextResult(c).attempted.resource IN
  /\ TakesNext(c)
  /\ held[c] = NoLease
  /\ Wallet!InWallet(r)
  /\ Copy(c, r)
  /\ UNCHANGED calls

(* Mutant: a failed use ends the loop over the results. *)
StopAtRefusal(c) ==
  LET result == NextResult(c) IN
  /\ TakesNext(c)
  /\ held[c] # NoLease
  /\ Store(c, result.attempted.resource, UpdateFromLeaseUseResult(held[c], result))
  /\ calls' = [calls EXCEPT ![c].taken =
                 IF result.status = "OK" THEN @ + 1 ELSE Len(Passed(c))]

TakeResult(c) ==
  LET result == NextResult(c) IN
  /\ TakesNext(c)
  /\ held[c] # NoLease
  /\ Store(c, result.attempted.resource, UpdateFromLeaseUseResult(held[c], result))
  /\ calls' = [calls EXCEPT ![c].taken = @ + 1]

LeaseRefused(c) == \E i \in DOMAIN Passed(c) : Passed(c)[i].status # "OK"

StatusBad(c) ==
  calls[c].stub.verdict \in {"checked", "items"} /\ ~calls[c].answer.done

SettleFuture(c) ==
  /\ Accepts(c) /\ calls[c].taken = Len(Passed(c))
  /\ Settle(c, IF LeaseRefused(c) THEN "leaseUse"
               ELSE IF StatusBad(c) THEN "status" ELSE "ok")
  /\ UNCHANGED <<wallet, robot, returns, copies>>

Forget(c) ==
  /\ calls[c].stage = "settled" /\ calls[c].lent = NoLease
  /\ calls' = [calls EXCEPT ![c] = Free]
  /\ UNCHANGED <<wallet, robot, returns, copies>>

-----------------------------------------------------------------------------
(* The program acquires a lease again; it has awaited its calls. *)
Acquire(r) ==
  /\ ~Wallet!Owned(r) /\ Quiet(r)
  /\ latest[r][1] < MaxRoot[r]
  /\ latest' = [latest EXCEPT ![r] = Grant(r).sequence]
  /\ holder' = [holder EXCEPT ![r] = TRUE]
  /\ Wallet!AddLease(r, LeaseOf(Grant(r)), TRUE)
  /\ torn' = torn \ {r}
  /\ UNCHANGED <<calls, held, returns>>

(* AutoReturnClient::Init lends the robot the successor of a lease; the    *)
(* program sets auto return up before it makes other calls ...             *)
BeginInit(c, r) ==
  /\ calls[c].stage = "free"
  /\ \A d \in Calls : calls[d].stage = "free"
  /\ Wallet!Owned(r) /\ Room(r, 1)
  /\ Len(wallet[r].proto.sequence) = 2
  /\ calls' = [calls EXCEPT ![c] =
                 [Free EXCEPT !.stage = "sending", !.rpc = InitReturn,
                              !.stub = InitStub,
                              !.leases = <<Increment(wallet[r].proto)>>,
                              !.lent = wallet[r]]]
  /\ UNCHANGED <<wallet, robot, returns, copies>>

(* Mutant: the program keeps the lease itself for its commands. *)
KeepLease(c) ==
  LET l == calls[c].lent IN
  /\ l # NoLease
  /\ calls[c].stage = "settled" /\ calls[c].outcome = "ok"
  /\ Wallet!AddLease(l.proto.resource, l, FALSE)
  /\ returns' = [returns EXCEPT ![l.proto.resource] = LeaseOf(Increment(l.proto))]
  /\ calls' = [calls EXCEPT ![c] = Free]
  /\ UNCHANGED <<robot, copies>>

(* ... and, once it has it, keeps a sublease of the lease for commands.    *)
EndInit(c) ==
  LET l == calls[c].lent IN
  /\ l # NoLease
  /\ calls[c].stage = "settled" /\ calls[c].outcome = "ok"
  /\ Wallet!AddLease(l.proto.resource, l, TRUE)
  /\ returns' = [returns EXCEPT ![l.proto.resource] = LeaseOf(Increment(l.proto))]
  /\ calls' = [calls EXCEPT ![c] = Free]
  /\ UNCHANGED <<robot, copies>>

InitFails(c) ==
  /\ calls[c].lent # NoLease
  /\ calls[c].stage = "settled" /\ calls[c].outcome # "ok"
  /\ calls' = [calls EXCEPT ![c] = Free]
  /\ UNCHANGED <<wallet, robot, returns, copies>>

-----------------------------------------------------------------------------
Init ==
  /\ wallet = [r \in Resources |-> NoLease]
  /\ calls = [c \in Calls |-> Free]
  /\ held = [c \in Calls |-> NoLease]
  /\ latest = [r \in Resources |-> <<0>>]
  /\ holder = [r \in Resources |-> FALSE]
  /\ returns = [r \in Resources |-> NoLease]
  /\ torn = {}

Start(c) ==
  \/ \E plan \in Plans :
       Begin(c, plan) \/ BeginAttached(c, plan) \/ PrepareFails(c, plan)
  \/ \E r \in Resources : BeginInit(c, r)

Program ==
  \/ \E c \in Calls : Start(c) \/ Forget(c)
  \/ \E c \in Calls : ProcessRequest(c) \/ Cancelled(c)
  \/ \E c \in Calls : EndInit(c) \/ InitFails(c)
  \/ \E r \in Resources : Acquire(r)

Robot ==
  \/ \E c \in Calls : Serve(c) \/ Reject(c)
  \/ \E r \in Resources : OtherTakes(r) \/ Release(r) \/ RobotReturns(r)

Pump(c) ==
  \/ RpcFails(c) \/ BadResponse(c) \/ SettleFuture(c)
  \/ TakeRead(c) \/ TakeResult(c)

Next == Program \/ Robot \/ \E c \in Calls : Pump(c)

Spec == Init /\ [][Next]_vars

-----------------------------------------------------------------------------
(* The calls whose response can say no to a completion that does not look. *)
Ignoring ==
  {<<"autoReturn", "Start">>, <<"keepalive", "CheckIn">>,
   <<"mission", "AnswerQuestion">>, <<"graphNav", "CreateEdge">>,
   <<"graphNav", "UploadSnapshots">>}

(* A call that reports success was carried out by the robot, with every    *)
(* lease it carried accepted, whichever of several was refused and         *)
(* wherever its answer went wrong; the calls that ignore their status      *)
(* excepted (service_client.h:705, lease_processors.h:118).                *)
OkMeansDone ==
  \A c \in Calls :
    calls[c].outcome = "ok" /\ calls[c].rpc \notin Ignoring => calls[c].answer.done

(* The calls whose lease use results never reach the wallet. *)
Deaf == {<<"graphNav", "UploadGraphStreaming">>, <<"autoReturn", "Configure">>}

(* A lease that the wallet holds as owned though a result speaks against   *)
(* it, which the completion of the call has passed to the wallet.          *)
Forgotten(c, i) ==
  LET result == calls[c].answer.results[i]
      r      == result.attempted.resource
  IN /\ Wallet!Owned(r)
     /\ UpdateFromLeaseUseResult(wallet[r], result) # wallet[r]

Answered(c) ==
  calls[c].outcome \in {"ok", "leaseUse", "status"} /\ calls[c].rpc \notin Deaf

(* What the robot said of a lease stays known: once a call has settled on  *)
(* an answer, the wallet holds no lease as owned that one of its results   *)
(* speaks against, whatever other calls have done to the wallet meanwhile, *)
(* unless an operation of the wallet has stored, since the lease was       *)
(* acquired, what it made of a copy that was out of date                   *)
(* (lease_processors.h:100, lease.cpp:199, lease_wallet.cpp:139).          *)
ResultsTakenIn ==
  \A c \in Calls :
    Answered(c) =>
      \A i \in DOMAIN calls[c].answer.results :
        Forgotten(c, i) => calls[c].answer.results[i].attempted.resource \in torn

(* The same without the exception, which the wallet does not promise: a    *)
(* request that was being given a lease stores it as owned over the mark   *)
(* of a result (lease_wallet.cpp:139, 155).                                *)
NothingForgotten ==
  \A c \in Calls :
    Answered(c) => \A i \in DOMAIN calls[c].answer.results : ~Forgotten(c, i)

(* The lease that auto return was configured with is newer than any the    *)
(* program can use until it acquires anew, so that the robot can always    *)
(* take over (auto_return_client.h:69).                                    *)
ReturnOutranks ==
  \A r \in Resources :
    returns[r] # NoLease /\ Wallet!InWallet(r) =>
      \/ Compare(wallet[r].proto, returns[r].proto) = "OLDER"
      \/ wallet[r].proto.sequence[1] > returns[r].proto.sequence[1]
=============================================================================
