----------------------------- MODULE LeaseSystem -----------------------------
(***************************************************************************)
(* A client and the robot's lease service: the wallet of module            *)
(* LeaseWallet, the calls of LeaseClient and of the clients that attach a  *)
(* lease to a request, the network between them, and the robot.            *)
(*                                                                         *)
(* Calls are independent unary RPCs: the robot serves them in any order,   *)
(* their answers come back in any order, a call may expire whatever became *)
(* of it, and the request of an expired call may still reach the robot.    *)
(* Completions run on the message pump, one at a time.                     *)
(***************************************************************************)
EXTENDS LeaseWallet

CONSTANTS Pump,     \* the thread that runs the completion callbacks
          Calls,    \* identities of the calls that may be outstanding
          MaxRoot,  \* bound: leases the robot grants in one epoch
          MaxUse    \* bound: times one lease is advanced

ASSUME PumpAssumption  == Pump \in Threads
ASSUME BoundAssumption ==
  /\ MaxRoot \in Nat /\ MaxRoot < SeqMod
  /\ MaxUse \in Nat /\ MaxUse < SeqMod
  /\ \E last \in Epochs : last \in Nat /\ Epochs = 0 .. last

VARIABLES calls,    \* the outstanding calls
          epoch,    \* robot: drawn when the lease service starts
          latest,   \* robot: latest known sequence per resource
          holder,   \* robot: who owns each resource
          granted,  \* history: the leases the robot granted this client
          issued    \* history: the last lease AdvanceLease returned

robot == <<epoch, latest, holder, granted>>
sysVars == <<wallet, op, calls, epoch, latest, holder, granted, issued>>

LeaseKind == {"acquire", "take", "return"}

Nothing == [resource |-> NoResource, epoch |-> 0, sequence |-> <<>>]

Free == [kind |-> "none", waiting |-> FALSE, proto |-> Nothing,
         status |-> "PENDING", latest |-> Nothing]

Call == [kind    : LeaseKind \cup {"none", "use"},
         waiting : BOOLEAN,        \* has the call not completed yet?
         proto   : LeaseProto,     \* the lease, or only the resource
         status  : UseStatus \cup {"PENDING", "REFUSED"},
         latest  : LeaseProto]

Send(c, kind, p) ==
  /\ calls[c] = Free
  /\ calls' = [calls EXCEPT ![c] = [Free EXCEPT !.kind = kind,
                                                !.waiting = TRUE,
                                                !.proto = p]]

Outstanding(kinds, r) ==
  \E c \in Calls :
    calls[c].waiting /\ calls[c].kind \in kinds /\ calls[c].proto.resource = r

(* A program that keeps operations apart also has at most one of the calls *)
(* that add or remove a lease under way per resource.                      *)
MaySettle(r) == Overlap \/ ~Outstanding(LeaseKind, r)

-----------------------------------------------------------------------------
(* The program's threads *)

RequestLease(c, kind, r) ==
  /\ kind \in {"acquire", "take"}
  /\ MaySettle(r)
  /\ Send(c, kind, [Nothing EXCEPT !.resource = r])
  /\ UNCHANGED <<wallet, op, robot, issued>>

(* ProcessRequestWithLease attaches an advanced lease to a request ... *)
BeginUse(t, r) ==
  /\ t # Pump
  /\ Atomic!Owned(r) =>
       wallet[r].proto.sequence[Len(wallet[r].proto.sequence)] < MaxUse
  /\ AdvanceRead(t, r)
  /\ UNCHANGED <<calls, robot, issued>>

(* ... which is then sent. *)
EndUse(t, c) ==
  /\ op[t].kind = "advance"
  /\ Write(t)
  /\ Send(c, "use", op[t].lease.proto)
  /\ issued' = [issued EXCEPT ![op[t].resource] = op[t].lease]
  /\ UNCHANGED robot

(* RetainLease and ReturnLease send the wallet's lease as it is, owned or  *)
(* not; a request that already carries its lease is not given another.     *)
SendAsIs(c, kind, r) ==
  /\ kind \in {"use", "return"}
  /\ kind = "return" => MaySettle(r)
  /\ Atomic!InWallet(r)
  /\ Send(c, kind, wallet[r].proto)
  /\ UNCHANGED <<wallet, op, robot, issued>>

-----------------------------------------------------------------------------
(* The robot, and the other clients it serves *)

LatestProto(r) == [resource |-> r, epoch |-> epoch, sequence |-> latest[r]]

Grant(r) == [resource |-> r, epoch |-> epoch, sequence |-> <<latest[r][1] + 1>>]

Answer(c, status, p) ==
  calls' = [calls EXCEPT ![c] =
              IF calls[c].waiting
              THEN [@ EXCEPT !.status = status, !.latest = p]
              ELSE Free]

ServeAcquire(c) ==
  LET r == calls[c].proto.resource IN
  /\ calls[c].kind \in {"acquire", "take"} /\ calls[c].status = "PENDING"
  /\ UNCHANGED <<wallet, op, epoch, issued>>
  /\ \/ /\ calls[c].kind = "acquire" /\ holder[r] # "nobody"
        /\ Answer(c, "REFUSED", Nothing)
        /\ UNCHANGED <<latest, holder, granted>>
     \/ /\ calls[c].kind = "take" \/ holder[r] = "nobody"
        /\ latest[r][1] < MaxRoot
        /\ latest' = [latest EXCEPT ![r] = Grant(r).sequence]
        /\ holder' = [holder EXCEPT ![r] = "us"]
        /\ granted' = granted \cup {Grant(r)}
        /\ Answer(c, "OK", Grant(r))

UseVerdict(p) ==
  IF p.epoch # epoch THEN "WRONG_EPOCH"
  ELSE IF Compare(p, LatestProto(p.resource)) = "OLDER" THEN "OLDER"
  ELSE IF holder[p.resource] = "nobody" THEN "REVOKED"
  ELSE "OK"

ServeUse(c) ==
  LET p == calls[c].proto IN
  /\ calls[c].kind = "use" /\ calls[c].status = "PENDING"
  /\ latest' = IF UseVerdict(p) = "OK"
               THEN [latest EXCEPT ![p.resource] = p.sequence] ELSE latest
  /\ Answer(c, UseVerdict(p),
            [LatestProto(p.resource) EXCEPT !.sequence = latest'[p.resource]])
  /\ UNCHANGED <<wallet, op, epoch, holder, granted, issued>>

ServeReturn(c) ==
  LET p == calls[c].proto IN
  /\ calls[c].kind = "return" /\ calls[c].status = "PENDING"
  /\ holder' = IF UseVerdict(p) = "OK"
               THEN [holder EXCEPT ![p.resource] = "nobody"] ELSE holder
  /\ Answer(c, IF UseVerdict(p) = "OK" THEN "OK" ELSE "REFUSED", Nothing)
  /\ UNCHANGED <<wallet, op, epoch, latest, granted, issued>>

OtherTakes(r) ==
  /\ latest[r][1] < MaxRoot
  /\ latest' = [latest EXCEPT ![r] = Grant(r).sequence]
  /\ holder' = [holder EXCEPT ![r] = "other"]
  /\ UNCHANGED <<wallet, op, calls, epoch, granted, issued>>

(* The holder did not check in and its lease went stale, or an other       *)
(* client returned its lease.                                              *)
Release(r) ==
  /\ holder[r] # "nobody"
  /\ holder' = [holder EXCEPT ![r] = "nobody"]
  /\ UNCHANGED <<wallet, op, calls, epoch, latest, granted, issued>>

Restart ==
  /\ epoch + 1 \in Epochs
  /\ epoch' = epoch + 1
  /\ latest' = [r \in Resources |-> <<0>>]
  /\ holder' = [r \in Resources |-> "nobody"]
  /\ UNCHANGED <<wallet, op, calls, granted, issued>>

-----------------------------------------------------------------------------
(* Completions, on the message pump *)

Finish(c) == calls' = [calls EXCEPT ![c] = Free]

Completes(c, kinds) ==
  /\ ~Busy(Pump)
  /\ calls[c].waiting
  /\ calls[c].kind \in kinds

(* OnAcquireLeaseComplete, OnTakeLeaseComplete *)
OnAcquireComplete(c) ==
  /\ Completes(c, {"acquire", "take"})
  /\ calls[c].status = "OK"
  /\ AddLease(calls[c].proto.resource, LeaseOf(calls[c].latest), TRUE)
  /\ Finish(c)
  /\ UNCHANGED <<robot, issued>>

OnAcquireRefused(c) ==
  /\ Completes(c, {"acquire", "take"})
  /\ calls[c].status = "REFUSED"
  /\ Finish(c)
  /\ UNCHANGED <<wallet, op, robot, issued>>

OnReturnLeaseComplete(c) ==
  /\ Completes(c, {"return"})
  /\ calls[c].status # "PENDING"
  /\ RemoveLease(calls[c].proto.resource)
  /\ Finish(c)
  /\ UNCHANGED <<robot, issued>>

UseResult(c) == [status    |-> calls[c].status,
                 attempted |-> calls[c].proto,
                 latest    |-> calls[c].latest]

(* ProcessResponseWithLeaseUseResult passes the result to the wallet; it   *)
(* ignores the error of a wallet that has lost the resource.               *)
OnUseComplete(c) ==
  /\ Completes(c, {"use"})
  /\ calls[c].status # "PENDING"
  /\ Finish(c)
  /\ UNCHANGED <<robot, issued>>
  /\ \/ UpdateRead(Pump, UseResult(c))
     \/ /\ ~Atomic!InWallet(calls[c].proto.resource)
        /\ UNCHANGED <<wallet, op>>

EndUpdate ==
  /\ Write(Pump)
  /\ UNCHANGED <<calls, robot, issued>>

(* The call fails with a gRPC error, served or not: only a return changes  *)
(* the wallet.  A request that was not served may still be under way.      *)
Expire(c) ==
  /\ Completes(c, LeaseKind \cup {"use"})
  /\ calls' = [calls EXCEPT ![c] = IF @.status = "PENDING"
                                   THEN [@ EXCEPT !.waiting = FALSE]
                                   ELSE Free]
  /\ IF calls[c].kind = "return"
     THEN RemoveLease(calls[c].proto.resource)
     ELSE UNCHANGED <<wallet, op>>
  /\ UNCHANGED <<robot, issued>>

Lose(c) ==
  /\ calls[c].kind # "none"
  /\ ~calls[c].waiting
  /\ Finish(c)
  /\ UNCHANGED <<wallet, op, robot, issued>>

-----------------------------------------------------------------------------
SysInit ==
  /\ Init
  /\ calls = [c \in Calls |-> Free]
  /\ epoch = 0
  /\ latest = [r \in Resources |-> <<0>>]
  /\ holder = [r \in Resources |-> "nobody"]
  /\ granted = {}
  /\ issued = [r \in Resources |-> NoLease]

Client ==
  \/ \E c \in Calls, r \in Resources :
       \/ \E kind \in {"acquire", "take"} : RequestLease(c, kind, r)
       \/ \E kind \in {"use", "return"} : SendAsIs(c, kind, r)
  \/ \E t \in Threads, r \in Resources : BeginUse(t, r)
  \/ \E t \in Threads, c \in Calls : EndUse(t, c)

Robot ==
  \/ \E c \in Calls : ServeAcquire(c) \/ ServeUse(c) \/ ServeReturn(c)
  \/ \E r \in Resources : OtherTakes(r) \/ Release(r)
  \/ Restart

Completion ==
  \/ \E c \in Calls :
       \/ OnAcquireComplete(c)
       \/ OnAcquireRefused(c)
       \/ OnReturnLeaseComplete(c)
       \/ OnUseComplete(c)
       \/ Expire(c)
       \/ Lose(c)
  \/ EndUpdate

SysNext == Client \/ Robot \/ Completion

SysSpec == SysInit /\ [][SysNext]_sysVars

-----------------------------------------------------------------------------
SysTypeOK ==
  /\ TypeOK
  /\ calls \in [Calls -> Call]
  /\ epoch \in Epochs
  /\ latest \in [Resources -> Seq(SeqNumber) \ {<<>>}]
  /\ holder \in [Resources -> {"us", "other", "nobody"}]
  /\ granted \subseteq LeaseProto
  /\ issued \in [Resources -> Lease \cup {NoLease}]

(* The lease p derives from a lease the robot granted this client. *)
FromGrant(p) ==
  \E g \in granted :
    /\ p.resource = g.resource
    /\ p.epoch = g.epoch
    /\ p.sequence # <<>>
    /\ p.sequence[1] = g.sequence[1]

(* The client never keeps or sends a lease that was not granted to it,     *)
(* though the robot tells it of the leases of others in every result       *)
(* (UpdateFromLeaseUseResult, lease.cpp:199).                              *)
NoForeignLease ==
  /\ \A r \in Resources : Atomic!InWallet(r) => FromGrant(wallet[r].proto)
  /\ \A t \in Threads : Busy(t) => FromGrant(op[t].lease.proto)
  /\ \A c \in Calls : calls[c].kind \in {"use", "return"} => FromGrant(calls[c].proto)

(* Every lease AdvanceLease hands out is more recent than all it handed    *)
(* out before for the resource (lease.h:135).                              *)
IssuesNewerLeases ==
  \A t \in Threads :
    LET before == issued[op[t].resource] IN
    op[t].kind = "advance" /\ before # NoLease =>
      Compare(op[t].lease.proto, before.proto) \in {"NEWER", "DIFFERENT_EPOCHS"}

(* The robot no longer honours the lease l. *)
Lost(l) ==
  LET r == l.proto.resource IN
  \/ l.proto.epoch # epoch
  \/ l.proto.sequence[1] < latest[r][1]
  \/ l.status = "REVOKED" /\ holder[r] # "us"

(* The result of an outstanding request that was answered. *)
Answered(k) == k.kind = "use" /\ k.waiting /\ k.status # "PENDING"

(* The robot's answer predates the lease l: the robot restarted since, or  *)
(* had granted l and not seen it used.                                     *)
Predates(result, l) ==
  \/ /\ result.status \in {"OLDER", "WRONG_EPOCH"}
     /\ result.latest.epoch < l.proto.epoch
  \/ /\ result.status = "OLDER"
     /\ result.latest.epoch = l.proto.epoch
     /\ result.latest.sequence = <<l.proto.sequence[1]>>

(* The wallet's lease l has fallen behind a use of it the robot has seen;  *)
(* only a lost update of the wallet can do that.                           *)
FallenBehind(result, l) ==
  /\ Overlap /\ Len(result.latest.sequence) = 2
  /\ result.latest.epoch = l.proto.epoch
  /\ result.latest.sequence[1] = l.proto.sequence[1]
  /\ result.latest.sequence[2] > l.proto.sequence[2]

(* An answer, whatever lease it is about and however late it comes, takes  *)
(* a lease from the client that the robot still honours only if it         *)
(* predates that lease: a lease that is acquired while requests with the   *)
(* one before are outstanding survives every other answer to them          *)
(* (lease.cpp:199, docs/cpp_release_notes.md:223).                         *)
AnswersDisownOnlyLost ==
  \A c \in Calls :
    LET r == calls[c].proto.resource
        before == wallet[r]
        after == UpdateFromLeaseUseResult(before, UseResult(c))
    IN
    Answered(calls[c]) /\ Atomic!Owned(r) /\ ~IsSelfOwned(after) =>
      \/ Lost(after)
      \/ Predates(UseResult(c), before)
      \/ FallenBehind(UseResult(c), before)

(* A lease the wallet has stopped regarding as its own is one the robot no *)
(* longer honours.  It need not be: an answer that predates it is enough   *)
(* (docs/cpp_release_notes.md:223).                                        *)
DisownsOnlyLostLeases ==
  \A r \in Resources :
    Atomic!InWallet(r) /\ ~IsSelfOwned(wallet[r]) => Lost(wallet[r])

(* A lease leaves the wallet only when it is no longer this client's.  It  *)
(* need not be: a return that failed removes it too (lease_client.cpp:141).*)
RemovesOnlyLostLeases ==
  [][\A r \in Resources :
       Atomic!InWallet(r) /\ wallet'[r] = NoLease =>
         holder[r] # "us" \/ Lost(wallet[r])]_sysVars
=============================================================================
