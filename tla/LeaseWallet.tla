----------------------------- MODULE LeaseWallet -----------------------------
(***************************************************************************)
(* The lease wallet as written: class LeaseWallet guards its table with a  *)
(* mutex, but AdvanceLease and OnLeaseUseResult take it twice, once to     *)
(* copy an entry and once to store what they made of the copy              *)
(* (src/cpp/bosdyn/client/lease/lease_wallet.cpp).  Another thread may run *)
(* any operation in between.                                               *)
(*                                                                         *)
(* A thread that is inside such an operation holds, in op, the entry it    *)
(* has read and the lease it will store.  Overlap says whether the program *)
(* lets operations on one resource overlap: with a background message pump *)
(* it does, a program that polls the pump on the thread that issues its    *)
(* requests does not.                                                      *)
(***************************************************************************)
EXTENDS LeaseOrder

CONSTANTS NoLease, Grants, Answers, \* as in AtomicLeaseWallet
          Threads,   \* the threads that share the wallet
          Overlap    \* may operations on one resource overlap?

VARIABLES wallet, op

vars == <<wallet, op>>

Atomic == INSTANCE AtomicLeaseWallet

ASSUME OverlapAssumption == Overlap \in BOOLEAN
ASSUME WalletConstants ==
  /\ NoLease \notin Lease
  /\ \A g \in Grants : g \in LeaseProto /\ IsValid(g)
  /\ Answers \subseteq LeaseUseResult

(* Idle is a thread outside the two-step operations. *)
Idle == [kind |-> "idle", resource |-> NoResource, copy |-> NoLease, lease |-> NoLease]

Op == [kind     : {"idle", "advance", "update"},
       resource : Resources \cup {NoResource},
       copy     : Lease \cup {NoLease},
       lease    : Lease \cup {NoLease}]

Busy(t) == op[t].kind # "idle"

(* No operation on r is under way, or the program does not care. *)
MayTouch(r) == Overlap \/ \A t \in Threads : op[t].resource # r

-----------------------------------------------------------------------------
(* The operations that hold the mutex throughout. *)

AddLease(r, l, subLease) ==
  /\ MayTouch(r)
  /\ Atomic!AddLease(r, l, subLease)
  /\ UNCHANGED op

RemoveLease(r) ==
  /\ MayTouch(r)
  /\ Atomic!RemoveLease(r)
  /\ UNCHANGED op

FailLease(p) ==
  /\ MayTouch(p.resource)
  /\ Atomic!FailLease(p)
  /\ UNCHANGED op

-----------------------------------------------------------------------------
(* The operations that take the mutex twice.  The copy belongs to the      *)
(* thread, so what it makes of it is settled when it has read it.          *)

Hold(t, kind, r, l) ==
  op' = [op EXCEPT ![t] = [kind |-> kind, resource |-> r,
                           copy |-> wallet[r], lease |-> l]]

(* AdvanceLease: GetOwnedLease has returned a copy and released the mutex. *)
AdvanceRead(t, r) ==
  /\ ~Busy(t)
  /\ MayTouch(r)
  /\ Atomic!Owned(r)
  /\ Hold(t, "advance", r, LeaseOf(Increment(wallet[r].proto)))
  /\ UNCHANGED wallet

(* OnLeaseUseResult: GetLease has returned a copy, updated by the result. *)
UpdateRead(t, result) ==
  LET r == result.attempted.resource IN
  /\ ~Busy(t)
  /\ r \in Resources
  /\ MayTouch(r)
  /\ Atomic!InWallet(r)
  /\ Hold(t, "update", r, UpdateFromLeaseUseResult(wallet[r], result))
  /\ UNCHANGED wallet

(* Mutant: what is stored is put under a sublease of its own. *)
WriteSublease(t) ==
  /\ Busy(t)
  /\ Atomic!AddLease(op[t].resource, op[t].lease, TRUE)
  /\ op' = [op EXCEPT ![t] = Idle]

(* Both end by storing the lease, whatever the entry has become. *)
Write(t) ==
  /\ Busy(t)
  /\ Atomic!AddLease(op[t].resource, op[t].lease, FALSE)
  /\ op' = [op EXCEPT ![t] = Idle]

-----------------------------------------------------------------------------
Init ==
  /\ wallet = [r \in Resources |-> NoLease]
  /\ op = [t \in Threads |-> Idle]

Next ==
  \/ \E g \in Grants, s \in LeaseStatus, subLease \in BOOLEAN :
       AddLease(g.resource, [proto |-> g, status |-> s], subLease)
  \/ \E r \in Resources : RemoveLease(r)
  \/ \E r \in Resources :
       Atomic!InWallet(r) /\ FailLease(wallet[r].proto)
  \/ \E t \in Threads, r \in Resources : AdvanceRead(t, r)
  \/ \E t \in Threads, result \in Answers : UpdateRead(t, result)
  \/ \E t \in Threads : Write(t)

Spec == Init /\ [][Next]_vars

-----------------------------------------------------------------------------
TypeOK ==
  /\ wallet \in [Resources -> Lease \cup {NoLease}]
  /\ op \in [Threads -> Op]
  /\ \A t \in Threads :
       IF Busy(t)
       THEN op[t].resource \in Resources /\ op[t].lease \in Lease /\ op[t].copy \in Lease
       ELSE op[t] = Idle

(* Invalid leases are never in the wallet, and the lease under a resource  *)
(* is a lease for it (lease_wallet.cpp:37).                                *)
EntriesValid ==
  /\ \A r \in Resources : Atomic!InWallet(r) =>
       IsValid(wallet[r].proto) /\ wallet[r].proto.resource = r
  /\ \A t \in Threads : Busy(t) =>
       IsValid(op[t].lease.proto) /\ op[t].lease.proto.resource = op[t].resource

OneOperationPerResource ==
  \A t, u \in Threads :
    Busy(t) /\ Busy(u) /\ op[t].resource = op[u].resource => t = u

(* The entry that t has read has been changed by another thread since. *)
Overtaken(t) == Busy(t) /\ wallet[op[t].resource] # op[t].copy

(* Every change of the wallet is a whole operation, unless a thread stores *)
(* what it made of an entry that another operation has changed since: that *)
(* overlap is the only way to lose an update or to bring a lease back      *)
(* (lease_wallet.cpp:139, lease_wallet.cpp:155).                           *)
ChangesAreWhole ==
  [][Atomic!Next \/ \E t \in Threads : Overtaken(t) /\ Write(t)]_wallet

(* The wallet implements the atomic one, as its users may expect: the      *)
(* processors that call it "MUST be thread-safe" (request_processor.h:22), *)
(* and setting a lease is "Always guaranteed to succeed"                   *)
(* (lease_wallet.h:34).  It does not, if operations on one resource        *)
(* overlap: a lease that was set is lost.                                  *)
ImplementsAtomic == Atomic!Spec
=============================================================================
