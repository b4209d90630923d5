-------------------------- MODULE AtomicLeaseWallet --------------------------
(***************************************************************************)
(* What a lease wallet promises: a table from resources to leases, each    *)
(* operation one atomic step (the public operations of class LeaseWallet,  *)
(* src/cpp/bosdyn/client/lease/lease_wallet.{h,cpp}).  Module LeaseWallet  *)
(* models the code, two of whose operations release the mutex half-way.    *)
(***************************************************************************)
EXTENDS LeaseOrder

CONSTANTS NoLease,  \* the entry of a resource that is not in the wallet
          Grants,   \* the messages from which leases are added
          Answers   \* the lease use results the robot may send

VARIABLE wallet             \* m_lease_map

InWallet(r) == wallet[r] # NoLease

Owned(r) == InWallet(r) /\ IsSelfOwned(wallet[r])

Put(r, l) == wallet' = [wallet EXCEPT ![r] = l]

-----------------------------------------------------------------------------
(* AddLease: a self-owned lease is subleased unless the caller objects. *)
Entry(l, subLease) ==
  IF subLease /\ IsSelfOwned(l) THEN LeaseOf(CreateSublease(l.proto)) ELSE l

AddLease(r, l, subLease) == Put(r, Entry(l, subLease))

RemoveLease(r) == Put(r, NoLease)

(* FailLease erases the entry only if it still is the lease that failed. *)
FailLease(p) ==
  /\ IsValid(p)
  /\ InWallet(p.resource)
  /\ Compare(wallet[p.resource].proto, p) = "SAME"
  /\ Put(p.resource, NoLease)

AdvanceLease(r) ==
  /\ Owned(r)
  /\ Put(r, LeaseOf(Increment(wallet[r].proto)))

OnLeaseUseResult(result) ==
  LET r == result.attempted.resource IN
  /\ r \in Resources
  /\ InWallet(r)
  /\ Put(r, UpdateFromLeaseUseResult(wallet[r], result))

-----------------------------------------------------------------------------
Init == wallet = [r \in Resources |-> NoLease]

Next ==
  \/ \E g \in Grants, s \in LeaseStatus, subLease \in BOOLEAN :
       AddLease(g.resource, [proto |-> g, status |-> s], subLease)
  \/ \E r \in Resources : RemoveLease(r)
  \/ \E r \in Resources : InWallet(r) /\ FailLease(wallet[r].proto)
  \/ \E r \in Resources : AdvanceLease(r)
  \/ \E result \in Answers : OnLeaseUseResult(result)

Spec == Init /\ [][Next]_wallet

TypeOK == wallet \in [Resources -> Lease \cup {NoLease}]
=============================================================================
