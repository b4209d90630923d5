---------------------------- MODULE LeaseLineage ----------------------------
(***************************************************************************)
(* What the clocks of module LeaseOrder are for.  The holder of a lease    *)
(* lends the resource by giving a delegate a sublease (CreateSublease) and *)
(* takes it back by incrementing its own lease (Increment); delegates may  *)
(* do the same with theirs.  Compare must tell who has precedence.         *)
(***************************************************************************)
EXTENDS LeaseOrder

CONSTANTS Delegates,   \* services that are lent the resource
          NotLent,     \* a delegate that holds no sublease
          Granted,     \* the lease the holder starts from
          MaxLength    \* bound on the length of a sequence

ASSUME GrantedAssumption ==
  Granted \in LeaseProto /\ IsValid(Granted) /\ Len(Granted.sequence) < MaxLength
ASSUME LineageAssumption ==
  MaxLength \in Nat /\ NotLent \notin LeaseProto

VARIABLES held,  \* the holder's lease
          lent   \* the lease of each delegate

lineageVars == <<held, lent>>

(* Bound: a lease is left alone once Increment would wrap its number, which *)
(* the code does not prevent but takes 2^32 uses to reach.                  *)
MayIncrement(p) == ~AtLimit(p)

HolderAdvances ==
  /\ MayIncrement(held)
  /\ held' = Increment(held)
  /\ UNCHANGED lent

HolderLends(d) ==
  /\ lent' = [lent EXCEPT ![d] = CreateSublease(held)]
  /\ UNCHANGED held

DelegateAdvances(d) ==
  /\ lent[d] # NotLent
  /\ MayIncrement(lent[d])
  /\ lent' = [lent EXCEPT ![d] = Increment(@)]
  /\ UNCHANGED held

DelegateLends(d, e) ==
  /\ lent[d] # NotLent
  /\ Len(lent[d].sequence) < MaxLength
  /\ lent' = [lent EXCEPT ![e] = CreateSublease(lent[d])]
  /\ UNCHANGED held

LineageInit ==
  /\ held = Granted
  /\ lent = [d \in Delegates |-> NotLent]

LineageNext ==
  \/ HolderAdvances
  \/ \E d \in Delegates : HolderLends(d) \/ DelegateAdvances(d)
  \/ \E d, e \in Delegates : DelegateLends(d, e)

LineageSpec == LineageInit /\ [][LineageNext]_lineageVars

-----------------------------------------------------------------------------
LineageTypeOK ==
  /\ held \in LeaseProto
  /\ lent \in [Delegates -> LeaseProto \cup {NotLent}]
  /\ \A d \in Delegates : lent[d] # NotLent =>
       Len(lent[d].sequence) > Len(held.sequence)

Leases == {held} \cup {lent[d] : d \in {e \in Delegates : lent[e] # NotLent}}

(* No delegate ever outranks the holder: what it was lent is a sublease of *)
(* the holder's lease or, once the holder has advanced, older than it      *)
(* (Lease::Compare, lease.cpp:113).                                        *)
DelegatesNeverOutrank ==
  \A d \in Delegates : lent[d] # NotLent =>
    Compare(lent[d], held) \in {"SUB_LEASE", "OLDER"}

(* Advancing takes the resource back from everyone it was lent to: every   *)
(* lease lent before is older than the holder's next one.                  *)
AdvancingRecalls ==
  [][held' # held =>
       \A d \in Delegates : lent[d] # NotLent =>
         Compare(lent'[d], held') = "OLDER"]_lineageVars

Converse ==
  [SAME |-> "SAME", SUPER_LEASE |-> "SUB_LEASE", SUB_LEASE |-> "SUPER_LEASE",
   OLDER |-> "NEWER", NEWER |-> "OLDER"]

(* Whichever of two leases one asks, the answer is the same, and only      *)
(* equal leases compare as the same.                                       *)
ComparisonsAgree ==
  \A p, q \in Leases :
    /\ Compare(q, p) = Converse[Compare(p, q)]
    /\ Compare(p, q) = "SAME" <=> p = q

(* Precedence passes down: what is derived from an older lease is older    *)
(* than what is derived from a newer one.                                  *)
PrecedenceIsTransitive ==
  \A p, q, r \in Leases :
    Compare(p, q) = "OLDER" /\ Compare(q, r) \in {"OLDER", "SUPER_LEASE", "SAME"} =>
      Compare(p, r) = "OLDER"
=============================================================================
