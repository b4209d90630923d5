----------------------------- MODULE LeaseOrder -----------------------------
(***************************************************************************)
(* Leases as values: the logical clocks of class Lease                     *)
(* (src/cpp/bosdyn/client/lease/lease.{h,cpp}).                            *)
(*                                                                         *)
(* A lease names a resource, an epoch (drawn by the lease service when it  *)
(* starts) and a sequence, a vector clock whose last component the holder  *)
(* increments and to which a delegate appends a component of its own.      *)
(* A lease object adds the ownership status the client last learned.       *)
(* Client names, which the code keeps parallel to the sequence, take part  *)
(* in no decision and are left out.                                        *)
(***************************************************************************)
EXTENDS Integers, Sequences

CONSTANTS Resources,   \* the non-empty resource names
          NoResource,  \* the empty resource name
          Epochs,      \* the epochs the lease service may draw
          SeqMod       \* sequence numbers are uint32: 2^32 in the program

ASSUME SeqModAssumption   == SeqMod \in Nat /\ SeqMod > 1
ASSUME NoResourceAssumption == NoResource \notin Resources

SeqNumber == 0 .. SeqMod - 1

LeaseStatus == {"UNOWNED", "REVOKED", "SELF_OWNER", "OTHER_OWNER", "NOT_MANAGED"}

(* The Lease protobuf message. *)
LeaseProto == [resource : Resources \cup {NoResource},
               epoch    : Epochs,
               sequence : Seq(SeqNumber)]

(* The Lease object: the message and m_lease_status. *)
Lease == [proto : LeaseProto, status : LeaseStatus]

(* Lease(lease_proto): a lease built from a message is taken to be owned. *)
LeaseOf(p) == [proto |-> p, status |-> "SELF_OWNER"]

IsSelfOwned(l) == l.status = "SELF_OWNER"

IsValid(p) == p.resource # NoResource /\ p.sequence # <<>>

-----------------------------------------------------------------------------
(* Comparison *)

Shorter(s, t) == IF Len(s) < Len(t) THEN Len(s) ELSE Len(t)

Agree(s, t) == \A i \in 1 .. Shorter(s, t) : s[i] = t[i]

(* Mutant: the loop does not stop at the first difference. *)
BeforeSomewhere(s, t) == \E i \in 1 .. Shorter(s, t) : s[i] < t[i]

(* The loop of CompareIgnoringResource returns at the first position of    *)
(* the common prefix where the clocks differ: s has the smaller number.    *)
Before(s, t) ==
  \E i \in 1 .. Shorter(s, t) :
    /\ s[i] < t[i]
    /\ \A j \in 1 .. i - 1 : s[j] = t[j]

CompareIgnoringResource(p, q) ==
  LET s == p.sequence  t == q.sequence IN
  IF p.epoch # q.epoch THEN "DIFFERENT_EPOCHS"
  ELSE IF ~Agree(s, t) THEN IF Before(s, t) THEN "OLDER" ELSE "NEWER"
  ELSE IF Len(s) < Len(t) THEN "SUPER_LEASE"
  ELSE IF Len(s) > Len(t) THEN "SUB_LEASE"
  ELSE "SAME"

Compare(p, q) ==
  IF ~IsValid(p) \/ ~IsValid(q) THEN "INVALID"
  ELSE IF p.resource # q.resource THEN "DIFFERENT_RESOURCES"
  ELSE CompareIgnoringResource(p, q)

-----------------------------------------------------------------------------
(* Derivation: the results are messages; their objects are LeaseOf of them *)

(* Mutant: the first component of the clock is incremented. *)
IncrementFirst(p) ==
  [p EXCEPT !.sequence[1] = (@ + 1) % SeqMod]

(* Only valid leases are incremented: AdvanceLease reads them from the     *)
(* wallet, whose owned entries are valid.                                  *)
Increment(p) ==
  [p EXCEPT !.sequence[Len(p.sequence)] = (@ + 1) % SeqMod]

CreateSublease(p) == [p EXCEPT !.sequence = Append(@, 0)]

(* Increment wraps to zero when the last component is at its maximum. *)
AtLimit(p) == p.sequence[Len(p.sequence)] = SeqMod - 1

-----------------------------------------------------------------------------
(* LeaseUseResult: what the robot answers to a request that used a lease   *)

UseStatus == {"OK", "INVALID_LEASE", "OLDER", "REVOKED", "UNMANAGED", "WRONG_EPOCH"}

LeaseUseResult == [status : UseStatus, attempted : LeaseProto, latest : LeaseProto]

(* An OLDER result is no longer relevant when the lease at hand is at      *)
(* least as recent as the one the robot saw last.                          *)
SupersedesOlderResult(p, result) ==
  IsValid(result.latest) /\ Compare(p, result.latest) \in {"NEWER", "SAME"}

(* A REVOKED result concerns the lease that was tried, and its subleases. *)
ConcernedByRevocation(p, result) ==
  Compare(p, result.attempted) \in {"SAME", "SUB_LEASE"}

(* Mutant: an OLDER answer is believed whatever the lease has become. *)
UpdateBelievingOlder(l, result) ==
  CASE result.status = "OLDER" -> [l EXCEPT !.status = "OTHER_OWNER"]
    [] result.status = "WRONG_EPOCH" ->
         IF l.proto.epoch # result.latest.epoch
         THEN [l EXCEPT !.status = "UNOWNED"] ELSE l
    [] result.status = "REVOKED" ->
         IF ConcernedByRevocation(l.proto, result)
         THEN [l EXCEPT !.status = "REVOKED"] ELSE l
    [] OTHER -> l

(* Mutant: the lease the robot saw last replaces one that is older. *)
UpdateAdoptingLatest(l, result) ==
  IF result.status = "OLDER" THEN LeaseOf(result.latest) ELSE l

(* Lease::UpdateFromLeaseUseResult, the lease after the call. *)
UpdateFromLeaseUseResult(l, result) ==
  CASE result.status = "OLDER" ->
         IF SupersedesOlderResult(l.proto, result)
         THEN l ELSE [l EXCEPT !.status = "OTHER_OWNER"]
    [] result.status = "WRONG_EPOCH" ->
         IF l.proto.epoch # result.latest.epoch
         THEN [l EXCEPT !.status = "UNOWNED"] ELSE l
    [] result.status = "REVOKED" ->
         IF ConcernedByRevocation(l.proto, result)
         THEN [l EXCEPT !.status = "REVOKED"] ELSE l
    [] OTHER -> l
=============================================================================
