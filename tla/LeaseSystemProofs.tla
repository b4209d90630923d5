------------------------- MODULE LeaseSystemProofs --------------------------
(***************************************************************************)
(* Theorems about leases that are handed on, about the lease wallet, and   *)
(* about a client and the lease service, for any number of delegates,      *)
(* threads, calls, resources and epochs and sequences of any length.  What *)
(* holds whatever the program does has no hypothesis; one theorem assumes  *)
(* that the program keeps the operations on one resource apart (~Overlap). *)
(***************************************************************************)
EXTENDS LeaseSystem, LeaseLineage, LeaseOrderProofs, TLAPS

-----------------------------------------------------------------------------
(* The precedence of leases that are handed on *)

(* p was derived from q, or from what q was before it was incremented: it  *)
(* is longer than q, begins with q's clock up to its last number, and has  *)
(* there a number that q has or had.                                       *)
Descends(p, q) ==
  LET s == p.sequence  t == q.sequence  n == Len(q.sequence) IN
  /\ p \in LeaseProto /\ IsValid(p)
  /\ p.resource = q.resource /\ p.epoch = q.epoch
  /\ n < Len(s)
  /\ \A i \in 1 .. n - 1 : s[i] = t[i]
  /\ s[n] <= t[n]

(* The inductive invariant: every lease that was lent descends from the    *)
(* holder's.                                                               *)
LineageInv ==
  /\ held \in LeaseProto /\ IsValid(held)
  /\ lent \in [Delegates -> LeaseProto \cup {NotLent}]
  /\ \A d \in Delegates : lent[d] # NotLent => Descends(lent[d], held)

(* A sublease descends from the lease it was made of. *)
LEMMA SubleaseDescends ==
  ASSUME NEW q \in LeaseProto, IsValid(q)
  PROVE  Descends(CreateSublease(q), q)
  <1> DEFINE s == CreateSublease(q).sequence
             t == q.sequence
             n == Len(t)
  <1>1. /\ CreateSublease(q) \in LeaseProto /\ IsValid(CreateSublease(q))
        /\ CreateSublease(q).resource = q.resource
        /\ CreateSublease(q).epoch = q.epoch
    BY SubleaseType, SubleaseClock
  <1>2. n \in Nat \ {0} /\ t[n] \in Nat
    BY LastNumber
  <1>3. Len(s) = n + 1 /\ \A i \in 1 .. n : s[i] = t[i]
    BY SubleaseClock
  <1>4. n < Len(s) /\ s[n] <= t[n] /\ \A i \in 1 .. n - 1 : s[i] = t[i]
    BY <1>2, <1>3
  <1> QED
    BY <1>1, <1>4 DEF Descends

(* It descends from whatever that lease descends from. *)
LEMMA DescentPassesDown ==
  ASSUME NEW q \in LeaseProto, IsValid(q), NEW p, Descends(p, q)
  PROVE  Descends(CreateSublease(p), q)
  <1>1. p \in LeaseProto /\ IsValid(p)
    BY DEF Descends
  <1>2. LET n == Len(q.sequence) IN
        n \in Nat \ {0} /\ n < Len(p.sequence) /\ Len(p.sequence) \in Nat
    BY <1>1, LastNumber DEF Descends
  <1> DEFINE s == CreateSublease(p).sequence
             t == q.sequence
             n == Len(t)
  <1>3. /\ CreateSublease(p) \in LeaseProto /\ IsValid(CreateSublease(p))
        /\ CreateSublease(p).resource = q.resource
        /\ CreateSublease(p).epoch = q.epoch
    BY <1>1, SubleaseType, SubleaseClock DEF Descends
  <1>4. /\ Len(s) = Len(p.sequence) + 1
        /\ \A i \in 1 .. Len(p.sequence) : s[i] = p.sequence[i]
    BY <1>1, SubleaseClock
  <1>5. p.sequence[n] <= t[n] /\ \A i \in 1 .. n - 1 : p.sequence[i] = t[i]
    BY DEF Descends
  <1>6. n < Len(s) /\ s[n] <= t[n] /\ \A i \in 1 .. n - 1 : s[i] = t[i]
    <2>1. n \in 1 .. Len(p.sequence) /\ \A i \in 1 .. n - 1 : i \in 1 .. Len(p.sequence)
      BY <1>2
    <2> HIDE DEF s, t, n
    <2>2. s[n] = p.sequence[n] /\ \A i \in 1 .. n - 1 : s[i] = p.sequence[i]
      BY <1>4, <2>1
    <2>3. n < Len(s)
      BY <1>2, <1>4 DEF n, t
    <2> QED
      BY <1>5, <2>2, <2>3
  <1> QED
    BY <1>3, <1>6 DEF Descends

(* A descendant that is incremented remains one. *)
LEMMA IncrementDescends ==
  ASSUME NEW q \in LeaseProto, IsValid(q), NEW p, Descends(p, q), ~AtLimit(p)
  PROVE  Descends(Increment(p), q)
  <1>1. p \in LeaseProto /\ IsValid(p)
    BY DEF Descends
  <1>2. LET n == Len(q.sequence) IN
        n \in Nat \ {0} /\ n < Len(p.sequence) /\ Len(p.sequence) \in Nat
    BY <1>1, LastNumber DEF Descends
  <1> QED
    BY <1>1, <1>2, IncrementType, IncrementClock DEF Descends

(* The descendants of a lease are older than the lease once incremented.   *)
LEMMA DescentIsRecalled ==
  ASSUME NEW q \in LeaseProto, IsValid(q), ~AtLimit(q), NEW p, Descends(p, q)
  PROVE  /\ Descends(p, Increment(q))
         /\ LET n == Len(q.sequence) IN p.sequence[n] < Increment(q).sequence[n]
  <1>1. p \in LeaseProto /\ IsValid(p)
    BY DEF Descends
  <1> DEFINE n == Len(q.sequence)
  <1>2. n \in Nat \ {0} /\ n < Len(p.sequence) /\ Len(p.sequence) \in Nat
        /\ p.sequence[n] \in Nat /\ q.sequence[n] \in Nat
    BY <1>1, LastNumber DEF Descends
  <1> QED
    BY <1>1, <1>2, IncrementType, IncrementClock DEF Descends

(* How a descendant compares. *)
LEMMA DescentCompares ==
  ASSUME NEW q \in LeaseProto, IsValid(q), NEW p, Descends(p, q)
  PROVE  LET n == Len(q.sequence) IN
         /\ p.sequence[n] < q.sequence[n] => Compare(p, q) = "OLDER"
         /\ Compare(p, q) \in {"SUB_LEASE", "OLDER"}
  <1> DEFINE s == p.sequence
             t == q.sequence
             n == Len(t)
  <1>1. p \in LeaseProto /\ IsValid(p) /\ p.resource = q.resource /\ p.epoch = q.epoch
    BY DEF Descends
  <1>2. /\ n \in Nat \ {0} /\ n < Len(s) /\ Len(s) \in Nat
        /\ s[n] \in Nat /\ t[n] \in Nat
        /\ s \in Clock /\ t \in Clock
    BY <1>1, LastNumber DEF Descends
  <1>3. \A i \in 1 .. n - 1 : s[i] = t[i]
    BY DEF Descends
  <1>4. Shorter(s, t) = n
    BY <1>2 DEF Shorter
  <1>5. CASE s[n] < t[n]
    <2>1. Before(s, t)
      <3>1. n \in 1 .. Shorter(s, t)
        BY <1>2, <1>4
      <3> HIDE DEF s, t, n
      <3> QED
        BY <1>3, <1>5, <3>1 DEF Before
    <2> QED
      BY <1>1, <2>1, CompareMeaning
  <1>6. CASE s[n] = t[n]
    <2>1. Agree(s, t)
      BY <1>2, <1>3, <1>4, <1>6 DEF Agree
    <2>2. Compare(p, q) = "SUB_LEASE"
      BY <1>1, <1>2, <2>1, CompareMeaning
    <2> QED
      BY <1>2, <1>6, <2>2
  <1>7. s[n] <= t[n]
    BY DEF Descends
  <1> QED
    BY <1>2, <1>5, <1>6, <1>7

-----------------------------------------------------------------------------
(* The invariant *)

(* Nothing has been lent at the start. *)
LEMMA InitLineageInv == LineageInit => LineageInv
  BY GrantedAssumption DEF LineageInit, LineageInv

(* Lending to a delegate something that descends from the holder's lease   *)
(* keeps the invariant.                                                    *)
LEMMA LendingLineageInv ==
  ASSUME LineageInv, NEW d \in Delegates, NEW p, Descends(p, held),
         lent' = [lent EXCEPT ![d] = p], UNCHANGED held
  PROVE  LineageInv'
  <1>1. p \in LeaseProto
    BY DEF Descends
  <1>2. lent' \in [Delegates -> LeaseProto \cup {NotLent}]
    BY <1>1 DEF LineageInv
  <1>3. ASSUME NEW e \in Delegates, lent'[e] # NotLent
        PROVE  Descends(lent'[e], held)
    BY <1>3 DEF LineageInv
  <1> QED
    BY <1>2, <1>3 DEF LineageInv, Descends

(* Every step keeps the invariant. *)
LEMMA NextLineageInv == LineageInv /\ [LineageNext]_lineageVars => LineageInv'
  <1> SUFFICES ASSUME LineageInv, [LineageNext]_lineageVars PROVE LineageInv'
    OBVIOUS
  <1>1. held \in LeaseProto /\ IsValid(held)
    BY DEF LineageInv
  <1>2. CASE HolderAdvances
    <2>1. ~AtLimit(held) /\ held' = Increment(held) /\ lent' = lent
      BY <1>2 DEF HolderAdvances, MayIncrement
    <2>2. held' \in LeaseProto /\ IsValid(held')
      BY <1>1, <2>1, IncrementType
    <2>3. ASSUME NEW d \in Delegates, lent[d] # NotLent
          PROVE  Descends(lent[d], held')
      BY <1>1, <2>1, <2>3, DescentIsRecalled DEF LineageInv
    <2> QED
      BY <2>1, <2>2, <2>3 DEF LineageInv, Descends
  <1>3. ASSUME NEW d \in Delegates, HolderLends(d) PROVE LineageInv'
    BY <1>1, <1>3, SubleaseDescends, LendingLineageInv DEF HolderLends
  <1>4. ASSUME NEW d \in Delegates, DelegateAdvances(d) PROVE LineageInv'
    <2>1. Descends(Increment(lent[d]), held)
      BY <1>1, <1>4, IncrementDescends DEF DelegateAdvances, MayIncrement, LineageInv
    <2>2. lent' = [lent EXCEPT ![d] = Increment(lent[d])] /\ UNCHANGED held
      BY <1>4 DEF DelegateAdvances
    <2> QED
      BY <2>1, <2>2, LendingLineageInv
  <1>5. ASSUME NEW d \in Delegates, NEW e \in Delegates, DelegateLends(d, e)
        PROVE  LineageInv'
    <2>1. Descends(CreateSublease(lent[d]), held)
      BY <1>1, <1>5, DescentPassesDown DEF DelegateLends, LineageInv
    <2> QED
      BY <1>5, <2>1, LendingLineageInv DEF DelegateLends
  <1>6. CASE UNCHANGED lineageVars
    BY <1>6 DEF lineageVars, LineageInv, Descends
  <1> QED
    BY <1>2, <1>3, <1>4, <1>5, <1>6 DEF LineageNext

(* It holds always. *)
LEMMA LineageInvariant == LineageSpec => []LineageInv
  BY InitLineageInv, NextLineageInv, PTL DEF LineageSpec

-----------------------------------------------------------------------------
(* Every lease in play has the type of a lease, and those that were lent   *)
(* are longer than the holder's.                                           *)
THEOREM LineageTypes == LineageSpec => []LineageTypeOK
  <1>1. LineageInv => LineageTypeOK
    BY DEF LineageInv, Descends, LineageTypeOK
  <1> QED
    BY <1>1, LineageInvariant, PTL

(* No delegate ever outranks the holder, however often leases are lent on  *)
(* and incremented (lease.cpp:113).                                        *)
THEOREM LineageNeverOutranks == LineageSpec => []DelegatesNeverOutrank
  <1>1. LineageInv => DelegatesNeverOutrank
    BY DescentCompares DEF LineageInv, DelegatesNeverOutrank
  <1> QED
    BY <1>1, LineageInvariant, PTL

(* Once the holder increments its lease everything it had lent is older.   *)
THEOREM LineageRecalls == LineageSpec => AdvancingRecalls
  <1> DEFINE Recalled == held' # held =>
                \A d \in Delegates : lent[d] # NotLent =>
                  Compare(lent'[d], held') = "OLDER"
  <1>1. LineageInv /\ [LineageNext]_lineageVars => [Recalled]_lineageVars
    <2> SUFFICES ASSUME LineageInv, LineageNext, held' # held,
                        NEW d \in Delegates, lent[d] # NotLent
                 PROVE  Compare(lent'[d], held') = "OLDER"
      OBVIOUS
    <2>1. ~AtLimit(held) /\ held' = Increment(held) /\ lent' = lent
      BY DEF LineageNext, HolderAdvances, HolderLends, DelegateAdvances, DelegateLends,
             MayIncrement
    <2>2. held \in LeaseProto /\ IsValid(held) /\ Descends(lent[d], held)
      BY DEF LineageInv
    <2>3. held' \in LeaseProto /\ IsValid(held') /\ Len(held'.sequence) = Len(held.sequence)
      BY <2>1, <2>2, IncrementType, IncrementClock
    <2>4. Descends(lent[d], held')
          /\ lent[d].sequence[Len(held.sequence)] < held'.sequence[Len(held.sequence)]
      BY <2>1, <2>2, DescentIsRecalled
    <2> QED
      BY <2>1, <2>3, <2>4, DescentCompares
  <1> QED
    BY <1>1, LineageInvariant, PTL DEF LineageSpec, AdvancingRecalls

(* The leases in play are valid and differ in their clocks alone. *)
LEMMA LeasesInPlay ==
  ASSUME LineageInv, NEW p \in Leases
  PROVE  /\ p \in LeaseProto /\ IsValid(p)
         /\ p.resource = held.resource /\ p.epoch = held.epoch
  BY DEF LineageInv, Leases, Descends

(* Compare gives the same verdict whichever lease is asked, and calls only *)
(* equal leases the same.                                                  *)
THEOREM LineageComparisonsAgree == LineageSpec => []ComparisonsAgree
  <1>1. ASSUME LineageInv, NEW p \in Leases, NEW q \in Leases
        PROVE  /\ Compare(q, p) = Converse[Compare(p, q)]
               /\ Compare(p, q) = "SAME" <=> p = q
    <2>1. /\ p \in LeaseProto /\ IsValid(p) /\ q \in LeaseProto /\ IsValid(q)
          /\ p.resource = q.resource /\ p.epoch = q.epoch
      BY <1>1, LeasesInPlay
    <2>2. Agree(p.sequence, q.sequence) <=> Agree(q.sequence, p.sequence)
      BY <2>1, AgreeIsSymmetric DEF LeaseProto, Clock
    <2> DEFINE pq == Compare(p, q)
               qp == Compare(q, p)
    <2>3. /\ (qp = "OLDER" <=> pq = "NEWER") /\ (qp = "NEWER" <=> pq = "OLDER")
          /\ (qp = "SUPER_LEASE" <=> pq = "SUB_LEASE")
          /\ (qp = "SUB_LEASE" <=> pq = "SUPER_LEASE")
          /\ (pq = "SAME" <=> p = q) /\ (qp = "SAME" <=> q = p)
          /\ pq \in {"OLDER", "NEWER", "SUPER_LEASE", "SUB_LEASE", "SAME"}
      BY <2>1, <2>2, CompareMeaning
    <2> HIDE DEF pq, qp
    <2>4. qp = Converse[pq]
      BY <2>3 DEF Converse
    <2> QED
      BY <2>3, <2>4 DEF pq, qp
  <1>2. LineageInv => ComparisonsAgree
    BY <1>1 DEF ComparisonsAgree
  <1> QED
    BY <1>2, LineageInvariant, PTL

(* What is derived from an older lease is older than what is derived from  *)
(* a newer one.                                                            *)
THEOREM LineagePrecedenceIsTransitive == LineageSpec => []PrecedenceIsTransitive
  <1>1. ASSUME LineageInv, NEW p \in Leases, NEW q \in Leases, NEW r \in Leases,
               Compare(p, q) = "OLDER",
               Compare(q, r) \in {"OLDER", "SUPER_LEASE", "SAME"}
        PROVE  Compare(p, r) = "OLDER"
    <2>1. /\ p \in LeaseProto /\ IsValid(p) /\ q \in LeaseProto /\ IsValid(q)
          /\ r \in LeaseProto /\ IsValid(r)
          /\ p.resource = q.resource /\ p.epoch = q.epoch
          /\ q.resource = r.resource /\ q.epoch = r.epoch
      BY <1>1, LeasesInPlay
    <2> DEFINE s == p.sequence
               t == q.sequence
               u == r.sequence
    <2>2. s \in Clock /\ t \in Clock /\ u \in Clock
      BY <2>1 DEF LeaseProto, Clock
    <2>3. Before(s, t)
      BY <1>1, <2>1, CompareMeaning
    <2>4. CASE Compare(q, r) = "OLDER"
      <3>1. Before(t, u)
        BY <2>1, <2>4, CompareMeaning
      <3>2. Before(s, u)
        BY <2>2, <2>3, <3>1, BeforeIsTransitive
      <3> QED
        BY <2>1, <3>2, CompareMeaning
    <2>5. CASE Compare(q, r) = "SUPER_LEASE"
      <3>1. Agree(t, u) /\ Len(t) < Len(u)
        BY <2>1, <2>5, CompareMeaning
      <3>2. Before(s, u)
        BY <2>2, <2>3, <3>1, BeforeIsTransitive, ClockNumbers
      <3> QED
        BY <2>1, <3>2, CompareMeaning
    <2>6. CASE Compare(q, r) = "SAME"
      <3>1. q = r
        BY <2>1, <2>6, CompareMeaning
      <3> QED
        BY <1>1, <3>1
    <2> QED
      BY <1>1, <2>4, <2>5, <2>6
  <1>2. LineageInv => PrecedenceIsTransitive
    BY <1>1 DEF PrecedenceIsTransitive
  <1> QED
    BY <1>2, LineageInvariant, PTL

-----------------------------------------------------------------------------
(* The wallet *)

(* The inductive invariant of the wallet. *)
WalletInv == TypeOK /\ EntriesValid

(* An empty wallet satisfies it (lease_wallet.h:83).                       *)
LEMMA InitWalletInv == Init => WalletInv
  BY DEF Init, WalletInv, TypeOK, EntriesValid, Idle, Op, Busy, Atomic!InWallet

(* A step that stores a valid lease, or nothing, under its own resource. *)
LEMMA PutWalletInv ==
  ASSUME WalletInv, NEW r \in Resources, NEW l \in Lease \cup {NoLease},
         l # NoLease => IsValid(l.proto) /\ l.proto.resource = r,
         Atomic!Put(r, l), UNCHANGED op
  PROVE  WalletInv'
  BY DEF WalletInv, TypeOK, EntriesValid, Atomic!Put, Atomic!InWallet, Busy, Idle

(* A step that reads an entry and keeps a valid lease made of it. *)
LEMMA HoldWalletInv ==
  ASSUME WalletInv, NEW t \in Threads, NEW r \in Resources, NEW l \in Lease,
         NEW kind \in {"advance", "update"},
         Atomic!InWallet(r), IsValid(l.proto), l.proto.resource = r,
         Hold(t, kind, r, l), UNCHANGED wallet
  PROVE  WalletInv'
  BY DEF WalletInv, TypeOK, EntriesValid, Hold, Atomic!InWallet, Busy, Idle, Op

(* Adding a valid lease keeps it (lease_wallet.cpp:18).                    *)
LEMMA AddLeaseWalletInv ==
  ASSUME WalletInv, NEW l \in Lease, IsValid(l.proto), NEW subLease \in BOOLEAN,
         AddLease(l.proto.resource, l, subLease)
  PROVE  WalletInv'
  <1>1. l.proto \in LeaseProto /\ l.proto.resource \in Resources /\ l # NoLease
    BY WalletConstants DEF Lease, LeaseProto, IsValid
  <1> DEFINE e == Atomic!Entry(l, subLease)
  <1>2. e = IF subLease /\ IsSelfOwned(l) THEN LeaseOf(CreateSublease(l.proto)) ELSE l
    BY DEF Atomic!Entry, Atomic!IsSelfOwned, Atomic!LeaseOf, Atomic!CreateSublease,
           IsSelfOwned, LeaseOf, CreateSublease
  <1>3. e \in Lease /\ IsValid(e.proto) /\ e.proto.resource = l.proto.resource
    BY <1>1, <1>2, SubleaseType DEF LeaseOf, Lease, LeaseStatus
  <1> QED
    BY <1>1, <1>3, PutWalletInv DEF AddLease, Atomic!AddLease

(* Removing a lease keeps it (lease_wallet.cpp:31).                        *)
LEMMA RemoveWalletInv ==
  ASSUME WalletInv, NEW r \in Resources, RemoveLease(r)
  PROVE  WalletInv'
  BY PutWalletInv DEF RemoveLease, Atomic!RemoveLease

(* Failing a lease keeps it (lease_wallet.cpp:36).                         *)
LEMMA FailWalletInv ==
  ASSUME WalletInv, NEW r \in Resources, Atomic!InWallet(r),
         FailLease(wallet[r].proto)
  PROVE  WalletInv'
  <1>1. wallet[r].proto.resource = r
    BY DEF WalletInv, EntriesValid
  <1> QED
    BY <1>1, PutWalletInv DEF FailLease, Atomic!FailLease

(* The first half of AdvanceLease keeps it (lease_wallet.cpp:139).         *)
LEMMA AdvanceReadWalletInv ==
  ASSUME WalletInv, NEW t \in Threads, NEW r \in Resources, AdvanceRead(t, r)
  PROVE  WalletInv'
  <1>1. wallet[r] \in Lease /\ IsValid(wallet[r].proto) /\ wallet[r].proto.resource = r
    BY DEF WalletInv, TypeOK, EntriesValid, AdvanceRead, Atomic!Owned, Atomic!InWallet
  <1> DEFINE l == LeaseOf(Increment(wallet[r].proto))
  <1>2. l \in Lease /\ IsValid(l.proto) /\ l.proto.resource = r
    BY <1>1, IncrementType DEF LeaseOf, Lease, LeaseStatus
  <1> QED
    BY <1>2, HoldWalletInv DEF AdvanceRead, Atomic!Owned

(* The first half of OnLeaseUseResult keeps it (lease_wallet.cpp:155).     *)
LEMMA UpdateReadWalletInv ==
  ASSUME WalletInv, NEW t \in Threads, NEW result, UpdateRead(t, result)
  PROVE  WalletInv'
  <1> DEFINE r == result.attempted.resource
             l == UpdateFromLeaseUseResult(wallet[r], result)
  <1>1. r \in Resources /\ wallet[r] \in Lease /\ IsValid(wallet[r].proto)
        /\ wallet[r].proto.resource = r
    BY DEF WalletInv, TypeOK, EntriesValid, UpdateRead, Atomic!InWallet
  <1>2. l \in Lease /\ IsValid(l.proto) /\ l.proto.resource = r
    BY <1>1, UpdateType
  <1> QED
    BY <1>1, <1>2, HoldWalletInv DEF UpdateRead

(* The half that stores keeps it (lease_wallet.cpp:148).                   *)
LEMMA WriteWalletInv ==
  ASSUME WalletInv, NEW t \in Threads, Write(t)
  PROVE  WalletInv'
  <1>1. /\ op[t].resource \in Resources /\ op[t].lease \in Lease
        /\ IsValid(op[t].lease.proto)
        /\ op[t].lease.proto.resource = op[t].resource
    BY DEF WalletInv, TypeOK, EntriesValid, Write
  <1>2. wallet' = [wallet EXCEPT ![op[t].resource] = op[t].lease]
    BY DEF Write, Atomic!AddLease, Atomic!Put, Atomic!Entry
  <1>3. op' = [op EXCEPT ![t] = Idle]
    BY DEF Write
  <1> QED
    BY <1>1, <1>2, <1>3 DEF WalletInv, TypeOK, EntriesValid, Atomic!InWallet,
                            Busy, Idle, Op

(* Every step keeps it.                                                    *)
LEMMA NextWalletInv == WalletInv /\ [Next]_vars => WalletInv'
  <1> SUFFICES ASSUME WalletInv, [Next]_vars PROVE WalletInv'
    OBVIOUS
  <1>1. ASSUME NEW g \in Grants, NEW s \in LeaseStatus, NEW subLease \in BOOLEAN,
               AddLease(g.resource, [proto |-> g, status |-> s], subLease)
        PROVE  WalletInv'
    <2>1. [proto |-> g, status |-> s] \in Lease /\ IsValid(g)
      BY WalletConstants DEF Lease
    <2> QED
      BY <1>1, <2>1, AddLeaseWalletInv
  <1>2. ASSUME NEW r \in Resources, RemoveLease(r) PROVE WalletInv'
    BY <1>2, RemoveWalletInv
  <1>3. ASSUME NEW r \in Resources, Atomic!InWallet(r), FailLease(wallet[r].proto)
        PROVE  WalletInv'
    BY <1>3, FailWalletInv
  <1>4. ASSUME NEW t \in Threads, NEW r \in Resources, AdvanceRead(t, r)
        PROVE  WalletInv'
    BY <1>4, AdvanceReadWalletInv
  <1>5. ASSUME NEW t \in Threads, NEW result \in Answers, UpdateRead(t, result)
        PROVE  WalletInv'
    BY <1>5, UpdateReadWalletInv
  <1>6. ASSUME NEW t \in Threads, Write(t) PROVE WalletInv'
    BY <1>6, WriteWalletInv
  <1>7. CASE UNCHANGED vars
    BY <1>7 DEF vars, WalletInv, TypeOK, EntriesValid, Busy, Atomic!InWallet
  <1> QED
    BY <1>1, <1>2, <1>3, <1>4, <1>5, <1>6, <1>7 DEF Next

(* The wallet and the leases that threads carry are leases. *)
THEOREM WalletTypeOK == Spec => []TypeOK
  BY InitWalletInv, NextWalletInv, PTL DEF Spec, WalletInv

-----------------------------------------------------------------------------
(* The operations of the two modules are the same functions of a lease. *)
LEMMA SameOperations ==
  /\ \A l : Atomic!IsSelfOwned(l) <=> IsSelfOwned(l)
  /\ \A p : Atomic!LeaseOf(Atomic!Increment(p)) = LeaseOf(Increment(p))
  /\ \A l, result : Atomic!UpdateFromLeaseUseResult(l, result)
                      = UpdateFromLeaseUseResult(l, result)
  BY DEF Atomic!IsSelfOwned, IsSelfOwned, Atomic!LeaseOf, LeaseOf,
         Atomic!Increment, Increment,
         Atomic!UpdateFromLeaseUseResult, UpdateFromLeaseUseResult,
         Atomic!SupersedesOlderResult, SupersedesOlderResult,
         Atomic!ConcernedByRevocation, ConcernedByRevocation,
         Atomic!IsValid, IsValid, Atomic!Compare, Compare,
         Atomic!CompareIgnoringResource, CompareIgnoringResource,
         Atomic!Agree, Agree, Atomic!Before, Before, Atomic!Shorter, Shorter

-----------------------------------------------------------------------------
(* The operations of the wallet are whole, unless a thread is overtaken *)

(* What t is about to store was made of the copy it read, by advancing it  *)
(* or by one of the results.                                               *)
MadeOfCopy(t, results) ==
  LET copy == op[t].copy IN
  \/ /\ op[t].kind = "advance"
     /\ IsSelfOwned(copy)
     /\ op[t].lease = LeaseOf(Increment(copy.proto))
  \/ /\ op[t].kind = "update"
     /\ \E result \in results :
          /\ result.attempted.resource = op[t].resource
          /\ op[t].lease = UpdateFromLeaseUseResult(copy, result)

AllMade(results) == \A t \in Threads : Busy(t) => MadeOfCopy(t, results)

(* The copy and what is made of it belong to the thread: no other step     *)
(* touches them (lease_wallet.cpp:139, lease_wallet.cpp:155).              *)
LEMMA StaysMade ==
  ASSUME WalletInv, NEW results, AllMade(results),
         \/ UNCHANGED op
         \/ \E t \in Threads : Write(t)
         \/ \E t \in Threads, r \in Resources : AdvanceRead(t, r)
         \/ \E t \in Threads, result \in results : UpdateRead(t, result)
  PROVE  AllMade(results)'
  <1> SUFFICES ASSUME NEW u \in Threads, Busy(u)'
               PROVE  MadeOfCopy(u, results)'
    BY DEF AllMade
  <1>1. CASE op'[u] = op[u]
    BY <1>1 DEF AllMade, MadeOfCopy, Busy
  <1>2. ASSUME NEW t \in Threads, NEW r \in Resources, AdvanceRead(t, r)
        PROVE  MadeOfCopy(u, results)'
    <2>1. CASE u # t
      BY <1>1, <1>2, <2>1 DEF AdvanceRead, Hold, WalletInv, TypeOK
    <2>2. CASE u = t
      <3>1. op'[t] = [kind |-> "advance", resource |-> r, copy |-> wallet[r],
                      lease |-> LeaseOf(Increment(wallet[r].proto))]
        BY <1>2 DEF AdvanceRead, Hold, WalletInv, TypeOK
      <3>2. IsSelfOwned(wallet[r])
        BY <1>2 DEF AdvanceRead, Atomic!Owned, Atomic!IsSelfOwned, IsSelfOwned
      <3> QED
        BY <2>2, <3>1, <3>2 DEF MadeOfCopy
    <2> QED
      BY <2>1, <2>2
  <1>3. ASSUME NEW t \in Threads, NEW result \in results, UpdateRead(t, result)
        PROVE  MadeOfCopy(u, results)'
    <2>1. CASE u # t
      BY <1>1, <1>3, <2>1 DEF UpdateRead, Hold, WalletInv, TypeOK
    <2>2. CASE u = t
      <3>1. PICK r : r = result.attempted.resource
        OBVIOUS
      <3>2. op'[t] = [kind |-> "update", resource |-> r, copy |-> wallet[r],
                      lease |-> UpdateFromLeaseUseResult(wallet[r], result)]
        BY <1>3, <3>1 DEF UpdateRead, Hold, WalletInv, TypeOK
      <3> QED
        BY <2>2, <3>1, <3>2 DEF MadeOfCopy
    <2> QED
      BY <2>1, <2>2
  <1>4. ASSUME NEW t \in Threads, Write(t) PROVE MadeOfCopy(u, results)'
    <2>1. u # t
      BY <1>4 DEF Write, Busy, Idle, WalletInv, TypeOK
    <2> QED
      BY <1>1, <1>4, <2>1 DEF Write, WalletInv, TypeOK
  <1> QED
    BY <1>1, <1>2, <1>3, <1>4

LEMMA NextAllMade ==
  WalletInv /\ AllMade(Answers) /\ [Next]_vars => AllMade(Answers)'
  <1>1. [Next]_vars =>
          \/ UNCHANGED op
          \/ \E t \in Threads : Write(t)
          \/ \E t \in Threads, r \in Resources : AdvanceRead(t, r)
          \/ \E t \in Threads, result \in Answers : UpdateRead(t, result)
    BY DEF Next, vars, AddLease, RemoveLease, FailLease
  <1> QED
    BY <1>1, StaysMade

(* A thread that was not overtaken stores what the whole operation makes   *)
(* of the entry as it is.                                                  *)
LEMMA StepIsWhole ==
  ASSUME WalletInv, AllMade(Answers), [Next]_vars
  PROVE  [Atomic!Next \/ \E t \in Threads : Overtaken(t) /\ Write(t)]_wallet
  <1>1. ASSUME NEW g \in Grants, NEW s \in LeaseStatus, NEW subLease \in BOOLEAN,
               AddLease(g.resource, [proto |-> g, status |-> s], subLease)
        PROVE  Atomic!Next
    BY <1>1 DEF AddLease, Atomic!Next, Atomic!LeaseStatus, LeaseStatus
  <1>2. ASSUME NEW r \in Resources, RemoveLease(r) PROVE Atomic!Next
    BY <1>2 DEF RemoveLease, Atomic!Next
  <1>3. ASSUME NEW r \in Resources, Atomic!InWallet(r), FailLease(wallet[r].proto)
        PROVE  Atomic!Next
    BY <1>3 DEF FailLease, Atomic!Next
  <1>4. ASSUME NEW t \in Threads, Write(t), ~Overtaken(t) PROVE Atomic!Next
    <2> DEFINE r == op[t].resource
    <2>1. /\ r \in Resources /\ Atomic!Put(r, op[t].lease) /\ Busy(t)
          /\ op[t].copy = wallet[r] /\ Atomic!InWallet(r)
      BY <1>4, WalletConstants
         DEF Write, WalletInv, TypeOK, Atomic!AddLease, Atomic!Entry, Overtaken,
             Atomic!InWallet
    <2>2. MadeOfCopy(t, Answers)
      BY <2>1 DEF AllMade
    <2>3. CASE op[t].kind = "advance"
      <3>1. IsSelfOwned(wallet[r]) /\ op[t].lease = LeaseOf(Increment(wallet[r].proto))
        BY <2>1, <2>2, <2>3 DEF MadeOfCopy
      <3>2. Atomic!AdvanceLease(r)
        BY <2>1, <3>1, SameOperations DEF Atomic!AdvanceLease, Atomic!Owned
      <3> QED
        BY <2>1, <3>2 DEF Atomic!Next
    <2>4. CASE op[t].kind = "update"
      <3>1. PICK result \in Answers :
              /\ result.attempted.resource = r
              /\ op[t].lease = UpdateFromLeaseUseResult(wallet[r], result)
        BY <2>1, <2>2, <2>4 DEF MadeOfCopy
      <3>2. Atomic!OnLeaseUseResult(result)
        BY <2>1, <3>1, SameOperations DEF Atomic!OnLeaseUseResult
      <3> QED
        BY <3>2 DEF Atomic!Next
    <2> QED
      BY <2>2, <2>3, <2>4 DEF MadeOfCopy
  <1>5. ASSUME NEW t \in Threads, NEW r \in Resources, AdvanceRead(t, r)
        PROVE  UNCHANGED wallet
    BY <1>5 DEF AdvanceRead
  <1>6. ASSUME NEW t \in Threads, NEW result \in Answers, UpdateRead(t, result)
        PROVE  UNCHANGED wallet
    BY <1>6 DEF UpdateRead
  <1>7. CASE UNCHANGED vars
    BY <1>7 DEF vars
  <1> QED
    BY <1>1, <1>2, <1>3, <1>4, <1>5, <1>6, <1>7 DEF Next

(* However the threads interleave, each change of the wallet is a whole    *)
(* operation, except where a thread stores what it made of an entry that   *)
(* was changed since it read it.                                           *)
THEOREM WalletChangesAreWhole == Spec => ChangesAreWhole
  <1>1. Init => AllMade(Answers)
    BY DEF Init, AllMade, Busy, Idle
  <1>2. WalletInv /\ AllMade(Answers) /\ [Next]_vars
        => [Atomic!Next \/ \E t \in Threads : Overtaken(t) /\ Write(t)]_wallet
    BY StepIsWhole
  <1> QED
    BY <1>1, <1>2, InitWalletInv, NextWalletInv, NextAllMade, PTL
       DEF Spec, ChangesAreWhole

-----------------------------------------------------------------------------
(* The client and the lease service *)

(* The two numbers of a lease of the client: of the grant it derives from, *)
(* and of its uses since.                                                  *)
Root(p) == p.sequence[1]
Use(p)  == p.sequence[2]

(* p derives from one of the leases G by subleasing: its first number is   *)
(* not the last, so that Increment leaves it alone.                        *)
DerivesFrom(p, G) ==
  /\ p \in LeaseProto /\ IsValid(p)
  /\ Len(p.sequence) = 2
  /\ \E g \in G :
       /\ p.resource = g.resource
       /\ p.epoch = g.epoch
       /\ p.sequence[1] = g.sequence[1]

(* What the wallet holds and its threads are about to store. *)
StoreInv ==
  /\ WalletInv
  /\ \A r \in Resources : Atomic!InWallet(r) => DerivesFrom(wallet[r].proto, granted)
  /\ \A t \in Threads : Busy(t) => DerivesFrom(op[t].lease.proto, granted)

(* What a call carries, given the leases G that the robot granted. *)
CallOK(k, G) ==
  /\ k.kind # "none" => k.proto.resource \in Resources
  /\ k.kind \in {"use", "return"} => DerivesFrom(k.proto, G)
  /\ k.kind \in {"acquire", "take"} /\ k.status = "OK" =>
       k.latest \in G /\ k.latest.resource = k.proto.resource

CallsInv ==
  /\ calls \in [Calls -> Call]
  /\ \A c \in Calls : CallOK(calls[c], granted)

(* The robot has granted g and, in this epoch, nothing before it since. *)
SoFar(g) ==
  \/ g.epoch < epoch
  \/ g.epoch = epoch /\ Root(g) <= latest[g.resource][1]

(* What the robot knows of a resource: a grant, or a use of one. *)
Known == {s \in Seq(SeqNumber) : Len(s) \in {1, 2}}

RobotInv ==
  /\ epoch \in Epochs
  /\ latest \in [Resources -> Known]
  /\ holder \in [Resources -> {"us", "other", "nobody"}]
  /\ granted \subseteq {p \in LeaseProto : IsValid(p) /\ Len(p.sequence) = 1}
  /\ \A g \in granted : SoFar(g)

IssuedInv ==
  /\ issued \in [Resources -> Lease \cup {NoLease}]
  /\ \A r \in Resources : issued[r] # NoLease =>
       issued[r].proto.resource = r /\ DerivesFrom(issued[r].proto, granted)

(* The inductive invariant: the leases the client keeps, sends and waits   *)
(* for derive from those it was granted.                                   *)
SysInv == StoreInv /\ CallsInv /\ RobotInv /\ IssuedInv

-----------------------------------------------------------------------------
(* Derivation *)

(* More grants take nothing away. *)
LEMMA DerivationGrows ==
  ASSUME NEW G, NEW H, G \subseteq H, NEW p, DerivesFrom(p, G)
  PROVE  DerivesFrom(p, H)
  BY DEF DerivesFrom

(* A sublease of a granted lease derives from it. *)
LEMMA SubleaseDerives ==
  ASSUME NEW G, NEW g \in G, g \in LeaseProto, IsValid(g), Len(g.sequence) = 1
  PROVE  DerivesFrom(CreateSublease(g), G)
  <1> DEFINE s == g.sequence
             t == CreateSublease(g).sequence
  <1>1. /\ CreateSublease(g) \in LeaseProto /\ IsValid(CreateSublease(g))
        /\ CreateSublease(g).resource = g.resource
        /\ CreateSublease(g).epoch = g.epoch
        /\ t = Append(s, 0)
    BY SubleaseType DEF CreateSublease, LeaseProto
  <1>2. s \in Seq(SeqNumber) /\ Len(s) \in Nat \ {0}
    BY EmptySeq DEF LeaseProto, IsValid
  <1>3. Len(t) = 2 /\ t[1] = s[1]
    BY <1>1, <1>2
  <1> QED
    BY <1>1, <1>3 DEF DerivesFrom

(* So does the lease once it is incremented. *)
LEMMA IncrementDerives ==
  ASSUME NEW G, NEW p, DerivesFrom(p, G)
  PROVE  DerivesFrom(Increment(p), G)
  <1> DEFINE s == p.sequence
             n == Len(s)
             q == [s EXCEPT ![n] = (s[n] + 1) % SeqMod]
  <1>1. p \in LeaseProto /\ IsValid(p) /\ n = 2
    BY DEF DerivesFrom
  <1>2. /\ Increment(p) \in LeaseProto /\ IsValid(Increment(p))
        /\ Increment(p).resource = p.resource
        /\ Increment(p).epoch = p.epoch
        /\ Increment(p).sequence = q
    BY <1>1, IncrementType DEF Increment, LeaseProto
  <1>3. s \in Seq(SeqNumber) /\ n \in Nat
    BY <1>1 DEF LeaseProto
  <1>4. Len(q) = 2 /\ q[1] = s[1]
    BY <1>1, <1>3
  <1> QED
    BY <1>2, <1>4 DEF DerivesFrom

-----------------------------------------------------------------------------
(* The parts of the invariant, under the steps that leave the rest alone *)

(* A wallet that nothing happens to keeps its leases. *)
LEMMA StoreKept ==
  ASSUME StoreInv, UNCHANGED <<wallet, op>>, granted \subseteq granted'
  PROVE  StoreInv'
  <1>1. WalletInv'
    BY DEF StoreInv, WalletInv, TypeOK, EntriesValid, Atomic!InWallet, Busy
  <1>2. ASSUME NEW r \in Resources, Atomic!InWallet(r)'
        PROVE  DerivesFrom(wallet[r].proto, granted)'
    <2>1. DerivesFrom(wallet[r].proto, granted)
      BY <1>2 DEF StoreInv, Atomic!InWallet
    <2>2. DerivesFrom(wallet[r].proto, granted')
      BY <2>1, DerivationGrows
    <2> QED
      BY <2>2
  <1>3. ASSUME NEW t \in Threads, Busy(t)'
        PROVE  DerivesFrom(op[t].lease.proto, granted)'
    <2>1. DerivesFrom(op[t].lease.proto, granted)
      BY <1>3 DEF StoreInv, Busy
    <2>2. DerivesFrom(op[t].lease.proto, granted')
      BY <2>1, DerivationGrows
    <2> QED
      BY <2>2
  <1> QED
    BY <1>1, <1>2, <1>3 DEF StoreInv

(* Calls that nothing happens to are as good as they were. *)
LEMMA CallsKept ==
  ASSUME CallsInv, UNCHANGED <<calls, granted>>
  PROVE  CallsInv'
  BY DEF CallsInv

(* The robot's numbers go up. *)
Forward ==
  \/ epoch < epoch'
  \/ epoch' = epoch /\ \A r \in Resources : latest[r][1] <= latest'[r][1]

(* The numbers of messages, and of what the robot knows, are numbers. *)
LEMMA Numbers ==
  /\ Epochs \subseteq Nat /\ SeqNumber \subseteq Nat
  /\ \A s \in Known : s # <<>> /\ s[1] \in Nat
  /\ \A p \in LeaseProto :
       p.epoch \in Nat /\ \A i \in 1 .. Len(p.sequence) : p.sequence[i] \in Nat
  /\ RobotInv => /\ epoch \in Nat
                 /\ \A r \in Resources : latest[r][1] \in Nat
  <1>1. Epochs \subseteq Nat /\ SeqNumber \subseteq Nat
    BY BoundAssumption, SeqModAssumption DEF SeqNumber
  <1>2. ASSUME NEW s \in Known PROVE s # <<>> /\ s[1] \in Nat
    <2>1. s \in Clock /\ Len(s) \in {1, 2}
      BY DEF Known, Clock
    <2> QED
      BY <2>1, ClockNumbers
  <1>3. ASSUME NEW p \in LeaseProto
        PROVE  p.epoch \in Nat /\ \A i \in 1 .. Len(p.sequence) : p.sequence[i] \in Nat
    <2>1. p.sequence \in Clock /\ p.epoch \in Epochs
      BY DEF LeaseProto, Clock
    <2> QED
      BY <1>1, <2>1, ClockNumbers
  <1>4. RobotInv => epoch \in Nat /\ \A r \in Resources : latest[r][1] \in Nat
    BY <1>1, <1>2 DEF RobotInv
  <1> QED
    BY <1>1, <1>2, <1>3, <1>4

(* What was granted so far still is when the robot's numbers have gone up. *)
LEMMA SoFarStays ==
  ASSUME RobotInv, Forward, NEW g \in granted, SoFar(g),
         epoch' \in Epochs, \A r \in Resources : latest'[r][1] \in Nat
  PROVE  SoFar(g)'
  <1>1. g \in LeaseProto /\ g.resource \in Resources /\ Len(g.sequence) = 1
    BY DEF RobotInv, LeaseProto, IsValid
  <1>2. g.epoch \in Nat /\ Root(g) \in Nat /\ latest[g.resource][1] \in Nat
    BY <1>1, Numbers DEF Root
  <1> QED
    BY <1>1, <1>2, Numbers DEF SoFar, Forward

(* A robot that nothing happens to has granted what it had. *)
LEMMA RobotKept ==
  ASSUME RobotInv, UNCHANGED robot
  PROVE  RobotInv'
  BY DEF robot, RobotInv, SoFar

(* The history keeps while the robot grants nothing less. *)
LEMMA IssuedKept ==
  ASSUME IssuedInv, UNCHANGED issued, granted \subseteq granted'
  PROVE  IssuedInv'
  BY DerivationGrows DEF IssuedInv

(* One call changes, and the robot has granted nothing less. *)
LEMMA CallChanges ==
  ASSUME CallsInv, NEW c \in Calls, NEW k \in Call, CallOK(k, granted'),
         calls' = [calls EXCEPT ![c] = k], granted \subseteq granted'
  PROVE  CallsInv'
  <1>1. calls' \in [Calls -> Call]
    BY DEF CallsInv
  <1>2. ASSUME NEW d \in Calls PROVE CallOK(calls'[d], granted')
    <2>1. CASE d = c
      BY <2>1 DEF CallsInv
    <2>2. CASE d # c
      <3>1. calls'[d] = calls[d] /\ CallOK(calls[d], granted)
        BY <2>2 DEF CallsInv
      <3> QED
        BY <3>1, DerivationGrows DEF CallOK
    <2> QED
      BY <2>1, <2>2
  <1> QED
    BY <1>1, <1>2 DEF CallsInv

(* A free call and a message with nothing in it have the right types. *)
LEMMA FreeType ==
  /\ Nothing \in LeaseProto
  /\ Free \in Call
  /\ \A G : CallOK(Free, G)
  <1>1. 0 \in Epochs
    BY BoundAssumption
  <1>2. Nothing \in LeaseProto
    BY <1>1 DEF Nothing, LeaseProto
  <1> QED
    BY <1>2 DEF Free, Call, CallOK

(* A call that is over is free. *)
LEMMA FinishKeepsCalls ==
  ASSUME CallsInv, NEW c \in Calls, Finish(c), UNCHANGED granted
  PROVE  CallsInv'
  BY FreeType, CallChanges DEF Finish

(* A call that is sent carries a resource or one of the client's leases. *)
LEMMA SendKeepsCalls ==
  ASSUME CallsInv, NEW c \in Calls, NEW kind, NEW p \in LeaseProto, Send(c, kind, p),
         UNCHANGED granted, p.resource \in Resources,
         \/ kind \in {"acquire", "take"}
         \/ kind \in {"use", "return"} /\ DerivesFrom(p, granted)
  PROVE  CallsInv'
  <1> DEFINE k == [Free EXCEPT !.kind = kind, !.waiting = TRUE, !.proto = p]
  <1>1. kind \in LeaseKind \cup {"use"}
    BY DEF LeaseKind
  <1>2. Free \in Call /\ Free.status = "PENDING"
    BY FreeType DEF Free
  <1>3. /\ k \in Call
        /\ k.kind = kind /\ k.proto = p /\ k.status = "PENDING"
    BY <1>1, <1>2 DEF Call
  <1>4. CallOK(k, granted')
    BY <1>3 DEF CallOK
  <1>5. calls' = [calls EXCEPT ![c] = k]
    BY DEF Send
  <1> QED
    BY <1>3, <1>4, <1>5, CallChanges

(* An answer carries a status and a lease. *)
LEMMA AnswerKeepsCalls ==
  ASSUME CallsInv, NEW c \in Calls, NEW status, NEW p \in LeaseProto,
         Answer(c, status, p), calls[c].kind # "none",
         status \in UseStatus \cup {"REFUSED"}, granted \subseteq granted',
         calls[c].kind \in {"acquire", "take"} /\ status = "OK" =>
           p \in granted' /\ p.resource = calls[c].proto.resource
  PROVE  CallsInv'
  <1> DEFINE k == [calls[c] EXCEPT !.status = status, !.latest = p]
  <1>1. calls[c] \in Call /\ CallOK(calls[c], granted)
    BY DEF CallsInv
  <1>2. /\ k \in Call
        /\ k.kind = calls[c].kind /\ k.proto = calls[c].proto
        /\ k.status = status /\ k.latest = p
    BY <1>1 DEF Call
  <1>3. CallOK(k, granted')
    BY <1>1, <1>2, DerivationGrows DEF CallOK
  <1>4. CASE calls[c].waiting
    BY <1>2, <1>3, <1>4, CallChanges DEF Answer
  <1>5. CASE ~calls[c].waiting
    BY <1>5, FreeType, CallChanges DEF Answer
  <1> QED
    BY <1>4, <1>5

(* A lease that is added in the pump derives from the grant it comes from. *)
LEMMA AddKeepsStore ==
  ASSUME StoreInv, RobotInv, NEW g \in granted,
         AddLease(g.resource, LeaseOf(g), TRUE), UNCHANGED granted
  PROVE  StoreInv'
  <1> DEFINE r == g.resource
             l == LeaseOf(g)
             e == LeaseOf(CreateSublease(g))
  <1>1. g \in LeaseProto /\ IsValid(g) /\ r \in Resources /\ Len(g.sequence) = 1
    BY DEF RobotInv, LeaseProto, IsValid
  <1>2. l \in Lease /\ l.proto = g /\ IsSelfOwned(l)
    BY <1>1 DEF LeaseOf, Lease, LeaseStatus, IsSelfOwned
  <1>3. WalletInv'
    BY <1>1, <1>2, AddLeaseWalletInv DEF StoreInv
  <1>4. wallet' = [wallet EXCEPT ![r] = e] /\ op' = op
    BY <1>2 DEF AddLease, Atomic!AddLease, Atomic!Put, Atomic!Entry,
                Atomic!IsSelfOwned, Atomic!LeaseOf, Atomic!CreateSublease,
                IsSelfOwned, LeaseOf, CreateSublease
  <1>5. DerivesFrom(CreateSublease(g), granted)
    BY <1>1, SubleaseDerives
  <1>6. e.proto = CreateSublease(g)
    BY DEF LeaseOf
  <1>7. ASSUME NEW s \in Resources, Atomic!InWallet(s)'
        PROVE  DerivesFrom(wallet'[s].proto, granted)
    <2>1. CASE s = r
      BY <1>1, <1>4, <1>5, <1>6, <2>1 DEF StoreInv, WalletInv, TypeOK
    <2>2. CASE s # r
      BY <1>4, <1>7, <2>2 DEF StoreInv, WalletInv, TypeOK, Atomic!InWallet
    <2> QED
      BY <2>1, <2>2
  <1>8. \A t \in Threads : Busy(t)' => DerivesFrom(op'[t].lease.proto, granted)
    BY <1>4 DEF StoreInv, Busy
  <1> QED
    BY <1>3, <1>7, <1>8 DEF StoreInv

(* Removing a lease leaves the others. *)
LEMMA RemoveKeepsStore ==
  ASSUME StoreInv, NEW r \in Resources, RemoveLease(r), UNCHANGED granted
  PROVE  StoreInv'
  <1>1. WalletInv'
    BY RemoveWalletInv DEF StoreInv
  <1>2. wallet' = [wallet EXCEPT ![r] = NoLease] /\ op' = op
    BY DEF RemoveLease, Atomic!RemoveLease, Atomic!Put
  <1>3. ASSUME NEW s \in Resources, Atomic!InWallet(s)'
        PROVE  DerivesFrom(wallet'[s].proto, granted)
    BY <1>2, <1>3 DEF StoreInv, WalletInv, TypeOK, Atomic!InWallet
  <1>4. \A t \in Threads : Busy(t)' => DerivesFrom(op'[t].lease.proto, granted)
    BY <1>2 DEF StoreInv, Busy
  <1> QED
    BY <1>1, <1>3, <1>4 DEF StoreInv

(* A thread that holds a lease made of an entry holds one of the client's. *)
LEMMA HoldKeepsStore ==
  ASSUME StoreInv, WalletInv', NEW t \in Threads, NEW kind, NEW r, NEW l,
         Hold(t, kind, r, l), DerivesFrom(l.proto, granted),
         UNCHANGED <<wallet, granted>>
  PROVE  StoreInv'
  <1>1. op' = [op EXCEPT ![t] = [kind |-> kind, resource |-> r,
                                 copy |-> wallet[r], lease |-> l]]
    BY DEF Hold
  <1>2. ASSUME NEW u \in Threads, Busy(u)'
        PROVE  DerivesFrom(op'[u].lease.proto, granted)
    <2>1. CASE u = t
      BY <1>1, <2>1 DEF StoreInv, WalletInv, TypeOK
    <2>2. CASE u # t
      BY <1>1, <1>2, <2>2 DEF StoreInv, WalletInv, TypeOK, Busy
    <2> QED
      BY <2>1, <2>2
  <1>3. \A s \in Resources : Atomic!InWallet(s)' => DerivesFrom(wallet'[s].proto, granted)
    BY DEF StoreInv, Atomic!InWallet
  <1> QED
    BY <1>2, <1>3 DEF StoreInv

(* Advancing keeps a lease's first number. *)
LEMMA AdvanceKeepsStore ==
  ASSUME StoreInv, NEW t \in Threads, NEW r \in Resources, AdvanceRead(t, r),
         UNCHANGED granted
  PROVE  StoreInv'
  <1> DEFINE l == LeaseOf(Increment(wallet[r].proto))
  <1>1. WalletInv'
    BY AdvanceReadWalletInv DEF StoreInv
  <1>2. DerivesFrom(wallet[r].proto, granted)
    BY DEF StoreInv, AdvanceRead, Atomic!Owned
  <1>3. DerivesFrom(l.proto, granted)
    BY <1>2, IncrementDerives DEF LeaseOf
  <1>4. Hold(t, "advance", r, l) /\ UNCHANGED wallet
    BY DEF AdvanceRead
  <1> QED
    BY <1>1, <1>3, <1>4, HoldKeepsStore

(* A result changes at most a lease's status. *)
LEMMA UpdateKeepsStore ==
  ASSUME StoreInv, NEW t \in Threads, NEW result, UpdateRead(t, result),
         UNCHANGED granted
  PROVE  StoreInv'
  <1> DEFINE r == result.attempted.resource
             l == UpdateFromLeaseUseResult(wallet[r], result)
  <1>1. WalletInv'
    BY UpdateReadWalletInv DEF StoreInv
  <1>2. r \in Resources /\ Atomic!InWallet(r)
    BY DEF UpdateRead
  <1>3. wallet[r] \in Lease /\ DerivesFrom(wallet[r].proto, granted)
    BY <1>2 DEF StoreInv, WalletInv, TypeOK, Atomic!InWallet
  <1>4. DerivesFrom(l.proto, granted)
    BY <1>3, UpdateType
  <1>5. Hold(t, "update", r, l) /\ UNCHANGED wallet
    BY DEF UpdateRead
  <1> QED
    BY <1>1, <1>4, <1>5, HoldKeepsStore

(* What is stored is what the thread held. *)
LEMMA WriteKeepsStore ==
  ASSUME StoreInv, NEW t \in Threads, Write(t), UNCHANGED granted
  PROVE  StoreInv'
  <1> DEFINE r == op[t].resource
             l == op[t].lease
  <1>1. WalletInv'
    BY WriteWalletInv DEF StoreInv
  <1>2. r \in Resources /\ DerivesFrom(l.proto, granted)
    BY DEF StoreInv, Write, WalletInv, TypeOK
  <1>3. wallet' = [wallet EXCEPT ![r] = l] /\ op' = [op EXCEPT ![t] = Idle]
    BY DEF Write, Atomic!AddLease, Atomic!Put, Atomic!Entry
  <1>4. ASSUME NEW s \in Resources, Atomic!InWallet(s)'
        PROVE  DerivesFrom(wallet'[s].proto, granted)
    BY <1>2, <1>3, <1>4 DEF StoreInv, WalletInv, TypeOK, Atomic!InWallet
  <1>5. ASSUME NEW u \in Threads, Busy(u)'
        PROVE  DerivesFrom(op'[u].lease.proto, granted)
    BY <1>3, <1>5 DEF StoreInv, WalletInv, TypeOK, Busy, Idle
  <1> QED
    BY <1>1, <1>4, <1>5 DEF StoreInv
-----------------------------------------------------------------------------
(* The actions *)

(* At the start nothing is held, sent or granted. *)
LEMMA InitSysInv == SysInit => SysInv
  <1> SUFFICES ASSUME SysInit PROVE SysInv
    OBVIOUS
  <1>1. StoreInv
    BY InitWalletInv DEF SysInit, Init, StoreInv, Busy, Idle, Atomic!InWallet
  <1>2. CallsInv
    BY FreeType DEF SysInit, CallsInv
  <1>3. RobotInv
    <2>1. 0 \in Epochs
      BY BoundAssumption
    <2>2. <<0>> \in Seq(SeqNumber) /\ Len(<<0>>) = 1
      BY SeqModAssumption DEF SeqNumber
    <2> QED
      BY <2>1, <2>2 DEF SysInit, RobotInv, Known
  <1>4. IssuedInv
    BY DEF SysInit, IssuedInv
  <1> QED
    BY <1>1, <1>2, <1>3, <1>4 DEF SysInv

(* What the program's threads do keeps the invariant. *)
LEMMA ClientSysInv ==
  ASSUME SysInv, Client
  PROVE  SysInv'
  <1> USE DEF SysInv
  <1>1. ASSUME NEW c \in Calls, NEW r \in Resources, NEW kind \in {"acquire", "take"},
               RequestLease(c, kind, r)
        PROVE  SysInv'
    <2> DEFINE p == [Nothing EXCEPT !.resource = r]
    <2>1. p \in LeaseProto /\ p.resource = r
      BY FreeType DEF LeaseProto
    <2>2. CallsInv'
      BY <1>1, <2>1, SendKeepsCalls DEF RequestLease, robot
    <2> QED
      BY <1>1, <2>2, StoreKept, RobotKept, IssuedKept DEF RequestLease, robot
  <1>2. ASSUME NEW c \in Calls, NEW r \in Resources, NEW kind \in {"use", "return"},
               SendAsIs(c, kind, r)
        PROVE  SysInv'
    <2> DEFINE p == wallet[r].proto
    <2>1. DerivesFrom(p, granted)
      BY <1>2 DEF SendAsIs, StoreInv
    <2>2. p \in LeaseProto /\ p.resource \in Resources
      BY <2>1 DEF DerivesFrom, LeaseProto, IsValid
    <2>3. CallsInv'
      BY <1>2, <2>1, <2>2, SendKeepsCalls DEF SendAsIs, robot
    <2> QED
      BY <1>2, <2>3, StoreKept, RobotKept, IssuedKept DEF SendAsIs, robot
  <1>3. ASSUME NEW t \in Threads, NEW r \in Resources, BeginUse(t, r)
        PROVE  SysInv'
    <2>1. StoreInv'
      BY <1>3, AdvanceKeepsStore DEF BeginUse, robot
    <2> QED
      BY <1>3, <2>1, CallsKept, RobotKept, IssuedKept DEF BeginUse, robot
  <1>4. ASSUME NEW t \in Threads, NEW c \in Calls, EndUse(t, c)
        PROVE  SysInv'
    <2> DEFINE p == op[t].lease.proto
    <2>1. Busy(t)
      BY <1>4 DEF EndUse, Busy
    <2>2. /\ DerivesFrom(p, granted) /\ op[t].lease \in Lease
          /\ op[t].resource \in Resources
          /\ p.resource = op[t].resource
      BY <2>1 DEF StoreInv, WalletInv, TypeOK, EntriesValid
    <2>3. p \in LeaseProto /\ p.resource \in Resources
      BY <2>2 DEF DerivesFrom, LeaseProto, IsValid
    <2>4. CallsInv'
      BY <1>4, <2>2, <2>3, SendKeepsCalls DEF EndUse, robot
    <2>5. StoreInv'
      BY <1>4, WriteKeepsStore DEF EndUse, robot
    <2>6. IssuedInv'
      BY <1>4, <2>2 DEF EndUse, robot, IssuedInv
    <2> QED
      BY <1>4, <2>4, <2>5, <2>6, RobotKept DEF EndUse, robot
  <1> QED
    BY <1>1, <1>2, <1>3, <1>4 DEF Client

(* The lease the robot would grant next, while it grants any. *)
LEMMA GrantType ==
  ASSUME RobotInv, NEW r \in Resources, latest[r][1] < MaxRoot
  PROVE  /\ Grant(r) \in LeaseProto /\ IsValid(Grant(r)) /\ Grant(r).resource = r
         /\ Grant(r).epoch = epoch /\ Grant(r).sequence = <<latest[r][1] + 1>>
         /\ Grant(r).sequence \in {s \in Seq(SeqNumber) : Len(s) = 1}
         /\ Root(Grant(r)) = latest[r][1] + 1
  <1>1. latest[r] \in Seq(SeqNumber) /\ Len(latest[r]) \in {1, 2}
    BY DEF RobotInv, Known
  <1>2. latest[r][1] \in SeqNumber
    BY <1>1
  <1>3. latest[r][1] + 1 \in SeqNumber
    BY <1>2, BoundAssumption, SeqModAssumption DEF SeqNumber
  <1>4. <<latest[r][1] + 1>> \in {s \in Seq(SeqNumber) : Len(s) = 1}
    BY <1>3
  <1>5. r # NoResource
    BY NoResourceAssumption
  <1> QED
    BY <1>4, <1>5 DEF Grant, RobotInv, LeaseProto, IsValid, Root

(* The robot's records after it has granted its next lease. *)
LEMMA GrantKeepsRobot ==
  ASSUME RobotInv, NEW r \in Resources, latest[r][1] < MaxRoot,
         latest' = [latest EXCEPT ![r] = Grant(r).sequence],
         NEW h \in {"us", "other"}, holder' = [holder EXCEPT ![r] = h],
         granted' \in {granted, granted \cup {Grant(r)}}, epoch' = epoch
  PROVE  RobotInv' /\ Forward
  <1>1. /\ Grant(r) \in LeaseProto /\ IsValid(Grant(r)) /\ Grant(r).resource = r
        /\ Grant(r).epoch = epoch
        /\ Grant(r).sequence \in {s \in Seq(SeqNumber) : Len(s) = 1}
        /\ Root(Grant(r)) = latest[r][1] + 1
    BY GrantType
  <1>2. /\ latest' \in [Resources -> Known]
        /\ latest'[r][1] = latest[r][1] + 1
        /\ \A s \in Resources : s # r => latest'[s] = latest[s]
    BY <1>1 DEF RobotInv, Root, Known
  <1>3. \A s \in Resources : latest[s][1] \in Nat /\ latest'[s][1] \in Nat
    BY <1>2, Numbers DEF RobotInv
  <1>4. Forward
    BY <1>2, <1>3 DEF Forward
  <1>5. \A g \in granted : SoFar(g)'
    BY <1>3, <1>4, SoFarStays DEF RobotInv
  <1>6. PICK g : g = Grant(r)
    OBVIOUS
  <1>7. SoFar(g)'
    <2>1. g.epoch = epoch' /\ Root(g) <= latest'[g.resource][1]
      BY <1>1, <1>2, <1>3, <1>6
    <2> QED
      BY <2>1 DEF SoFar
  <1>8. granted' \subseteq granted \cup {g}
    BY <1>6
  <1>9. g \in LeaseProto /\ IsValid(g) /\ Len(g.sequence) = 1
    BY <1>1, <1>6
  <1> QED
    BY <1>2, <1>4, <1>5, <1>7, <1>8, <1>9 DEF RobotInv

(* A lease the robot honours is not behind what it knows. *)
LEMMA HonouredIsAhead ==
  ASSUME RobotInv, NEW p, DerivesFrom(p, granted), UseVerdict(p) = "OK"
  PROVE  p.epoch = epoch /\ latest[p.resource][1] <= Root(p)
  <1> DEFINE r == p.resource
             q == LatestProto(r)
             s == p.sequence
             t == q.sequence
  <1>1. p.epoch = epoch /\ Compare(p, q) # "OLDER"
    BY DEF UseVerdict
  <1>2. r \in Resources /\ p \in LeaseProto /\ IsValid(p) /\ Len(s) = 2
    BY DEF DerivesFrom, LeaseProto, IsValid
  <1>3. /\ q \in LeaseProto /\ IsValid(q) /\ q.resource = r /\ q.epoch = epoch
        /\ t = latest[r] /\ Len(t) \in {1, 2}
    <2>1. latest[r] \in Known /\ latest[r] # <<>>
      BY <1>2, Numbers DEF RobotInv
    <2> QED
      BY <1>2, <2>1 DEF LatestProto, RobotInv, LeaseProto, IsValid, Known
  <1>4. ~Before(s, t)
    BY <1>1, <1>2, <1>3, CompareMeaning
  <1>5. s[1] \in Nat /\ t[1] \in Nat /\ Shorter(s, t) \in {1, 2}
    BY <1>2, <1>3, Numbers DEF Shorter
  <1>6. ~ (s[1] < t[1])
    BY <1>4, <1>5 DEF Before
  <1> QED
    BY <1>1, <1>3, <1>5, <1>6 DEF Root

(* Who holds a resource is no matter of its grants. *)
LEMMA HolderKeepsRobot ==
  ASSUME RobotInv, NEW r, \/ holder' = holder
                          \/ holder' = [holder EXCEPT ![r] = "nobody"],
         UNCHANGED <<epoch, latest, granted>>
  PROVE  RobotInv'
  BY DEF RobotInv, SoFar

(* What the robot does keeps the invariant. *)
LEMMA RobotSysInv ==
  ASSUME SysInv, Robot
  PROVE  SysInv'
  <1> USE DEF SysInv
  <1>1. ASSUME NEW c \in Calls, ServeAcquire(c) PROVE SysInv'
    <2> DEFINE r == calls[c].proto.resource
    <2>1. r \in Resources /\ calls[c].kind # "none"
      BY <1>1 DEF ServeAcquire, CallsInv, CallOK
    <2>2. CASE Answer(c, "REFUSED", Nothing) /\ UNCHANGED <<latest, holder, granted>>
      <3>1. CallsInv'
        BY <2>1, <2>2, FreeType, AnswerKeepsCalls
      <3> QED
        BY <1>1, <2>2, <3>1, StoreKept, RobotKept, IssuedKept DEF ServeAcquire, robot
    <2>3. CASE /\ latest[r][1] < MaxRoot
               /\ latest' = [latest EXCEPT ![r] = Grant(r).sequence]
               /\ holder' = [holder EXCEPT ![r] = "us"]
               /\ granted' = granted \cup {Grant(r)}
               /\ Answer(c, "OK", Grant(r))
      <3>1. Grant(r) \in LeaseProto /\ Grant(r).resource = r
        BY <2>1, <2>3, GrantType
      <3>2. CallsInv'
        BY <2>1, <2>3, <3>1, AnswerKeepsCalls DEF UseStatus
      <3>3. RobotInv'
        BY <1>1, <2>1, <2>3, GrantKeepsRobot DEF ServeAcquire
      <3> QED
        BY <1>1, <2>3, <3>2, <3>3, StoreKept, IssuedKept DEF ServeAcquire
    <2> QED
      BY <1>1, <2>2, <2>3 DEF ServeAcquire
  <1>2. ASSUME NEW c \in Calls, ServeUse(c) PROVE SysInv'
    <2> DEFINE p == calls[c].proto
               r == p.resource
    <2>1. DerivesFrom(p, granted) /\ calls[c].kind = "use"
      BY <1>2 DEF ServeUse, CallsInv, CallOK
    <2>2. p \in LeaseProto /\ r \in Resources
          /\ p.sequence \in Seq(SeqNumber) /\ Len(p.sequence) = 2
      BY <2>1 DEF DerivesFrom, LeaseProto, IsValid
    <2>3. /\ latest' \in [Resources -> Known]
          /\ \A s \in Resources : latest'[s] \in {latest[s], p.sequence}
          /\ \A s \in Resources : latest'[s] # latest[s] => s = r /\ UseVerdict(p) = "OK"
      BY <1>2, <2>2 DEF ServeUse, RobotInv, Known
    <2>7. \A s \in Resources : latest[s][1] \in Nat /\ latest'[s][1] \in Nat
      BY <2>3, Numbers DEF RobotInv
    <2>8. Forward
      BY <1>2, <2>1, <2>3, <2>7, HonouredIsAhead DEF ServeUse, Forward, Root
    <2>9. RobotInv'
      BY <1>2, <2>3, <2>7, <2>8, SoFarStays DEF ServeUse, RobotInv
    <2> DEFINE q == [LatestProto(r) EXCEPT !.sequence = latest'[r]]
    <2>4. q \in LeaseProto
      BY <2>2, <2>3 DEF LatestProto, RobotInv, LeaseProto, Known
    <2>5. UseVerdict(p) \in UseStatus
      BY DEF UseVerdict, UseStatus
    <2>6. CallsInv'
      BY <1>2, <2>1, <2>4, <2>5, AnswerKeepsCalls DEF ServeUse
    <2> QED
      BY <1>2, <2>6, <2>9, StoreKept, IssuedKept DEF ServeUse
  <1>3. ASSUME NEW c \in Calls, ServeReturn(c) PROVE SysInv'
    <2>1. CallsInv'
      <3> DEFINE status == IF UseVerdict(calls[c].proto) = "OK" THEN "OK" ELSE "REFUSED"
      <3>1. Answer(c, status, Nothing) /\ UNCHANGED granted
            /\ calls[c].kind = "return"
        BY <1>3 DEF ServeReturn
      <3>2. status \in UseStatus \cup {"REFUSED"}
        BY DEF UseStatus
      <3> HIDE DEF status
      <3> QED
        BY <3>1, <3>2, FreeType, AnswerKeepsCalls
    <2> QED
      BY <1>3, <2>1, HolderKeepsRobot, StoreKept, IssuedKept DEF ServeReturn
  <1>4. ASSUME NEW r \in Resources, OtherTakes(r) PROVE SysInv'
    <2>1. RobotInv'
      BY <1>4, GrantKeepsRobot DEF OtherTakes
    <2> QED
      BY <1>4, <2>1, StoreKept, CallsKept, IssuedKept DEF OtherTakes
  <1>5. ASSUME NEW r \in Resources, Release(r) PROVE SysInv'
    BY <1>5, HolderKeepsRobot, StoreKept, CallsKept, IssuedKept DEF Release
  <1>6. CASE Restart
    <2>1. <<0>> \in Seq(SeqNumber) /\ Len(<<0>>) = 1
      BY SeqModAssumption DEF SeqNumber
    <2>2. epoch' = epoch + 1 /\ epoch' \in Epochs /\ Forward
      BY <1>6, Numbers DEF Restart, Forward
    <2>3. latest' \in [Resources -> Known]
      BY <1>6, <2>1 DEF Restart, Known
    <2>6. \A r \in Resources : latest'[r][1] \in Nat
      BY <2>3, Numbers
    <2>4. \A g \in granted : SoFar(g)'
      BY <2>2, <2>6, SoFarStays DEF RobotInv
    <2>5. RobotInv'
      BY <1>6, <2>2, <2>3, <2>4 DEF Restart, RobotInv
    <2> QED
      BY <1>6, <2>5, StoreKept, CallsKept, IssuedKept DEF Restart
  <1> QED
    BY <1>1, <1>2, <1>3, <1>4, <1>5, <1>6 DEF Robot

(* What the completions do keeps the invariant. *)
LEMMA CompletionSysInv ==
  ASSUME SysInv, Completion
  PROVE  SysInv'
  <1> USE DEF SysInv
  <1>1. ASSUME NEW c \in Calls, OnAcquireComplete(c) PROVE SysInv'
    <2> DEFINE g == calls[c].latest
    <2>1. g \in granted /\ g.resource = calls[c].proto.resource
      BY <1>1 DEF OnAcquireComplete, Completes, CallsInv, CallOK
    <2>2. StoreInv'
      BY <1>1, <2>1, AddKeepsStore DEF OnAcquireComplete, robot
    <2>3. CallsInv'
      BY <1>1, FinishKeepsCalls DEF OnAcquireComplete, robot
    <2> QED
      BY <1>1, <2>2, <2>3, RobotKept, IssuedKept DEF OnAcquireComplete, robot
  <1>2. ASSUME NEW c \in Calls, OnAcquireRefused(c) PROVE SysInv'
    BY <1>2, FinishKeepsCalls, StoreKept, RobotKept, IssuedKept DEF OnAcquireRefused, robot
  <1>3. ASSUME NEW c \in Calls, OnReturnLeaseComplete(c) PROVE SysInv'
    <2>1. calls[c].proto.resource \in Resources
      BY <1>3 DEF OnReturnLeaseComplete, Completes, CallsInv, CallOK
    <2>2. StoreInv'
      BY <1>3, <2>1, RemoveKeepsStore DEF OnReturnLeaseComplete, robot
    <2>3. CallsInv'
      BY <1>3, FinishKeepsCalls DEF OnReturnLeaseComplete, robot
    <2> QED
      BY <1>3, <2>2, <2>3, RobotKept, IssuedKept DEF OnReturnLeaseComplete, robot
  <1>4. ASSUME NEW c \in Calls, OnUseComplete(c) PROVE SysInv'
    <2>1. CallsInv'
      BY <1>4, FinishKeepsCalls DEF OnUseComplete, robot
    <2>2. StoreInv'
      BY <1>4, PumpAssumption, UpdateKeepsStore, StoreKept DEF OnUseComplete, robot
    <2> QED
      BY <1>4, <2>1, <2>2, RobotKept, IssuedKept DEF OnUseComplete, robot
  <1>5. ASSUME NEW c \in Calls, Expire(c) PROVE SysInv'
    <2> DEFINE k == IF calls[c].status = "PENDING"
                    THEN [calls[c] EXCEPT !.waiting = FALSE] ELSE Free
    <2>1. calls[c] \in Call /\ CallOK(calls[c], granted)
      BY DEF CallsInv
    <2>2. k \in Call /\ CallOK(k, granted)
      <3>1. CASE calls[c].status = "PENDING"
        BY <2>1, <3>1 DEF Call, CallOK
      <3>2. CASE calls[c].status # "PENDING"
        BY <3>2, FreeType
      <3> QED
        BY <3>1, <3>2
    <2>3. calls' = [calls EXCEPT ![c] = k] /\ UNCHANGED granted
      BY <1>5 DEF Expire, robot
    <2> HIDE DEF k
    <2>4. CallsInv'
      BY <2>2, <2>3, CallChanges
    <2>5. StoreInv'
      <3>1. CASE calls[c].kind = "return"
        <4>1. calls[c].proto.resource \in Resources
          BY <2>1, <3>1 DEF CallOK
        <4> QED
          BY <1>5, <2>3, <3>1, <4>1, RemoveKeepsStore DEF Expire
      <3>2. CASE calls[c].kind # "return"
        BY <1>5, <2>3, <3>2, StoreKept DEF Expire
      <3> QED
        BY <3>1, <3>2
    <2> QED
      BY <1>5, <2>4, <2>5, RobotKept, IssuedKept DEF Expire, robot
  <1>6. ASSUME NEW c \in Calls, Lose(c) PROVE SysInv'
    BY <1>6, FinishKeepsCalls, StoreKept, RobotKept, IssuedKept DEF Lose, robot
  <1>7. CASE EndUpdate
    <2>1. StoreInv'
      BY <1>7, PumpAssumption, WriteKeepsStore DEF EndUpdate, robot
    <2> QED
      BY <1>7, <2>1, CallsKept, RobotKept, IssuedKept DEF EndUpdate, robot
  <1> QED
    BY <1>1, <1>2, <1>3, <1>4, <1>5, <1>6, <1>7 DEF Completion

(* The invariant holds always. *)
LEMMA SysInvariant == SysSpec => []SysInv
  <1>1. SysInv /\ [SysNext]_sysVars => SysInv'
    <2>1. SysInv /\ UNCHANGED sysVars => SysInv'
      BY StoreKept, CallsKept, RobotKept, IssuedKept DEF SysInv, sysVars, robot
    <2> QED
      BY <2>1, ClientSysInv, RobotSysInv, CompletionSysInv DEF SysNext
  <1> QED
    BY <1>1, InitSysInv, PTL DEF SysSpec

-----------------------------------------------------------------------------
(* The wallet, the calls, the robot and the history have their types.      *)
THEOREM SystemTypeOK == SysSpec => []SysTypeOK
  <1>1. SysInv => SysTypeOK
    <2>1. Known \subseteq Seq(SeqNumber) \ {<<>>}
      BY Numbers DEF Known
    <2> QED
      BY <2>1 DEF SysInv, StoreInv, WalletInv, CallsInv, RobotInv, IssuedInv, SysTypeOK
  <1> QED
    BY <1>1, SysInvariant, PTL

(* Whatever calls overlap, are lost or answered late, and whatever leases  *)
(* of others the robot mentions in its results, the client keeps and sends *)
(* only leases derived from those it was granted (lease.cpp:199).          *)
THEOREM SystemNoForeignLease == SysSpec => []NoForeignLease
  <1>1. ASSUME NEW p, DerivesFrom(p, granted) PROVE FromGrant(p)
    BY <1>1, EmptySeq DEF DerivesFrom, FromGrant, IsValid
  <1>2. SysInv => NoForeignLease
    BY <1>1 DEF SysInv, StoreInv, CallsInv, CallOK, NoForeignLease
  <1> QED
    BY <1>2, SysInvariant, PTL

-----------------------------------------------------------------------------
(* The order of leases, when the program keeps operations apart *)

(* The robot granted p before q. *)
GrantedBefore(p, q) ==
  \/ p.epoch < q.epoch
  \/ p.epoch = q.epoch /\ Root(p) < Root(q)

SameGrant(p, q) == p.epoch = q.epoch /\ Root(p) = Root(q)

NotNewer(p, q) == GrantedBefore(p, q) \/ (SameGrant(p, q) /\ Use(p) <= Use(q))

(* The leases for r that calls carry, and the last that was handed out. *)
Carries(k, r) == k.kind \in {"use", "return"} /\ k.proto.resource = r

Handed(r) ==
  {calls[c].proto : c \in {d \in Calls : Carries(calls[d], r)}}
    \cup {issued[s].proto : s \in {u \in {r} : issued[u] # NoLease}}

(* The grants for r that the client is about to learn of. *)
Brings(k, r) ==
  /\ k.kind \in {"acquire", "take"} /\ k.waiting /\ k.status = "OK"
  /\ k.proto.resource = r

Arriving(r) == {calls[c].latest : c \in {d \in Calls : Brings(calls[d], r)}}

(* The wallet's lease is not older than any that was handed out, and a     *)
(* grant on its way is newer than all of them.                             *)
Ordered(r) ==
  /\ Atomic!InWallet(r) => \A p \in Handed(r) : NotNewer(p, wallet[r].proto)
  /\ \A g \in Arriving(r) :
       /\ Atomic!InWallet(r) => GrantedBefore(wallet[r].proto, g)
       /\ \A p \in Handed(r) : GrantedBefore(p, g)

(* What t is about to store was made of the lease that is in the wallet. *)
Copied(t) ==
  LET r == op[t].resource  w == wallet[r].proto  p == op[t].lease.proto IN
  /\ Atomic!InWallet(r)
  /\ op[t].kind = "advance" => p = Increment(w) /\ Use(w) < MaxUse
  /\ op[t].kind = "update" => p = w

ThreadsInv ==
  /\ OneOperationPerResource
  /\ \A t \in Threads : Busy(t) => Copied(t)
  /\ op[Pump].kind # "advance"

Settles(k) == k.waiting /\ k.kind \in LeaseKind

OneSettles ==
  \A c, d \in Calls :
    /\ Settles(calls[c]) /\ Settles(calls[d])
    /\ calls[c].proto.resource = calls[d].proto.resource
    => c = d

OrderInv ==
  /\ ThreadsInv
  /\ OneSettles
  /\ \A r \in Resources : Ordered(r)

-----------------------------------------------------------------------------
(* The numbers of a lease of the client are numbers. *)
LEMMA PairNumbers ==
  ASSUME NEW G, NEW p, DerivesFrom(p, G)
  PROVE  p.epoch \in Nat /\ Root(p) \in Nat /\ Use(p) \in Nat
  BY Numbers DEF DerivesFrom, Root, Use

(* Advancing a lease adds one to its uses. *)
LEMMA IncrementCounts ==
  ASSUME NEW G, NEW p, DerivesFrom(p, G), Use(p) < MaxUse
  PROVE  SameGrant(p, Increment(p)) /\ Use(Increment(p)) = Use(p) + 1
  <1> DEFINE s == p.sequence
             q == [s EXCEPT ![2] = (s[2] + 1) % SeqMod]
  <1>1. s \in Seq(SeqNumber) /\ Len(s) = 2 /\ s[2] \in Nat
    BY PairNumbers DEF DerivesFrom, LeaseProto, Use
  <1>2. (s[2] + 1) % SeqMod = s[2] + 1
    <2>1. s[2] + 1 \in 0 .. SeqMod - 1
      BY <1>1, BoundAssumption, SeqModAssumption DEF Use
    <2> HIDE DEF s
    <2> QED
      BY <2>1, SeqModAssumption
  <1>3. Increment(p).sequence = q /\ Increment(p).epoch = p.epoch
    BY <1>1 DEF Increment, DerivesFrom, LeaseProto
  <1>4. q[1] = s[1] /\ q[2] = s[2] + 1
    BY <1>1, <1>2
  <1> QED
    BY <1>3, <1>4 DEF SameGrant, Root, Use

(* What is handed out or arrives derives from a grant, or is one. *)
Derived(r) ==
  /\ \A p \in Handed(r) : DerivesFrom(p, granted) /\ p.resource = r
  /\ \A g \in Arriving(r) : g \in granted /\ g.resource = r
  /\ Atomic!InWallet(r) =>
       DerivesFrom(wallet[r].proto, granted) /\ wallet[r].proto.resource = r

(* What is handed out derives from what was granted. *)
LEMMA HandedDerive == SysInv => \A r \in Resources : Derived(r)
  <1> SUFFICES ASSUME SysInv, NEW r \in Resources PROVE Derived(r)
    OBVIOUS
  <1>1. \A p \in Handed(r) : DerivesFrom(p, granted) /\ p.resource = r
    BY DEF SysInv, CallsInv, CallOK, IssuedInv, Handed, Carries
  <1>2. \A g \in Arriving(r) : g \in granted /\ g.resource = r
    BY DEF SysInv, CallsInv, CallOK, Arriving, Brings
  <1> QED
    BY <1>1, <1>2 DEF SysInv, StoreInv, WalletInv, EntriesValid, Derived

(* The same after a step. *)
LEMMA HandedDeriveNext == SysInv' => (\A r \in Resources : Derived(r))'
  BY HandedDerive, PTL

(* A granted lease has an epoch and a first number. *)
LEMMA GrantNumbers ==
  ASSUME SysInv, NEW g \in granted
  PROVE  g.epoch \in Nat /\ Root(g) \in Nat
  BY Numbers DEF SysInv, RobotInv, Root

(* The leases for r stay ordered while the lease in the wallet is removed, *)
(* or used, and nothing is handed out but what the wallet holds.           *)
LEMMA OrderedStep ==
  ASSUME SysInv, SysInv', NEW r \in Resources, Ordered(r),
         \/ ~Atomic!InWallet(r)'
         \/ /\ Atomic!InWallet(r) /\ SameGrant(wallet[r].proto, wallet'[r].proto)
            /\ Use(wallet[r].proto) <= Use(wallet'[r].proto),
         \A p \in Handed(r)' : p \in Handed(r) \/ (Atomic!InWallet(r)' /\ p = wallet'[r].proto),
         \A g \in Arriving(r)' : g \in Arriving(r)
  PROVE  Ordered(r)'
  <1>1. ASSUME Atomic!InWallet(r)', NEW p \in Handed(r)'
        PROVE  NotNewer(p, wallet'[r].proto)
    <2>1. DerivesFrom(p, granted') /\ DerivesFrom(wallet'[r].proto, granted')
      BY <1>1, HandedDeriveNext DEF Derived
    <2>2. CASE p = wallet'[r].proto
      BY <2>1, <2>2, PairNumbers DEF NotNewer, SameGrant
    <2>3. CASE p \in Handed(r)
      <3>1. /\ NotNewer(p, wallet[r].proto)
            /\ DerivesFrom(wallet[r].proto, granted) /\ DerivesFrom(p, granted)
        BY <1>1, <2>3, HandedDerive DEF Derived, Ordered
      <3> QED
        BY <1>1, <2>1, <3>1, PairNumbers DEF NotNewer, SameGrant, GrantedBefore
    <2> QED
      BY <1>1, <2>2, <2>3
  <1>2. ASSUME NEW g \in Arriving(r)', Atomic!InWallet(r)'
        PROVE  GrantedBefore(wallet'[r].proto, g)
    BY <1>2 DEF Ordered, GrantedBefore, SameGrant
  <1>3. ASSUME NEW g \in Arriving(r)', NEW p \in Handed(r)'
        PROVE  GrantedBefore(p, g)
    BY <1>2, <1>3 DEF Ordered
  <1> QED
    BY <1>1, <1>2, <1>3 DEF Ordered

(* One call changes: what that hands out and brings. *)
LEMMA CallsStep ==
  ASSUME NEW c \in Calls, NEW k, calls \in [Calls -> Call],
         calls' = [calls EXCEPT ![c] = k], UNCHANGED issued, NEW r
  PROVE  /\ \A p \in Handed(r)' : p \in Handed(r) \/ (Carries(k, r) /\ p = k.proto)
         /\ \A g \in Arriving(r)' : g \in Arriving(r) \/ (Brings(k, r) /\ g = k.latest)
  <1>1. \A d \in Calls : calls'[d] = IF d = c THEN k ELSE calls[d]
    OBVIOUS
  <1> QED
    BY <1>1 DEF Handed, Arriving

(* One call changes: at most one call settles a resource if the call did   *)
(* so before, or no other does.                                            *)
LEMMA SettlesStep ==
  ASSUME OneSettles, NEW c \in Calls, NEW k, calls \in [Calls -> Call],
         calls' = [calls EXCEPT ![c] = k],
         Settles(k) =>
           \/ Settles(calls[c]) /\ calls[c].proto.resource = k.proto.resource
           \/ ~Outstanding(LeaseKind, k.proto.resource)
  PROVE  OneSettles'
  <1>1. \A d \in Calls : calls'[d] = IF d = c THEN k ELSE calls[d]
    OBVIOUS
  <1> QED
    BY <1>1 DEF OneSettles, Settles, Outstanding

-----------------------------------------------------------------------------
(* The threads *)

(* Threads and a wallet that nothing happens to. *)
LEMMA ThreadsKept ==
  ASSUME ThreadsInv, UNCHANGED <<wallet, op>>
  PROVE  ThreadsInv'
  BY DEF ThreadsInv, OneOperationPerResource, Copied, Busy, Atomic!InWallet

(* An entry changes that no thread has read. *)
LEMMA ThreadsPut ==
  ASSUME ThreadsInv, WalletInv, ~Overlap, NEW r \in Resources, MayTouch(r),
         NEW l, wallet' = [wallet EXCEPT ![r] = l], UNCHANGED op
  PROVE  ThreadsInv'
  <1>1. \A t \in Threads : op[t].resource # r
    BY DEF MayTouch
  <1>2. \A s \in Resources : s # r => wallet'[s] = wallet[s]
    BY DEF WalletInv, TypeOK
  <1>3. ASSUME NEW t \in Threads, Busy(t) PROVE Copied(t)'
    <2>1. Copied(t) /\ op[t].resource \in Resources /\ op[t].resource # r
      BY <1>1, <1>3 DEF ThreadsInv, WalletInv, TypeOK
    <2> QED
      BY <1>2, <2>1 DEF Copied, Atomic!InWallet
  <1> QED
    BY <1>3 DEF ThreadsInv, OneOperationPerResource, Busy

(* A thread reads an entry that no other has read. *)
LEMMA ThreadsHold ==
  ASSUME ThreadsInv, WalletInv, ~Overlap, NEW t \in Threads, NEW r \in Resources,
         MayTouch(r), NEW kind \in {"advance", "update"}, NEW l,
         Hold(t, kind, r, l), UNCHANGED wallet, Atomic!InWallet(r),
         kind = "advance" => /\ t # Pump /\ l.proto = Increment(wallet[r].proto)
                             /\ Use(wallet[r].proto) < MaxUse,
         kind = "update" => l.proto = wallet[r].proto
  PROVE  ThreadsInv'
  <1>1. /\ op'[t] = [kind |-> kind, resource |-> r, copy |-> wallet[r], lease |-> l]
        /\ \A u \in Threads : u # t => op'[u] = op[u]
    BY DEF Hold, WalletInv, TypeOK
  <1>2. \A u \in Threads : op[u].resource # r
    BY DEF MayTouch
  <1>3. OneOperationPerResource'
    BY <1>1, <1>2 DEF ThreadsInv, OneOperationPerResource, Busy
  <1>4. Copied(t)'
    BY <1>1 DEF Copied, Atomic!InWallet
  <1>5. \A u \in Threads : Busy(u)' => Copied(u)'
    BY <1>1, <1>4 DEF ThreadsInv, Copied, Busy, Atomic!InWallet
  <1>6. op'[Pump].kind # "advance"
    BY <1>1, PumpAssumption DEF ThreadsInv
  <1> QED
    BY <1>3, <1>5, <1>6 DEF ThreadsInv

(* A thread stores what it made; no other has read the entry. *)
LEMMA ThreadsWrite ==
  ASSUME ThreadsInv, WalletInv, NEW t \in Threads, Write(t)
  PROVE  /\ ThreadsInv'
         /\ op[t].resource \in Resources /\ op[t].lease \in Lease /\ op[t].lease # NoLease
         /\ wallet' = [wallet EXCEPT ![op[t].resource] = op[t].lease]
  <1> DEFINE r == op[t].resource
  <1>1. Busy(t) /\ r \in Resources /\ op[t].lease \in Lease
    BY DEF Write, WalletInv, TypeOK
  <1>2. /\ op' = [op EXCEPT ![t] = Idle]
        /\ wallet' = [wallet EXCEPT ![r] = op[t].lease]
    BY DEF Write, Atomic!AddLease, Atomic!Put, Atomic!Entry
  <1>3. ASSUME NEW u \in Threads, Busy(u)'
        PROVE  u # t /\ op'[u] = op[u] /\ Busy(u)
    BY <1>2, <1>3 DEF WalletInv, TypeOK, Busy, Idle
  <1>4. ASSUME NEW u \in Threads, Busy(u)' PROVE Copied(u)'
    <2>1. /\ op'[u] = op[u] /\ Copied(u) /\ op[u].resource # r
          /\ op[u].resource \in Resources
      BY <1>1, <1>3, <1>4 DEF ThreadsInv, OneOperationPerResource, WalletInv, TypeOK
    <2>2. wallet'[op[u].resource] = wallet[op[u].resource]
      BY <1>1, <1>2, <2>1 DEF WalletInv, TypeOK
    <2> QED
      BY <2>1, <2>2 DEF Copied, Atomic!InWallet
  <1>5. OneOperationPerResource'
    BY <1>3 DEF ThreadsInv, OneOperationPerResource
  <1>6. op'[Pump].kind # "advance"
    BY <1>2, PumpAssumption DEF ThreadsInv, WalletInv, TypeOK, Idle
  <1>7. op[t].lease # NoLease
    BY <1>1, WalletConstants
  <1> QED
    BY <1>1, <1>2, <1>4, <1>5, <1>6, <1>7 DEF ThreadsInv

-----------------------------------------------------------------------------
(* The steps keep the order *)

(* Only what is handed out or brought changes, and only for less. *)
LEMMA OrderKept ==
  ASSUME SysInv, SysInv', OrderInv, UNCHANGED <<wallet, op>>, OneSettles',
         \A r \in Resources :
           /\ \A p \in Handed(r)' :
                p \in Handed(r) \/ (Atomic!InWallet(r)' /\ p = wallet'[r].proto)
           /\ \A g \in Arriving(r)' : g \in Arriving(r)
  PROVE  OrderInv'
  <1>1. ASSUME NEW r \in Resources PROVE Ordered(r)'
    <2>1. Atomic!InWallet(r)' => /\ Atomic!InWallet(r)
                                /\ SameGrant(wallet[r].proto, wallet'[r].proto)
                                /\ Use(wallet[r].proto) <= Use(wallet'[r].proto)
      BY HandedDerive, PairNumbers DEF Derived, Atomic!InWallet, SameGrant
    <2> QED
      BY <2>1, OrderedStep DEF OrderInv
  <1> QED
    BY <1>1, ThreadsKept DEF OrderInv

(* The wallet, the calls' leases and the history stay as they are. *)
LEMMA OrderUntouched ==
  ASSUME SysInv, SysInv', OrderInv, UNCHANGED <<wallet, op, calls, issued>>
  PROVE  OrderInv'
  BY OrderKept DEF OrderInv, OneSettles, Settles, Handed, Arriving, Carries, Brings

(* One call changes and neither carries nor brings anything new. *)
LEMMA OrderOfCall ==
  ASSUME SysInv, SysInv', OrderInv, NEW c \in Calls, NEW k,
         calls' = [calls EXCEPT ![c] = k], UNCHANGED <<wallet, op, issued>>,
         Settles(k) =>
           \/ Settles(calls[c]) /\ calls[c].proto.resource = k.proto.resource
           \/ ~Outstanding(LeaseKind, k.proto.resource),
         k.kind \in {"use", "return"} =>
           \/ k.kind = calls[c].kind /\ k.proto = calls[c].proto
           \/ /\ k.proto.resource \in Resources
              /\ Atomic!InWallet(k.proto.resource)
              /\ k.proto = wallet[k.proto.resource].proto,
         k.kind \in {"acquire", "take"} =>
           \/ k.status # "OK"
           \/ k.kind = calls[c].kind /\ k.status = calls[c].status
              /\ k.waiting = calls[c].waiting
              /\ k.proto = calls[c].proto /\ k.latest = calls[c].latest
           \/ ~k.waiting
  PROVE  OrderInv'
  <1>1. calls \in [Calls -> Call]
    BY DEF SysInv, CallsInv
  <1>2. OneSettles'
    BY <1>1, SettlesStep DEF OrderInv
  <1>3. ASSUME NEW r \in Resources, NEW p \in Handed(r)'
        PROVE  p \in Handed(r) \/ (Atomic!InWallet(r)' /\ p = wallet'[r].proto)
    <2>1. p \in Handed(r) \/ (Carries(k, r) /\ p = k.proto)
      BY <1>1, CallsStep
    <2>2. CASE Carries(k, r) /\ p = k.proto
      <3>1. CASE k.kind = calls[c].kind /\ k.proto = calls[c].proto
        BY <2>2, <3>1 DEF Carries, Handed
      <3>2. CASE Atomic!InWallet(r) /\ k.proto = wallet[r].proto
        BY <2>2, <3>2 DEF Atomic!InWallet
      <3> QED
        BY <2>2, <3>1, <3>2 DEF Carries
    <2> QED
      BY <2>1, <2>2
  <1>4. ASSUME NEW r \in Resources, NEW g \in Arriving(r)' PROVE g \in Arriving(r)
    <2>1. g \in Arriving(r) \/ (Brings(k, r) /\ g = k.latest)
      BY <1>1, CallsStep
    <2> QED
      BY <2>1 DEF Brings, Arriving
  <1> QED
    BY <1>2, <1>3, <1>4, OrderKept

(* A call that is over carries and brings nothing. *)
LEMMA OrderOfFinished ==
  ASSUME SysInv, OrderInv, NEW c \in Calls, Finish(c), UNCHANGED issued
  PROVE  /\ OneSettles'
         /\ \A r \in Resources : /\ \A p \in Handed(r)' : p \in Handed(r)
                                 /\ \A g \in Arriving(r)' : g \in Arriving(r)
  <1>1. calls \in [Calls -> Call] /\ calls' = [calls EXCEPT ![c] = Free]
    BY DEF SysInv, CallsInv, Finish
  <1>2. ~Settles(Free) /\ \A r : ~Carries(Free, r) /\ ~Brings(Free, r)
    BY DEF Free, Settles, Carries, Brings
  <1>3. OneSettles'
    BY <1>1, <1>2, SettlesStep DEF OrderInv
  <1> QED
    BY <1>1, <1>2, <1>3, CallsStep

(* An entry that no thread has read is removed. *)
LEMMA OrderOfRemoved ==
  ASSUME SysInv, SysInv', OrderInv, ~Overlap, NEW r \in Resources, RemoveLease(r),
         OneSettles',
         \A s \in Resources : /\ \A p \in Handed(s)' : p \in Handed(s)
                              /\ \A g \in Arriving(s)' : g \in Arriving(s)
  PROVE  OrderInv'
  <1>1. /\ MayTouch(r) /\ op' = op /\ wallet' = [wallet EXCEPT ![r] = NoLease]
        /\ WalletInv
    BY DEF RemoveLease, Atomic!RemoveLease, Atomic!Put, SysInv, StoreInv
  <1>2. ThreadsInv'
    BY <1>1, ThreadsPut DEF OrderInv
  <1>3. ASSUME NEW s \in Resources PROVE Ordered(s)'
    <2>1. Atomic!InWallet(s)' => /\ Atomic!InWallet(s)
                                /\ wallet'[s] = wallet[s]
      BY <1>1 DEF WalletInv, TypeOK, Atomic!InWallet
    <2>2. Atomic!InWallet(s)' => /\ SameGrant(wallet[s].proto, wallet'[s].proto)
                                /\ Use(wallet[s].proto) <= Use(wallet'[s].proto)
      BY <2>1, HandedDerive, PairNumbers DEF Derived, SameGrant
    <2> QED
      BY <2>1, <2>2, OrderedStep DEF OrderInv
  <1> QED
    BY <1>2, <1>3 DEF OrderInv

(* What a thread stores is the lease in the wallet, perhaps used once more. *)
LEMMA StoredIsNoOlder ==
  ASSUME SysInv, OrderInv, NEW t \in Threads, Write(t)
  PROVE  LET r == op[t].resource  w == wallet[r].proto  p == op[t].lease.proto IN
         /\ r \in Resources /\ Atomic!InWallet(r)
         /\ SameGrant(w, p)
         /\ op[t].kind = "advance" => Use(p) = Use(w) + 1
         /\ op[t].kind # "advance" => p = w
         /\ Use(w) \in Nat
  <1> DEFINE r == op[t].resource
             w == wallet[r].proto
             p == op[t].lease.proto
  <1>1. Busy(t) /\ r \in Resources /\ op[t].kind \in {"advance", "update"}
    BY DEF Write, SysInv, StoreInv, WalletInv, TypeOK, Op, Busy
  <1>2. /\ Atomic!InWallet(r)
        /\ op[t].kind = "advance" => p = Increment(w) /\ Use(w) < MaxUse
        /\ op[t].kind = "update" => p = w
    BY <1>1 DEF OrderInv, ThreadsInv, Copied
  <1>3. DerivesFrom(w, granted)
    BY <1>1, <1>2 DEF SysInv, StoreInv
  <1>4. op[t].kind = "advance" => SameGrant(w, p) /\ Use(p) = Use(w) + 1
    BY <1>2, <1>3, IncrementCounts
  <1> QED
    BY <1>1, <1>2, <1>3, <1>4, PairNumbers DEF SameGrant

(* A thread stores its lease, and hands out at most that. *)
LEMMA OrderOfWritten ==
  ASSUME SysInv, SysInv', OrderInv, NEW t \in Threads, Write(t), OneSettles',
         \A s \in Resources :
           /\ \A p \in Handed(s)' :
                p \in Handed(s) \/ (s = op[t].resource /\ p = op[t].lease.proto)
           /\ \A g \in Arriving(s)' : g \in Arriving(s)
  PROVE  OrderInv'
  <1> DEFINE r == op[t].resource
  <1>1. WalletInv /\ ThreadsInv
    BY DEF SysInv, StoreInv, OrderInv
  <1>2. /\ ThreadsInv' /\ r \in Resources /\ op[t].lease # NoLease
        /\ wallet' = [wallet EXCEPT ![r] = op[t].lease]
    BY <1>1, ThreadsWrite
  <1>3. ASSUME NEW s \in Resources PROVE Ordered(s)'
    <2>1. CASE s = r
      <3>1. wallet'[s] = op[t].lease /\ Atomic!InWallet(s)'
        BY <1>1, <1>2, <2>1 DEF WalletInv, TypeOK, Atomic!InWallet
      <3>2. /\ Atomic!InWallet(s) /\ SameGrant(wallet[s].proto, wallet'[s].proto)
            /\ Use(wallet[s].proto) <= Use(wallet'[s].proto)
        BY <2>1, <3>1, StoredIsNoOlder
      <3>3. \A p \in Handed(s)' : p \in Handed(s) \/ (Atomic!InWallet(s)' /\ p = wallet'[s].proto)
        BY <3>1
      <3> QED
        BY <3>2, <3>3, OrderedStep DEF OrderInv
    <2>2. CASE s # r
      <3>1. wallet'[s] = wallet[s]
        BY <1>1, <1>2, <2>2 DEF WalletInv, TypeOK
      <3>2. Atomic!InWallet(s)' => /\ Atomic!InWallet(s)
                                  /\ SameGrant(wallet[s].proto, wallet'[s].proto)
                                  /\ Use(wallet[s].proto) <= Use(wallet'[s].proto)
        BY <3>1, HandedDerive, PairNumbers DEF Derived, SameGrant, Atomic!InWallet
      <3> QED
        BY <2>2, <3>2, OrderedStep DEF OrderInv
    <2> QED
      BY <2>1, <2>2
  <1> QED
    BY <1>2, <1>3 DEF OrderInv

(* A thread reads an entry, and at most a call ends. *)
LEMMA OrderOfRead ==
  ASSUME SysInv, SysInv', OrderInv, ThreadsInv', UNCHANGED wallet, OneSettles',
         \A s \in Resources : /\ \A p \in Handed(s)' : p \in Handed(s)
                              /\ \A g \in Arriving(s)' : g \in Arriving(s)
  PROVE  OrderInv'
  <1>1. ASSUME NEW s \in Resources PROVE Ordered(s)'
    <2>1. Atomic!InWallet(s)' => /\ Atomic!InWallet(s)
                                /\ SameGrant(wallet[s].proto, wallet'[s].proto)
                                /\ Use(wallet[s].proto) <= Use(wallet'[s].proto)
      BY HandedDerive, PairNumbers DEF Derived, SameGrant, Atomic!InWallet
    <2> QED
      BY <2>1, OrderedStep DEF OrderInv
  <1> QED
    BY <1>1 DEF OrderInv

(* The lease that comes with an answer becomes the wallet's.               *)
LEMMA OrderOfAcquired ==
  ASSUME SysInv, SysInv', OrderInv, ~Overlap, NEW c \in Calls, OnAcquireComplete(c)
  PROVE  OrderInv'
  <1>0. PICK r, g : r = calls[c].proto.resource /\ g = calls[c].latest
    OBVIOUS
  <1> DEFINE e == LeaseOf(CreateSublease(g))
  <1>1. /\ Brings(calls[c], r) /\ Settles(calls[c]) /\ g \in Arriving(r)
        /\ g \in granted /\ r \in Resources
    BY <1>0 DEF OnAcquireComplete, Completes, Brings, Settles, LeaseKind, Arriving,
           SysInv, CallsInv, CallOK
  <1>8. g \in LeaseProto /\ Len(g.sequence) = 1
    <2>1. granted \subseteq {p \in LeaseProto : Len(p.sequence) = 1}
      BY DEF SysInv, RobotInv
    <2> QED
      BY <1>1, <2>1
  <1>2. MayTouch(r) /\ UNCHANGED op /\ Finish(c) /\ UNCHANGED issued
    BY <1>0 DEF OnAcquireComplete, AddLease
  <1>3. wallet' = [wallet EXCEPT ![r] = e]
    BY <1>0 DEF OnAcquireComplete, AddLease, Atomic!AddLease, Atomic!Put, Atomic!Entry,
           Atomic!IsSelfOwned, Atomic!LeaseOf, Atomic!CreateSublease,
           LeaseOf, CreateSublease
  <1>4. WalletInv /\ ThreadsInv
    BY DEF SysInv, StoreInv, OrderInv
  <1>5. ThreadsInv'
    BY <1>1, <1>2, <1>3, <1>4, ThreadsPut
  <1>6. /\ OneSettles'
        /\ \A s \in Resources : /\ \A p \in Handed(s)' : p \in Handed(s)
                                /\ \A h \in Arriving(s)' : h \in Arriving(s)
    BY <1>2, OrderOfFinished
  <1>7. ASSUME NEW s \in Resources PROVE Ordered(s)'
    <2>1. CASE s # r
      <3>1. wallet'[s] = wallet[s]
        BY <1>3, <1>4, <2>1 DEF WalletInv, TypeOK
      <3>2. Atomic!InWallet(s)' => /\ Atomic!InWallet(s)
                                  /\ SameGrant(wallet[s].proto, wallet'[s].proto)
                                  /\ Use(wallet[s].proto) <= Use(wallet'[s].proto)
        BY <3>1, HandedDerive, PairNumbers DEF Derived, SameGrant, Atomic!InWallet
      <3> QED
        BY <1>6, <3>2, OrderedStep DEF OrderInv
    <2>2. CASE s = r
      <3>1. wallet'[r] = e /\ e.proto = CreateSublease(g)
        BY <1>1, <1>3, <1>4 DEF WalletInv, TypeOK, LeaseOf
      <3>2. SameGrant(g, e.proto)
        <4>1. Len(g.sequence) = 1 /\ g.sequence \in Seq(SeqNumber)
          BY <1>8 DEF LeaseProto
        <4>2. /\ CreateSublease(g).sequence = Append(g.sequence, 0)
              /\ CreateSublease(g).epoch = g.epoch
          BY <1>8 DEF CreateSublease, LeaseProto
        <4>3. Append(g.sequence, 0)[1] = g.sequence[1]
          BY <4>1
        <4> QED
          BY <3>1, <4>2, <4>3 DEF SameGrant, Root
      <3>3. \A p \in Handed(r)' : NotNewer(p, e.proto)
        BY <1>1, <1>6, <3>2 DEF OrderInv, Ordered, NotNewer, GrantedBefore, SameGrant
      <3>4. Arriving(r)' = {}
        <4>1. calls'[c] = Free /\ \A d \in Calls : d # c => calls'[d] = calls[d]
          BY <1>2 DEF Finish, SysInv, CallsInv
        <4> HIDE DEF e
        <4>2. ASSUME NEW d \in Calls PROVE ~Brings(calls'[d], r)
          BY <1>1, <4>1 DEF Brings, Free, OrderInv, OneSettles, Settles, LeaseKind
        <4> QED
          BY <4>2 DEF Arriving
      <3> QED
        BY <2>2, <3>1, <3>3, <3>4 DEF Ordered
    <2> QED
      BY <2>1, <2>2
  <1> QED
    BY <1>5, <1>6, <1>7 DEF OrderInv

(* The lease the robot grants next is newer than all that derive from what *)
(* it has granted.                                                         *)
LEMMA GrantIsNewest ==
  ASSUME SysInv, NEW r \in Resources, latest[r][1] < MaxRoot,
         NEW p, DerivesFrom(p, granted), p.resource = r
  PROVE  GrantedBefore(p, Grant(r))
  <1>1. SoFar(p)
    BY DEF DerivesFrom, SysInv, RobotInv, SoFar, Root
  <1>2. p.epoch \in Nat /\ Root(p) \in Nat
    BY PairNumbers
  <1>4. latest[r][1] \in Nat
    BY Numbers DEF SysInv
  <1>3. Grant(r).epoch = epoch /\ Root(Grant(r)) = latest[r][1] + 1
    BY GrantType DEF SysInv
  <1> QED
    BY <1>1, <1>2, <1>3, <1>4 DEF SoFar, GrantedBefore

(* A grant for a call that still waits is on its way. *)
LEMMA OrderOfGranted ==
  ASSUME SysInv, SysInv', OrderInv, NEW c \in Calls,
         calls[c].kind \in {"acquire", "take"}, calls[c].waiting,
         NEW r \in Resources, r = calls[c].proto.resource, latest[r][1] < MaxRoot,
         Answer(c, "OK", Grant(r)), UNCHANGED <<wallet, op, issued>>
  PROVE  OrderInv'
  <1> DEFINE k == [calls[c] EXCEPT !.status = "OK", !.latest = Grant(r)]
  <1>1. calls \in [Calls -> Call] /\ calls' = [calls EXCEPT ![c] = k]
    BY DEF SysInv, CallsInv, Answer
  <1>2. /\ k.kind = calls[c].kind /\ k.waiting = calls[c].waiting
        /\ k.proto = calls[c].proto /\ k.latest = Grant(r)
    BY <1>1 DEF Call
  <1> HIDE DEF k
  <1>3. OneSettles'
    BY <1>1, <1>2, SettlesStep DEF OrderInv, Settles
  <1>4. ASSUME NEW s \in Resources PROVE Ordered(s)'
    <2>1. \A p \in Handed(s)' : p \in Handed(s)
      BY <1>1, <1>2, CallsStep DEF Carries
    <2>6. \A g \in Arriving(s)' : g \in Arriving(s) \/ (Brings(k, s) /\ g = k.latest)
      BY <1>1, CallsStep
    <2>2. \A g \in Arriving(s)' : g \in Arriving(s) \/ (s = r /\ g = Grant(r))
      BY <1>2, <2>6 DEF Brings
    <2>3. Derived(s) /\ Ordered(s)
      BY HandedDerive DEF OrderInv
    <2>4. ASSUME s = r
          PROVE  /\ Atomic!InWallet(s) => GrantedBefore(wallet[s].proto, Grant(r))
                 /\ \A p \in Handed(s) : GrantedBefore(p, Grant(r))
      BY <2>3, <2>4, GrantIsNewest DEF Derived
    <2>5. Atomic!InWallet(s)' => Atomic!InWallet(s) /\ wallet'[s] = wallet[s]
      BY DEF Atomic!InWallet
    <2> QED
      BY <2>1, <2>2, <2>3, <2>4, <2>5 DEF Ordered
  <1>5. ThreadsInv'
    BY ThreadsKept DEF OrderInv
  <1> QED
    BY <1>3, <1>4, <1>5 DEF OrderInv

(* An answer to a call neither carries nor brings a lease, unless it is a  *)
(* grant.                                                                  *)
LEMMA OrderOfAnswered ==
  ASSUME SysInv, SysInv', OrderInv, NEW c \in Calls, NEW status, NEW p,
         Answer(c, status, p), UNCHANGED <<wallet, op, issued>>,
         \/ calls[c].kind \in {"use", "return"}
         \/ status # "OK"
         \/ ~calls[c].waiting
  PROVE  OrderInv'
  <1> DEFINE k == IF calls[c].waiting
                  THEN [calls[c] EXCEPT !.status = status, !.latest = p]
                  ELSE Free
  <1>1. calls[c] \in Call /\ calls' = [calls EXCEPT ![c] = k]
    BY DEF SysInv, CallsInv, Answer
  <1>2. CASE calls[c].waiting
    <2>1. /\ k.kind = calls[c].kind /\ k.waiting = calls[c].waiting
          /\ k.proto = calls[c].proto /\ k.status = status
      BY <1>1, <1>2 DEF Call
    <2> HIDE DEF k
    <2> QED
      BY <1>1, <1>2, <2>1, OrderOfCall DEF Settles
  <1>3. CASE ~calls[c].waiting
    <2>1. k = Free
      BY <1>3
    <2> HIDE DEF k
    <2> QED
      BY <1>1, <2>1, OrderOfCall DEF Settles, Free
  <1> QED
    BY <1>2, <1>3

(* At the start nothing is handed out. *)
LEMMA InitOrderInv == SysInit => OrderInv
  BY PumpAssumption DEF SysInit, Init, OrderInv, ThreadsInv, OneOperationPerResource,
     OneSettles, Settles, Ordered, Arriving, Brings, Busy, Idle, Free, Atomic!InWallet

(* What the program's threads do keeps the order. *)
LEMMA ClientOrderInv ==
  ASSUME SysInv, SysInv', OrderInv, ~Overlap, Client
  PROVE  OrderInv'
  <1>0. /\ calls \in [Calls -> Call] /\ WalletInv /\ ThreadsInv
        /\ \A r \in Resources : MaySettle(r) <=> ~Outstanding(LeaseKind, r)
    BY DEF SysInv, CallsInv, StoreInv, OrderInv, MaySettle
  <1>1. ASSUME NEW c \in Calls, NEW r \in Resources, NEW kind \in {"acquire", "take"},
               RequestLease(c, kind, r)
        PROVE  OrderInv'
    <2> DEFINE k == [Free EXCEPT !.kind = kind, !.waiting = TRUE,
                                 !.proto = [Nothing EXCEPT !.resource = r]]
    <2>1. /\ k.kind = kind /\ k.proto.resource = r /\ k.status = "PENDING"
      BY DEF Free, Nothing
    <2>2. calls' = [calls EXCEPT ![c] = k] /\ UNCHANGED <<wallet, op, issued>>
          /\ ~Outstanding(LeaseKind, r)
      BY <1>0, <1>1 DEF RequestLease, Send
    <2> HIDE DEF k
    <2> QED
      BY <2>1, <2>2, OrderOfCall
  <1>2. ASSUME NEW c \in Calls, NEW r \in Resources, NEW kind \in {"use", "return"},
               SendAsIs(c, kind, r)
        PROVE  OrderInv'
    <2> DEFINE k == [Free EXCEPT !.kind = kind, !.waiting = TRUE,
                                 !.proto = wallet[r].proto]
    <2>1. /\ k.kind = kind /\ k.proto = wallet[r].proto
      BY DEF Free
    <2>2. Atomic!InWallet(r) /\ wallet[r].proto.resource = r
      BY <1>0, <1>2 DEF SendAsIs, WalletInv, EntriesValid
    <2>3. /\ calls' = [calls EXCEPT ![c] = k]
          /\ UNCHANGED <<wallet, op, issued>>
      BY <1>2 DEF SendAsIs, Send
    <2>5. kind = "return" => ~Outstanding(LeaseKind, r)
      BY <1>0, <1>2 DEF SendAsIs, MaySettle
    <2> HIDE DEF k
    <2>4. Settles(k) => ~Outstanding(LeaseKind, r)
      BY <2>1, <2>5 DEF Settles, LeaseKind
    <2> QED
      BY <2>1, <2>2, <2>3, <2>4, OrderOfCall
  <1>3. ASSUME NEW t \in Threads, NEW r \in Resources, BeginUse(t, r)
        PROVE  OrderInv'
    <2>1. /\ Atomic!InWallet(r) /\ MayTouch(r) /\ t # Pump /\ UNCHANGED <<wallet, calls, issued>>
          /\ Hold(t, "advance", r, LeaseOf(Increment(wallet[r].proto)))
      BY <1>3 DEF BeginUse, AdvanceRead, Atomic!Owned
    <2>2. DerivesFrom(wallet[r].proto, granted)
      BY <2>1 DEF SysInv, StoreInv
    <2>3. Use(wallet[r].proto) < MaxUse
      BY <1>3, <2>2 DEF BeginUse, AdvanceRead, DerivesFrom, Use
    <2>4. ThreadsInv'
      BY <1>0, <2>1, <2>3, ThreadsHold DEF LeaseOf
    <2> QED
      BY <2>1, <2>4, OrderOfRead
         DEF OrderInv, OneSettles, Settles, Handed, Arriving, Carries, Brings
  <1>4. ASSUME NEW t \in Threads, NEW c \in Calls, EndUse(t, c)
        PROVE  OrderInv'
    <2> DEFINE p == op[t].lease.proto
               k == [Free EXCEPT !.kind = "use", !.waiting = TRUE, !.proto = p]
    <2>1. Write(t) /\ calls' = [calls EXCEPT ![c] = k]
          /\ issued' = [issued EXCEPT ![op[t].resource] = op[t].lease]
      BY <1>4 DEF EndUse, Send
    <2>2. p.resource = op[t].resource
      BY <1>0, <2>1 DEF Write, WalletInv, EntriesValid
    <2>3. k.kind = "use" /\ k.proto = p
      BY DEF Free
    <2> HIDE DEF k
    <2>4. OneSettles'
      BY <1>0, <2>1, <2>3, SettlesStep DEF OrderInv, Settles, LeaseKind
    <2>5. \A d \in Calls : calls'[d] = IF d = c THEN k ELSE calls[d]
      BY <1>0, <2>1
    <2>6. ASSUME NEW s \in Resources, NEW q \in Handed(s)'
          PROVE  q \in Handed(s) \/ (s = op[t].resource /\ q = p)
      <3>1. \/ \E d \in Calls : Carries(calls'[d], s) /\ q = calls'[d].proto
            \/ issued'[s] # NoLease /\ q = issued'[s].proto
        BY <2>6 DEF Handed
      <3>2. CASE \E d \in Calls : Carries(calls'[d], s) /\ q = calls'[d].proto
        BY <2>2, <2>3, <2>5, <3>2 DEF Handed, Carries
      <3>3. CASE issued'[s] # NoLease /\ q = issued'[s].proto
        BY <2>1, <3>3 DEF Handed, SysInv, IssuedInv
      <3> QED
        BY <3>1, <3>2, <3>3
    <2>7. \A s \in Resources : \A g \in Arriving(s)' : g \in Arriving(s)
      BY <2>3, <2>5 DEF Arriving, Brings
    <2> QED
      BY <2>1, <2>4, <2>6, <2>7, OrderOfWritten
  <1> QED
    BY <1>1, <1>2, <1>3, <1>4 DEF Client

(* What the robot does keeps the order. *)
LEMMA RobotOrderInv ==
  ASSUME SysInv, SysInv', OrderInv, Robot
  PROVE  OrderInv'
  <1>1. ASSUME NEW c \in Calls, ServeAcquire(c) PROVE OrderInv'
    <2>1. PICK r : r = calls[c].proto.resource
      OBVIOUS
    <2>2. /\ calls[c].kind \in {"acquire", "take"} /\ r \in Resources
          /\ UNCHANGED <<wallet, op, issued>>
      BY <1>1, <2>1 DEF ServeAcquire, SysInv, CallsInv, CallOK
    <2>3. CASE Answer(c, "REFUSED", Nothing)
      BY <2>2, <2>3, OrderOfAnswered
    <2>4. CASE latest[r][1] < MaxRoot /\ Answer(c, "OK", Grant(r))
      BY <2>1, <2>2, <2>4, OrderOfAnswered, OrderOfGranted
    <2> QED
      BY <1>1, <2>1, <2>3, <2>4 DEF ServeAcquire
  <1>2. ASSUME NEW c \in Calls, ServeUse(c) PROVE OrderInv'
    BY <1>2, OrderOfAnswered DEF ServeUse
  <1>3. ASSUME NEW c \in Calls, ServeReturn(c) PROVE OrderInv'
    BY <1>3, OrderOfAnswered DEF ServeReturn
  <1>4. ASSUME NEW r \in Resources, OtherTakes(r) \/ Release(r) PROVE OrderInv'
    BY <1>4, OrderUntouched DEF OtherTakes, Release
  <1>5. CASE Restart
    BY <1>5, OrderUntouched DEF Restart
  <1> QED
    BY <1>1, <1>2, <1>3, <1>4, <1>5 DEF Robot

(* What the completions do keeps the order. *)
LEMMA CompletionOrderInv ==
  ASSUME SysInv, SysInv', OrderInv, ~Overlap, Completion
  PROVE  OrderInv'
  <1>0. /\ calls \in [Calls -> Call] /\ WalletInv /\ ThreadsInv
        /\ \A c \in Calls : calls[c].kind # "none" => calls[c].proto.resource \in Resources
    BY DEF SysInv, CallsInv, CallOK, StoreInv, OrderInv
  <1>1. ASSUME NEW c \in Calls, OnAcquireComplete(c) PROVE OrderInv'
    BY <1>1, OrderOfAcquired
  <1>2. ASSUME NEW c \in Calls, OnAcquireRefused(c) \/ Lose(c) PROVE OrderInv'
    <2>1. Finish(c) /\ UNCHANGED <<wallet, op, issued>>
      BY <1>2 DEF OnAcquireRefused, Lose
    <2> QED
      BY <2>1, OrderOfFinished, OrderKept
  <1>3. ASSUME NEW c \in Calls, OnReturnLeaseComplete(c) PROVE OrderInv'
    <2>1. Finish(c) /\ UNCHANGED issued /\ RemoveLease(calls[c].proto.resource)
          /\ calls[c].proto.resource \in Resources
      BY <1>0, <1>3 DEF OnReturnLeaseComplete, Completes
    <2> QED
      BY <2>1, OrderOfFinished, OrderOfRemoved
  <1>4. ASSUME NEW c \in Calls, OnUseComplete(c) PROVE OrderInv'
    <2>1. Finish(c) /\ UNCHANGED <<wallet, issued>>
      BY <1>4 DEF OnUseComplete, UpdateRead
    <2>2. ThreadsInv'
      <3>1. CASE UpdateRead(Pump, UseResult(c))
        <4> DEFINE result == UseResult(c)
                   r == result.attempted.resource
        <4>1. r \in Resources /\ Atomic!InWallet(r) /\ MayTouch(r)
              /\ Hold(Pump, "update", r, UpdateFromLeaseUseResult(wallet[r], result))
          BY <3>1 DEF UpdateRead
        <4>2. wallet[r] \in Lease
          BY <1>0, <4>1 DEF WalletInv, TypeOK, Atomic!InWallet
        <4>3. UpdateFromLeaseUseResult(wallet[r], result).proto = wallet[r].proto
          BY <4>2, UpdateType
        <4> HIDE DEF result
        <4> QED
          BY <1>0, <2>1, <4>1, <4>3, ThreadsHold, PumpAssumption
      <3>2. CASE UNCHANGED <<wallet, op>>
        BY <1>0, <3>2, ThreadsKept
      <3> QED
        BY <1>4, <3>1, <3>2 DEF OnUseComplete
    <2> QED
      BY <2>1, <2>2, OrderOfFinished, OrderOfRead
  <1>5. ASSUME NEW c \in Calls, Expire(c) PROVE OrderInv'
    <2> DEFINE k == IF calls[c].status = "PENDING"
                    THEN [calls[c] EXCEPT !.waiting = FALSE] ELSE Free
    <2>1. calls' = [calls EXCEPT ![c] = k] /\ UNCHANGED issued
      BY <1>5 DEF Expire
    <2>2. /\ ~k.waiting
          /\ k.kind # "none" => k.kind = calls[c].kind /\ k.proto = calls[c].proto
      BY <1>0 DEF Call, Free
    <2> HIDE DEF k
    <2>3. OneSettles'
      BY <1>0, <2>1, <2>2, SettlesStep DEF OrderInv, Settles
    <2>4. \A s \in Resources : /\ \A p \in Handed(s)' : p \in Handed(s)
                               /\ \A g \in Arriving(s)' : g \in Arriving(s)
      <3>1. \A s : Carries(k, s) => Carries(calls[c], s) /\ k.proto = calls[c].proto
        BY <2>2 DEF Carries
      <3>2. \A s : ~Brings(k, s)
        BY <2>2 DEF Brings
      <3>3. \A s : Carries(k, s) => k.proto \in Handed(s)
        BY <3>1 DEF Handed
      <3> QED
        BY <1>0, <2>1, <3>2, <3>3, CallsStep
    <2>5. CASE calls[c].kind = "return"
      <3>1. RemoveLease(calls[c].proto.resource) /\ calls[c].proto.resource \in Resources
        BY <1>0, <1>5, <2>5 DEF Expire
      <3> QED
        BY <2>3, <2>4, <3>1, OrderOfRemoved
    <2>6. CASE calls[c].kind # "return"
      BY <1>5, <2>3, <2>4, <2>6, OrderKept DEF Expire
    <2> QED
      BY <2>5, <2>6
  <1>6. CASE EndUpdate
    <2>1. Write(Pump) /\ UNCHANGED <<calls, issued>>
      BY <1>6 DEF EndUpdate
    <2> QED
      BY <2>1, PumpAssumption, OrderOfWritten
         DEF OrderInv, OneSettles, Settles, Handed, Arriving, Carries, Brings
  <1> QED
    BY <1>1, <1>2, <1>3, <1>4, <1>5, <1>6 DEF Completion

(* In a program that keeps operations apart the order holds always. *)
LEMMA OrderInvariant ==
  ASSUME ~Overlap
  PROVE  SysSpec => []OrderInv
  <1>1. SysInv /\ SysInv' /\ OrderInv /\ [SysNext]_sysVars => OrderInv'
    BY OrderUntouched, ClientOrderInv, RobotOrderInv, CompletionOrderInv
       DEF SysNext, sysVars
  <1> QED
    BY <1>1, InitOrderInv, SysInvariant, PTL DEF SysSpec

(* In a program that keeps the operations on one resource apart, every     *)
(* lease that AdvanceLease hands out is newer than the last one it handed  *)
(* out for that resource, however often the lease is lost, acquired anew,  *)
(* or granted by a robot that has restarted (lease.h:135).                 *)
THEOREM SystemIssuesNewerLeases ==
  ASSUME ~Overlap
  PROVE  SysSpec => []IssuesNewerLeases
  <1>1. ASSUME SysInv, OrderInv, NEW t \in Threads, op[t].kind = "advance",
               issued[op[t].resource] # NoLease
        PROVE  Compare(op[t].lease.proto, issued[op[t].resource].proto)
                 \in {"NEWER", "DIFFERENT_EPOCHS"}
    <2> DEFINE r == op[t].resource
               w == wallet[r].proto
               p == op[t].lease.proto
               q == issued[r].proto
    <2>1. r \in Resources /\ Busy(t) /\ Copied(t)
      BY <1>1 DEF SysInv, StoreInv, WalletInv, TypeOK, OrderInv, ThreadsInv, Busy
    <2>2. /\ Atomic!InWallet(r) /\ p = Increment(w) /\ Use(w) < MaxUse
          /\ DerivesFrom(w, granted)
      BY <1>1, <2>1 DEF Copied, SysInv, StoreInv
    <2>3. SameGrant(w, p) /\ Use(p) = Use(w) + 1
      BY <2>2, IncrementCounts
    <2>4. /\ DerivesFrom(p, granted) /\ p.resource = r
          /\ DerivesFrom(q, granted) /\ q.resource = r
      BY <1>1, <2>1 DEF SysInv, StoreInv, WalletInv, EntriesValid, IssuedInv
    <2>5. NotNewer(q, w)
      BY <1>1, <2>1, <2>2 DEF OrderInv, Ordered, Handed
    <2>6. \/ q.epoch < p.epoch
          \/ q.epoch = p.epoch /\ Root(q) < Root(p)
          \/ q.epoch = p.epoch /\ Root(q) = Root(p) /\ Use(q) < Use(p)
      <3>1. /\ p.epoch \in Nat /\ Root(p) \in Nat /\ Use(p) \in Nat
            /\ q.epoch \in Nat /\ Root(q) \in Nat /\ Use(q) \in Nat
            /\ Use(w) \in Nat
        BY <2>2, <2>4, PairNumbers
      <3>2. w.epoch = p.epoch /\ Root(w) = Root(p) /\ Use(p) = Use(w) + 1
        BY <2>3 DEF SameGrant
      <3> HIDE DEF p, q, w
      <3> QED
        BY <2>5, <3>1, <3>2 DEF NotNewer, GrantedBefore, SameGrant
    <2>7. /\ p \in LeaseProto /\ IsValid(p) /\ Len(p.sequence) = 2
          /\ q \in LeaseProto /\ IsValid(q) /\ Len(q.sequence) = 2
      BY <2>4 DEF DerivesFrom
    <2>8. CASE q.epoch # p.epoch
      BY <2>4, <2>7, <2>8 DEF Compare, CompareIgnoringResource
    <2>9. CASE q.epoch = p.epoch
      <3>1. Before(q.sequence, p.sequence)
        <4>1. Shorter(q.sequence, p.sequence) = 2
          BY <2>7 DEF Shorter
        <4>2. CASE Root(q) < Root(p)
          BY <4>1, <4>2 DEF Before, Root
        <4>3. CASE Root(q) = Root(p) /\ Use(q) < Use(p)
          BY <4>1, <4>3 DEF Before, Root, Use
        <4> QED
          BY <2>4, <2>6, <2>9, <4>2, <4>3, PairNumbers
      <3> QED
        <4>1. p.resource = q.resource /\ p.epoch = q.epoch
          BY <2>4, <2>9
        <4> HIDE DEF p, q, r, w
        <4>2. Compare(p, q) = "NEWER"
          BY <2>7, <3>1, <4>1, CompareMeaning
        <4> QED
          BY <4>2 DEF p, q, r
    <2> QED
      BY <2>8, <2>9
  <1>2. SysInv /\ OrderInv => IssuesNewerLeases
    BY <1>1 DEF IssuesNewerLeases
  <1> QED
    BY <1>2, SysInvariant, OrderInvariant, PTL
-----------------------------------------------------------------------------
(* The wallet of the system: what its steps make of it *)

(* Every lease the robot may grant, and every result it may send. *)
Grantable == {p \in LeaseProto : IsValid(p)}

(* The atomic wallet, fed by whatever the robot may grant or answer. *)
Served == INSTANCE AtomicLeaseWallet WITH Grants <- Grantable, Answers <- LeaseUseResult

(* The answer to a request with a lease has a result for the lease. *)
AnswersUses == \A c \in Calls : calls[c].kind = "use" => calls[c].status # "REFUSED"

ServedInv == AllMade(LeaseUseResult) /\ AnswersUses

(* Each change of the system's wallet is a whole operation of it, unless   *)
(* a thread was overtaken since it read the entry.                         *)
ServedChangesAreWhole ==
  [][Served!Next \/ \E t \in Threads : Overtaken(t) /\ Write(t)]_wallet

(* The operations of the atomic wallet are those of the wallet. *)
LEMMA ServedOperations ==
  /\ \A l : Served!IsSelfOwned(l) <=> Atomic!IsSelfOwned(l)
  /\ \A p : Served!LeaseOf(p) = LeaseOf(p) /\ Atomic!LeaseOf(p) = LeaseOf(p)
  /\ \A p : Served!CreateSublease(p) = Atomic!CreateSublease(p)
  /\ \A p : Served!LeaseOf(Served!Increment(p)) = LeaseOf(Increment(p))
  /\ \A l, result : Served!UpdateFromLeaseUseResult(l, result)
                      = UpdateFromLeaseUseResult(l, result)
  <1>1. /\ \A l : Served!IsSelfOwned(l) <=> Atomic!IsSelfOwned(l)
        /\ \A p : Served!LeaseOf(p) = LeaseOf(p) /\ Atomic!LeaseOf(p) = LeaseOf(p)
        /\ \A p : Served!CreateSublease(p) = Atomic!CreateSublease(p)
    BY DEF Served!IsSelfOwned, Atomic!IsSelfOwned, Served!LeaseOf, Atomic!LeaseOf, LeaseOf,
           Served!CreateSublease, Atomic!CreateSublease, Served!IsValid, Atomic!IsValid
  <1>2. \A p : Served!LeaseOf(Served!Increment(p)) = LeaseOf(Increment(p))
    BY <1>1 DEF Served!Increment, Increment, Served!LeaseOf, LeaseOf
  <1>3. \A l, result : Served!UpdateFromLeaseUseResult(l, result)
                         = UpdateFromLeaseUseResult(l, result)
    BY DEF Served!UpdateFromLeaseUseResult, UpdateFromLeaseUseResult,
           Served!SupersedesOlderResult, SupersedesOlderResult,
           Served!ConcernedByRevocation, ConcernedByRevocation,
           Served!IsValid, IsValid, Served!Compare, Compare,
           Served!CompareIgnoringResource, CompareIgnoringResource,
           Served!Agree, Agree, Served!Before, Before, Served!Shorter, Shorter
  <1> QED
    BY <1>1, <1>2, <1>3

(* What the steps of the system do to the wallet and its threads: nothing, *)
(* or one operation of LeaseWallet.                                        *)
WalletStep ==
  \/ UNCHANGED <<wallet, op>>
  \/ \E t \in Threads : Write(t)
  \/ \E t \in Threads, r \in Resources : AdvanceRead(t, r)
  \/ \E t \in Threads, result \in LeaseUseResult : UpdateRead(t, result)
  \/ \E r \in Resources : RemoveLease(r)
  \/ \E g \in Grantable :
       g \in Arriving(g.resource) /\ AddLease(g.resource, LeaseOf(g), TRUE)

LEMMA SystemWalletStep ==
  ASSUME SysInv, AnswersUses, [SysNext]_sysVars
  PROVE  WalletStep
  <1>0. /\ calls \in [Calls -> Call]
        /\ \A c \in Calls : CallOK(calls[c], granted)
    BY DEF SysInv, CallsInv
  <1>1. CASE Client
    BY <1>1 DEF Client, RequestLease, SendAsIs, BeginUse, EndUse, WalletStep
  <1>2. CASE Robot
    BY <1>2 DEF Robot, ServeAcquire, ServeUse, ServeReturn, OtherTakes, Release, Restart,
                WalletStep
  <1>3. ASSUME NEW c \in Calls, OnAcquireComplete(c) PROVE WalletStep
    <2> DEFINE g == calls[c].latest
    <2>1. g \in granted /\ g.resource = calls[c].proto.resource
      BY <1>0, <1>3 DEF OnAcquireComplete, Completes, CallOK
    <2>2. g \in Grantable
      BY <2>1 DEF SysInv, RobotInv, Grantable
    <2>3. AddLease(g.resource, LeaseOf(g), TRUE)
      BY <1>3, <2>1 DEF OnAcquireComplete
    <2>4. g \in Arriving(g.resource)
      BY <1>3, <2>1 DEF OnAcquireComplete, Completes, Arriving, Brings
    <2> QED
      BY <2>2, <2>3, <2>4 DEF WalletStep
  <1>4. ASSUME NEW c \in Calls,
               RemoveLease(calls[c].proto.resource), Completes(c, LeaseKind \cup {"use"})
        PROVE  WalletStep
    <2>1. calls[c].proto.resource \in Resources
      BY <1>0, <1>4 DEF Completes, LeaseKind, CallOK
    <2> QED
      BY <1>4, <2>1 DEF WalletStep
  <1>5. ASSUME NEW c \in Calls, OnUseComplete(c) PROVE WalletStep
    <2>1. UseResult(c) \in LeaseUseResult
      BY <1>0, <1>5 DEF OnUseComplete, Completes, UseResult, LeaseUseResult, Call, AnswersUses
    <2> QED
      BY <1>5, <2>1, PumpAssumption DEF OnUseComplete, WalletStep
  <1>6. ASSUME NEW c \in Calls, OnReturnLeaseComplete(c) PROVE WalletStep
    BY <1>4, <1>6 DEF OnReturnLeaseComplete, Completes, LeaseKind
  <1>7. ASSUME NEW c \in Calls, Expire(c) PROVE WalletStep
    <2>1. CASE calls[c].kind = "return"
      BY <1>4, <1>7, <2>1 DEF Expire
    <2>2. CASE calls[c].kind # "return"
      BY <1>7, <2>2 DEF Expire, WalletStep
    <2> QED
      BY <2>1, <2>2
  <1>8. ASSUME NEW c \in Calls, OnAcquireRefused(c) \/ Lose(c) PROVE WalletStep
    BY <1>8 DEF OnAcquireRefused, Lose, WalletStep
  <1>9. CASE EndUpdate
    BY <1>9, PumpAssumption DEF EndUpdate, WalletStep
  <1>10. CASE UNCHANGED sysVars
    BY <1>10 DEF sysVars, WalletStep
  <1> QED
    BY <1>1, <1>2, <1>3, <1>5, <1>6, <1>7, <1>8, <1>9, <1>10 DEF SysNext, Completion

(* Only the robot answers, and a use is not refused. *)
LEMMA NextAnswersUses ==
  ASSUME SysInv, AnswersUses, [SysNext]_sysVars
  PROVE  AnswersUses'
  <1>0. calls \in [Calls -> Call]
    BY DEF SysInv, CallsInv
  <1>1. ASSUME NEW c \in Calls, NEW k, calls' = [calls EXCEPT ![c] = k],
               k.kind = "use" => k.status # "REFUSED"
        PROVE  AnswersUses'
    BY <1>0, <1>1 DEF AnswersUses
  <1>2. ASSUME NEW c \in Calls, NEW kind, NEW p, Send(c, kind, p) PROVE AnswersUses'
    <2> DEFINE k == [Free EXCEPT !.kind = kind, !.waiting = TRUE, !.proto = p]
    <2>1. k.status = "PENDING" /\ calls' = [calls EXCEPT ![c] = k]
      BY <1>2 DEF Send, Free
    <2> HIDE DEF k
    <2> QED
      BY <1>1, <2>1
  <1>3. ASSUME NEW c \in Calls, Finish(c) PROVE AnswersUses'
    BY <1>1, <1>3 DEF Finish, Free
  <1>4. ASSUME NEW c \in Calls, NEW status, NEW p, Answer(c, status, p),
               calls[c].kind = "use" => status # "REFUSED"
        PROVE  AnswersUses'
    <2> DEFINE k == IF calls[c].waiting
                    THEN [calls[c] EXCEPT !.status = status, !.latest = p] ELSE Free
    <2>1. calls' = [calls EXCEPT ![c] = k]
      BY <1>4 DEF Answer
    <2>2. k.kind = "use" => k.status # "REFUSED"
      BY <1>0, <1>4 DEF Call, Free
    <2> HIDE DEF k
    <2> QED
      BY <1>1, <2>1, <2>2
  <1>5. CASE Client
    BY <1>2, <1>5 DEF Client, RequestLease, SendAsIs, BeginUse, EndUse, AnswersUses
  <1>6. CASE Robot
    <2>1. ASSUME NEW c \in Calls, ServeAcquire(c) PROVE AnswersUses'
      BY <1>4, <2>1 DEF ServeAcquire
    <2>2. ASSUME NEW c \in Calls, ServeUse(c) PROVE AnswersUses'
      BY <1>4, <2>2 DEF ServeUse, UseVerdict
    <2>3. ASSUME NEW c \in Calls, ServeReturn(c) PROVE AnswersUses'
      BY <1>4, <2>3 DEF ServeReturn
    <2> QED
      BY <1>6, <2>1, <2>2, <2>3 DEF Robot, OtherTakes, Release, Restart, AnswersUses
  <1>7. CASE Completion
    <2>1. ASSUME NEW c \in Calls, Expire(c) PROVE AnswersUses'
      <3> DEFINE k == IF calls[c].status = "PENDING"
                      THEN [calls[c] EXCEPT !.waiting = FALSE] ELSE Free
      <3>1. calls' = [calls EXCEPT ![c] = k]
        BY <2>1 DEF Expire
      <3>2. k.kind = "use" => k.status # "REFUSED"
        BY <1>0 DEF Call, Free
      <3> HIDE DEF k
      <3> QED
        BY <1>1, <3>1, <3>2
    <2> QED
      BY <1>3, <1>7, <2>1 DEF Completion, OnAcquireComplete, OnAcquireRefused,
         OnReturnLeaseComplete, OnUseComplete, Lose, EndUpdate, AnswersUses
  <1>8. CASE UNCHANGED sysVars
    BY <1>8 DEF sysVars, AnswersUses
  <1> QED
    BY <1>5, <1>6, <1>7, <1>8 DEF SysNext

LEMMA NextServedInv ==
  ASSUME SysInv, ServedInv, [SysNext]_sysVars
  PROVE  ServedInv'
  <1>1. AnswersUses'
    BY NextAnswersUses DEF ServedInv
  <1>2. \/ UNCHANGED op
        \/ \E t \in Threads : Write(t)
        \/ \E t \in Threads, r \in Resources : AdvanceRead(t, r)
        \/ \E t \in Threads, result \in LeaseUseResult : UpdateRead(t, result)
    BY SystemWalletStep DEF ServedInv, WalletStep, RemoveLease, AddLease
  <1>3. AllMade(LeaseUseResult)'
    BY <1>2, StaysMade DEF ServedInv, SysInv, StoreInv
  <1> QED
    BY <1>1, <1>3 DEF ServedInv

(* Every step of the system is one of the atomic wallet, or invisible, or  *)
(* stores what was made of an entry that has changed.                      *)
LEMMA StepIsServed ==
  ASSUME SysInv, ServedInv, [SysNext]_sysVars
  PROVE  [Served!Next \/ \E t \in Threads : Overtaken(t) /\ Write(t)]_wallet
  <1>1. CASE UNCHANGED <<wallet, op>>
    BY <1>1
  <1>2. ASSUME NEW t \in Threads, Write(t), ~Overtaken(t) PROVE Served!Next
    <2> DEFINE r == op[t].resource
    <2>1. /\ r \in Resources /\ Busy(t)
          /\ op[t].copy = wallet[r] /\ Atomic!InWallet(r)
          /\ wallet' = [wallet EXCEPT ![r] = op[t].lease]
      BY <1>2, WalletConstants
         DEF Write, SysInv, StoreInv, WalletInv, TypeOK, Overtaken,
             Atomic!AddLease, Atomic!Entry, Atomic!Put, Atomic!InWallet
    <2>4. MadeOfCopy(t, LeaseUseResult)
      BY <2>1 DEF ServedInv, AllMade
    <2>2. CASE op[t].kind = "advance"
      <3>2. IsSelfOwned(wallet[r]) /\ op[t].lease = LeaseOf(Increment(wallet[r].proto))
        BY <2>1, <2>2, <2>4 DEF MadeOfCopy
      <3>1. Served!AdvanceLease(r)
        BY <2>1, <3>2, ServedOperations, SameOperations
           DEF Served!AdvanceLease, Served!Owned, Served!InWallet, Atomic!InWallet,
               Served!Put
      <3> QED
        BY <2>1, <3>1 DEF Served!Next
    <2>3. CASE op[t].kind = "update"
      <3>1. PICK result \in LeaseUseResult :
              /\ result.attempted.resource = r
              /\ op[t].lease = UpdateFromLeaseUseResult(wallet[r], result)
        BY <2>1, <2>3, <2>4 DEF MadeOfCopy
      <3>2. Served!OnLeaseUseResult(result)
        BY <2>1, <3>1, ServedOperations
           DEF Served!OnLeaseUseResult, Served!InWallet, Atomic!InWallet, Served!Put
      <3> QED
        BY <3>2 DEF Served!Next
    <2> QED
      BY <2>2, <2>3, <2>4 DEF MadeOfCopy
  <1>3. ASSUME NEW t \in Threads, NEW r \in Resources, AdvanceRead(t, r)
        PROVE  UNCHANGED wallet
    BY <1>3 DEF AdvanceRead
  <1>4. ASSUME NEW t \in Threads, NEW result \in LeaseUseResult, UpdateRead(t, result)
        PROVE  UNCHANGED wallet
    BY <1>4 DEF UpdateRead
  <1>5. ASSUME NEW r \in Resources, RemoveLease(r) PROVE Served!Next
    <2>1. Served!RemoveLease(r)
      BY <1>5 DEF RemoveLease, Atomic!RemoveLease, Served!RemoveLease, Atomic!Put, Served!Put
    <2> QED
      BY <2>1 DEF Served!Next
  <1>6. ASSUME NEW g \in Grantable, AddLease(g.resource, LeaseOf(g), TRUE)
        PROVE  Served!Next
    <2>1. Served!AddLease(g.resource, LeaseOf(g), TRUE)
      BY <1>6, ServedOperations
         DEF AddLease, Atomic!AddLease, Served!AddLease, Atomic!Put, Served!Put,
             Atomic!Entry, Served!Entry
    <2>2. LeaseOf(g) = [proto |-> g, status |-> "SELF_OWNER"]
          /\ "SELF_OWNER" \in Served!LeaseStatus
      BY DEF LeaseOf, Served!LeaseStatus, Grantable
    <2> QED
      BY <2>1, <2>2 DEF Served!Next
  <1>7. WalletStep
    BY SystemWalletStep DEF ServedInv
  <1> QED
    BY <1>1, <1>2, <1>3, <1>4, <1>5, <1>6, <1>7 DEF WalletStep

(* Whatever the program overlaps, the robot grants and answers, and however *)
(* calls expire, are lost or overtake each other, an update of the wallet  *)
(* is lost only by a thread that stores what it made of an entry that has  *)
(* changed since it read it (lease_wallet.cpp:139, lease_wallet.cpp:155).  *)
THEOREM SystemChangesAreWhole == SysSpec => ServedChangesAreWhole
  <1>1. SysInit => ServedInv
    BY DEF SysInit, Init, ServedInv, AllMade, AnswersUses, Busy, Idle, Free
  <1>2. SysInv /\ ServedInv /\ [SysNext]_sysVars => ServedInv'
    BY NextServedInv
  <1>3. SysInv /\ ServedInv /\ [SysNext]_sysVars
        => [Served!Next \/ \E t \in Threads : Overtaken(t) /\ Write(t)]_wallet
    BY StepIsServed
  <1> QED
    BY <1>1, <1>2, <1>3, SysInvariant, PTL DEF SysSpec, ServedChangesAreWhole

-----------------------------------------------------------------------------
(* What the robot has superseded or taken away stays so *)

(* The robot has granted a newer lease than p, or has restarted. *)
Superseded(p) == p.epoch # epoch \/ Root(p) < latest[p.resource][1]

(* The robot's numbers go up, and a resource becomes the client's only     *)
(* with a new lease.                                                       *)
Moves ==
  /\ Forward
  /\ \A r \in Resources :
       holder[r] # "us" /\ holder'[r] = "us" =>
         epoch' = epoch /\ latest[r][1] < latest'[r][1]

(* The robot's epoch and first numbers. *)
LEMMA RobotNumbers ==
  SysInv => epoch \in Nat /\ \A r \in Resources : latest[r][1] \in Nat
  BY Numbers DEF SysInv

(* The robot's numbers after a step. *)
LEMMA RobotNumbersNext ==
  SysInv' => (epoch \in Nat /\ \A r \in Resources : latest[r][1] \in Nat)'
  BY RobotNumbers, PTL

(* Every step of the robot moves so. *)
LEMMA RobotMoves ==
  ASSUME SysInv, SysInv', Robot
  PROVE  Moves
  <1>0. /\ RobotInv /\ epoch \in Nat /\ epoch' \in Nat
        /\ \A r \in Resources : latest[r][1] \in Nat /\ latest'[r][1] \in Nat
    BY RobotNumbers, RobotNumbersNext DEF SysInv
  <1>1. ASSUME NEW c \in Calls, ServeAcquire(c) PROVE Moves
    <2>1. PICK r : r = calls[c].proto.resource
      OBVIOUS
    <2>2. r \in Resources /\ epoch' = epoch
      BY <1>1, <2>1 DEF ServeAcquire, SysInv, CallsInv, CallOK
    <2>3. CASE UNCHANGED <<latest, holder>>
      BY <1>0, <2>2, <2>3 DEF Moves, Forward
    <2>4. CASE /\ latest[r][1] < MaxRoot
               /\ latest' = [latest EXCEPT ![r] = Grant(r).sequence]
               /\ holder' = [holder EXCEPT ![r] = "us"]
               /\ granted' = granted \cup {Grant(r)}
      <3>1. Forward
        BY <1>0, <2>2, <2>4, GrantKeepsRobot
      <3>2. latest'[r][1] = latest[r][1] + 1
        BY <1>0, <2>2, <2>4, GrantType DEF RobotInv
      <3>3. \A s \in Resources : s # r => holder'[s] = holder[s]
        BY <1>0, <2>4 DEF RobotInv
      <3> QED
        BY <1>0, <2>2, <3>1, <3>2, <3>3 DEF Moves
    <2> QED
      BY <1>1, <2>1, <2>3, <2>4 DEF ServeAcquire
  <1>2. ASSUME NEW c \in Calls, ServeUse(c) PROVE Moves
    <2>1. PICK p : p = calls[c].proto
      OBVIOUS
    <2>2. DerivesFrom(p, granted) /\ UNCHANGED <<epoch, holder>>
      BY <1>2, <2>1 DEF ServeUse, SysInv, CallsInv, CallOK
    <2>3. CASE UseVerdict(p) = "OK"
      <3>1. latest[p.resource][1] <= p.sequence[1]
        BY <1>0, <2>2, <2>3, HonouredIsAhead DEF Root
      <3>2. latest' = [latest EXCEPT ![p.resource] = p.sequence]
        BY <1>2, <2>1, <2>3 DEF ServeUse
      <3>3. \A r \in Resources : latest[r][1] <= latest'[r][1]
        BY <1>0, <3>1, <3>2 DEF RobotInv
      <3> QED
        BY <2>2, <3>3 DEF Moves, Forward
    <2>4. CASE UseVerdict(p) # "OK"
      BY <1>0, <1>2, <2>1, <2>2, <2>4 DEF ServeUse, Moves, Forward
    <2> QED
      BY <2>3, <2>4
  <1>3. ASSUME NEW c \in Calls, ServeReturn(c) PROVE Moves
    BY <1>0, <1>3 DEF ServeReturn, RobotInv, Moves, Forward
  <1>4. ASSUME NEW r \in Resources, OtherTakes(r) PROVE Moves
    <2>1. Forward
      BY <1>0, <1>4, GrantKeepsRobot DEF OtherTakes
    <2> QED
      BY <1>0, <1>4, <2>1 DEF OtherTakes, RobotInv, Moves
  <1>5. ASSUME NEW r \in Resources, Release(r) PROVE Moves
    BY <1>0, <1>5 DEF Release, RobotInv, Moves, Forward
  <1>6. CASE Restart
    BY <1>0, <1>6 DEF Restart, Moves, Forward
  <1> QED
    BY <1>1, <1>2, <1>3, <1>4, <1>5, <1>6 DEF Robot

(* A lease that is superseded stays so; one that is not the client's       *)
(* becomes the client's only by being superseded.                          *)
LEMMA SupersededStays ==
  ASSUME SysInv, SysInv', Moves, NEW p, DerivesFrom(p, granted)
  PROVE  /\ Superseded(p) => Superseded(p)'
         /\ Superseded(p) \/ holder[p.resource] # "us" =>
              Superseded(p)' \/ holder'[p.resource] # "us"
  <1>1. SoFar(p) /\ p.resource \in Resources
    BY DEF DerivesFrom, LeaseProto, IsValid, SysInv, RobotInv, SoFar, Root
  <1>2. p.epoch \in Nat /\ Root(p) \in Nat
    BY PairNumbers
  <1>3. /\ epoch \in Nat /\ epoch' \in Nat
        /\ latest[p.resource][1] \in Nat /\ latest'[p.resource][1] \in Nat
    BY <1>1, RobotNumbers, RobotNumbersNext
  <1>4. Superseded(p) => Superseded(p)'
    BY <1>1, <1>2, <1>3 DEF Moves, Forward, Superseded, SoFar
  <1>5. ASSUME holder[p.resource] # "us", holder'[p.resource] = "us"
        PROVE  Superseded(p)'
    BY <1>1, <1>2, <1>3, <1>5 DEF Moves, Superseded, SoFar
  <1> QED
    BY <1>4, <1>5

-----------------------------------------------------------------------------
(* What the answers to the client's uses say *)

(* What the answer k says was so when it was given, and still matters: the *)
(* robot has gone at least as far, and a lease it revoked is not the       *)
(* client's, unless it was granted anew.                                   *)
Truthful(k) ==
  LET p == k.proto  q == k.latest IN
  /\ q.resource = p.resource /\ q.sequence \in Known /\ SoFar(q)
  /\ k.status = "REVOKED" => Superseded(p) \/ holder[p.resource] # "us"

TruthInv == \A c \in Calls : Answered(calls[c]) => Truthful(calls[c])

(* A call that answers nothing of a use and brings no grant. *)
Silent(k) == ~Answered(k) /\ \A r : ~Brings(k, r)

(* Only the robot answers a use, and only the robot brings a grant. *)
AnsweredByRobot(d) ==
  /\ Answered(calls'[d]) => calls'[d] = calls[d] \/ ServeUse(d)
  /\ \A r \in Resources : Brings(calls'[d], r) =>
       \/ calls'[d] = calls[d]
       \/ /\ latest[r][1] < MaxRoot /\ calls'[d].latest = Grant(r)
          /\ latest'[r] = Grant(r).sequence

LEMMA Answering ==
  ASSUME SysInv, [SysNext]_sysVars, NEW d \in Calls
  PROVE  AnsweredByRobot(d)
  <1>0. calls \in [Calls -> Call]
    BY DEF SysInv, CallsInv
  <1>1. ASSUME NEW c \in Calls, NEW k, calls' = [calls EXCEPT ![c] = k],
               Silent(k) \/ (c = d => AnsweredByRobot(d))
        PROVE  AnsweredByRobot(d)
    <2>1. calls'[d] = IF d = c THEN k ELSE calls[d]
      BY <1>0, <1>1
    <2> QED
      BY <1>1, <2>1 DEF Silent, AnsweredByRobot
  <1>2. UNCHANGED calls => AnsweredByRobot(d)
    BY DEF AnsweredByRobot
  <1>3. Silent(Free)
    BY DEF Silent, Answered, Brings, Free
  <1>4. ASSUME NEW c \in Calls, Finish(c) PROVE AnsweredByRobot(d)
    BY <1>1, <1>3, <1>4 DEF Finish
  <1>5. ASSUME NEW c \in Calls, NEW kind, NEW p, Send(c, kind, p) PROVE AnsweredByRobot(d)
    <2> DEFINE k == [Free EXCEPT !.kind = kind, !.waiting = TRUE, !.proto = p]
    <2>1. k.status = "PENDING" /\ calls' = [calls EXCEPT ![c] = k]
      BY <1>5 DEF Send, Free
    <2> HIDE DEF k
    <2>2. Silent(k)
      BY <2>1 DEF Silent, Answered, Brings
    <2> QED
      BY <1>1, <2>1, <2>2
  <1>6. ASSUME NEW c \in Calls, NEW status, NEW p, Answer(c, status, p),
               \/ calls[c].kind \notin {"use", "acquire", "take"}
               \/ calls[c].kind = "use" /\ ServeUse(c)
               \/ calls[c].kind \in {"acquire", "take"} /\ status = "REFUSED"
               \/ LET r == calls[c].proto.resource IN
                  /\ calls[c].kind \in {"acquire", "take"}
                  /\ latest[r][1] < MaxRoot /\ p = Grant(r)
                  /\ latest'[r] = Grant(r).sequence
        PROVE  AnsweredByRobot(d)
    <2> DEFINE k == IF calls[c].waiting
                    THEN [calls[c] EXCEPT !.status = status, !.latest = p] ELSE Free
    <2>1. calls' = [calls EXCEPT ![c] = k] /\ calls'[c] = k
      BY <1>0, <1>6 DEF Answer
    <2>2. \/ k = Free
          \/ /\ k.kind = calls[c].kind /\ k.proto = calls[c].proto
             /\ k.status = status /\ k.latest = p
      BY <1>0 DEF Call
    <2> HIDE DEF k
    <2>3. CASE k = Free
      BY <1>1, <1>3, <2>1, <2>3
    <2>4. CASE /\ k.kind = calls[c].kind /\ k.proto = calls[c].proto
               /\ k.status = status /\ k.latest = p
      <3>1. Silent(k) \/ (c = d => AnsweredByRobot(d))
        BY <1>6, <2>1, <2>4 DEF Silent, Answered, Brings, AnsweredByRobot
      <3> QED
        BY <1>1, <2>1, <3>1
    <2> QED
      BY <2>2, <2>3, <2>4
  <1>7. ASSUME NEW c \in Calls, ServeAcquire(c) PROVE AnsweredByRobot(d)
    <2> DEFINE r == calls[c].proto.resource
    <2>1. r \in Resources /\ latest \in [Resources -> Known]
          /\ calls[c].kind \in {"acquire", "take"}
      BY <1>7 DEF ServeAcquire, SysInv, CallsInv, CallOK, RobotInv
    <2>2. CASE Answer(c, "REFUSED", Nothing)
      BY <1>6, <2>1, <2>2
    <2>3. CASE /\ latest[r][1] < MaxRoot /\ Answer(c, "OK", Grant(r))
               /\ latest' = [latest EXCEPT ![r] = Grant(r).sequence]
      <3>1. latest'[r] = Grant(r).sequence
        BY <2>1, <2>3
        <3> QED
        BY <1>6, <2>1, <2>3, <3>1
    <2> QED
      BY <1>7, <2>2, <2>3 DEF ServeAcquire
  <1>8. ASSUME NEW c \in Calls, ServeUse(c) \/ ServeReturn(c) PROVE AnsweredByRobot(d)
    <2>1. ASSUME ServeUse(c) PROVE AnsweredByRobot(d)
      <3>1. PICK status, p : Answer(c, status, p)
        BY <2>1 DEF ServeUse
      <3>2. calls[c].kind = "use"
        BY <2>1 DEF ServeUse
      <3> QED
        BY <1>6, <2>1, <3>1, <3>2
    <2>2. ASSUME ServeReturn(c) PROVE AnsweredByRobot(d)
      <3>1. PICK status, p : Answer(c, status, p)
        BY <2>2 DEF ServeReturn
      <3>2. calls[c].kind = "return"
        BY <2>2 DEF ServeReturn
      <3> QED
        BY <1>6, <3>1, <3>2
    <2> QED
      BY <1>8, <2>1, <2>2
  <1>9. ASSUME NEW c \in Calls, Expire(c) PROVE AnsweredByRobot(d)
    <2> DEFINE k == IF calls[c].status = "PENDING"
                    THEN [calls[c] EXCEPT !.waiting = FALSE] ELSE Free
    <2>1. calls' = [calls EXCEPT ![c] = k]
      BY <1>9 DEF Expire
    <2>2. ~k.waiting
      BY <1>0 DEF Call, Free
    <2> HIDE DEF k
    <2> QED
      BY <1>1, <2>1, <2>2 DEF Silent, Answered, Brings
  <1>10. CASE Client
    <2> QED
      BY <1>2, <1>5, <1>10 DEF Client, RequestLease, SendAsIs, BeginUse, EndUse
  <1>11. CASE Robot
    <2> QED
      BY <1>2, <1>7, <1>8, <1>11 DEF Robot, OtherTakes, Release, Restart
  <1>12. CASE Completion
    <2> QED
      BY <1>2, <1>4, <1>9, <1>12 DEF Completion, OnAcquireComplete, OnAcquireRefused,
         OnReturnLeaseComplete, OnUseComplete, Lose, EndUpdate
  <1> QED
    BY <1>2, <1>10, <1>11, <1>12 DEF SysNext, sysVars

(* The robot moves on, whoever takes the step. *)
LEMMA NextMoves ==
  ASSUME SysInv, SysInv', [SysNext]_sysVars
  PROVE  Moves
  <1>1. CASE UNCHANGED <<epoch, latest, holder>>
    BY <1>1, RobotNumbers DEF Moves, Forward
  <1>2. CASE Robot
    BY <1>2, RobotMoves
  <1> QED
    BY <1>1, <1>2 DEF SysNext, sysVars, robot, Client, RequestLease, SendAsIs, BeginUse,
       EndUse, Completion, OnAcquireComplete, OnAcquireRefused, OnReturnLeaseComplete,
       OnUseComplete, Expire, Lose, EndUpdate

(* What an answer said stays so. *)
LEMMA TruthStays ==
  ASSUME SysInv, SysInv', Moves, NEW k \in Call, Truthful(k),
         DerivesFrom(k.proto, granted)
  PROVE  Truthful(k)'
  <1> DEFINE q == k.latest
  <1>1. q \in LeaseProto /\ q.resource \in Resources /\ q.resource = k.proto.resource
    BY DEF Truthful, Call, DerivesFrom, LeaseProto, IsValid
  <1>2. /\ q.epoch \in Nat /\ Root(q) \in Nat /\ epoch \in Nat /\ epoch' \in Nat
        /\ latest[q.resource][1] \in Nat /\ latest'[q.resource][1] \in Nat
    BY <1>1, Numbers, RobotNumbers, RobotNumbersNext DEF Truthful, Root
  <1>3. SoFar(q)'
    BY <1>1, <1>2 DEF Truthful, SoFar, Moves, Forward
  <1>4. k.status = "REVOKED" =>
          Superseded(k.proto)' \/ holder'[k.proto.resource] # "us"
    BY SupersededStays DEF Truthful
  <1> QED
    BY <1>1, <1>3, <1>4 DEF Truthful

(* The verdict on a use is so. *)
LEMMA VerdictIsTrue ==
  ASSUME SysInv, SysInv', NEW c \in Calls, ServeUse(c), Answered(calls'[c])
  PROVE  /\ Truthful(calls[c])'
         /\ calls'[c].proto = calls[c].proto
         /\ calls'[c].latest = LatestProto(calls[c].proto.resource)'
  <1>1. PICK p, k, r, q : /\ p = calls[c].proto /\ k = calls'[c] /\ r = p.resource
                          /\ q = [LatestProto(r) EXCEPT !.sequence = latest'[r]]
    OBVIOUS
  <1>2. /\ DerivesFrom(p, granted) /\ r \in Resources /\ calls \in [Calls -> Call]
        /\ UNCHANGED <<epoch, holder>> /\ latest' \in [Resources -> Known]
    BY <1>1 DEF ServeUse, SysInv, CallsInv, CallOK, RobotInv
  <1>3. Answer(c, UseVerdict(p), q)
    BY <1>1 DEF ServeUse
  <1>4. k.proto = p /\ k.status = UseVerdict(p) /\ k.latest = q
    <2>1. calls'[c] = IF calls[c].waiting
                      THEN [calls[c] EXCEPT !.status = UseVerdict(p), !.latest = q]
                      ELSE Free
      BY <1>2, <1>3 DEF Answer
    <2> QED
      BY <1>1, <1>2, <2>1 DEF Call, Answered, Free
  <1>5. q = LatestProto(r)' /\ q.resource = r /\ q.epoch = epoch' /\ q.sequence = latest'[r]
    BY <1>1, <1>2 DEF LatestProto
  <1>6. latest'[r][1] \in Nat
    BY <1>2, RobotNumbersNext
  <1>7. SoFar(q)'
    BY <1>5, <1>6 DEF SoFar, Root
  <1>8. UseVerdict(p) = "REVOKED" => holder'[r] # "us"
    BY <1>1, <1>2 DEF UseVerdict
  <1> QED
    BY <1>1, <1>2, <1>4, <1>5, <1>7, <1>8 DEF Truthful

LEMMA NextTruthInv ==
  ASSUME SysInv, SysInv', TruthInv, [SysNext]_sysVars
  PROVE  TruthInv'
  <1> SUFFICES ASSUME NEW c \in Calls, Answered(calls'[c])
               PROVE  Truthful(calls[c])'
    BY DEF TruthInv
  <1>1. CASE calls'[c] = calls[c]
    <2>1. PICK k : k = calls[c]
      OBVIOUS
    <2>2. Truthful(k) /\ k \in Call /\ DerivesFrom(k.proto, granted)
      BY <1>1, <2>1 DEF TruthInv, SysInv, CallsInv, CallOK, Answered
    <2>3. Truthful(k)'
      BY <2>2, NextMoves, TruthStays
    <2> QED
      BY <1>1, <2>1, <2>3 DEF Truthful
  <1>2. CASE ServeUse(c)
    BY <1>2, VerdictIsTrue
  <1> QED
    BY <1>1, <1>2, Answering DEF AnsweredByRobot

LEMMA TruthInvariant == SysSpec => []TruthInv
  <1>1. SysInit => TruthInv
    BY DEF SysInit, TruthInv, Answered, Free
  <1> QED
    BY <1>1, NextTruthInv, SysInvariant, PTL DEF SysSpec

-----------------------------------------------------------------------------
(* What the robot has seen of a lease, when operations are kept apart *)

(* The uses for r that the robot has seen, or the client will hear of. *)
Seen(r) ==
  {LatestProto(r)} \cup
  {calls[c].latest : c \in {d \in Calls : Answered(calls[d]) /\ calls[d].proto.resource = r}}

(* The wallet has counted them all, and they are no uses of a lease that   *)
(* has not arrived.                                                        *)
Counted(r) ==
  \A q \in Seen(r) : Len(q.sequence) = 2 =>
    /\ Atomic!InWallet(r) /\ SameGrant(wallet[r].proto, q) => Use(q) <= Use(wallet[r].proto)
    /\ \A g \in Arriving(r) : ~SameGrant(g, q)

CountedInv == \A r \in Resources : Counted(r)

(* The messages that tell of uses. *)
LEMMA SeenNumbers ==
  ASSUME SysInv, TruthInv, NEW r \in Resources, NEW q \in Seen(r)
  PROVE  /\ q.resource = r /\ q \in LeaseProto /\ IsValid(q) /\ q.sequence \in Known
         /\ SoFar(q) /\ q.epoch \in Nat /\ Root(q) \in Nat
         /\ Len(q.sequence) = 2 => Use(q) \in Nat
  <1>1. q.resource = r /\ q \in LeaseProto /\ q.sequence \in Known /\ SoFar(q)
    <2>1. CASE q = LatestProto(r)
      <3>1. /\ q.resource = r /\ q.epoch = epoch /\ q.sequence = latest[r]
            /\ latest[r] \in Known /\ epoch \in Epochs
        BY <2>1 DEF LatestProto, SysInv, RobotInv
      <3>2. q \in LeaseProto
        BY <2>1, <3>1 DEF LatestProto, LeaseProto, Known
      <3> QED
        BY <3>1, <3>2, RobotNumbers DEF SoFar, Root
    <2>2. CASE q # LatestProto(r)
      <3>1. PICK c \in Calls :
              Answered(calls[c]) /\ calls[c].proto.resource = r /\ q = calls[c].latest
        BY <2>2 DEF Seen
      <3> QED
        BY <3>1 DEF TruthInv, Truthful, SysInv, CallsInv, Call
    <2> QED
      BY <2>1, <2>2
  <1> QED
    BY <1>1, Numbers, NoResourceAssumption DEF Root, Use, IsValid

(* A lease and its sublease come from the same grant. *)
LEMMA SubleaseSameGrant ==
  ASSUME NEW g \in LeaseProto, Len(g.sequence) = 1
  PROVE  SameGrant(g, CreateSublease(g))
  <1>1. g.sequence \in Seq(SeqNumber)
    BY DEF LeaseProto
  <1>2. Append(g.sequence, 0)[1] = g.sequence[1]
    BY <1>1
  <1> QED
    BY <1>2 DEF SameGrant, Root, CreateSublease, LeaseProto

(* What may happen to an entry: it goes, it is used, or a grant replaces it. *)
LEMMA EntryMoves ==
  ASSUME SysInv, OrderInv, AnswersUses, [SysNext]_sysVars, NEW r \in Resources
  PROVE  \/ ~Atomic!InWallet(r)'
         \/ /\ Atomic!InWallet(r)
            /\ SameGrant(wallet[r].proto, wallet'[r].proto)
            /\ Use(wallet[r].proto) <= Use(wallet'[r].proto)
         \/ \E g \in Arriving(r) : SameGrant(g, wallet'[r].proto)
  <1>0. WalletInv
    BY DEF SysInv, StoreInv
  <1>1. CASE wallet'[r] = wallet[r]
    BY <1>1, PairNumbers DEF SysInv, StoreInv, SameGrant, Atomic!InWallet
  <1>2. ASSUME NEW t \in Threads, Write(t), wallet'[r] # wallet[r]
        PROVE  /\ Atomic!InWallet(r)
               /\ SameGrant(wallet[r].proto, wallet'[r].proto)
               /\ Use(wallet[r].proto) <= Use(wallet'[r].proto)
    <2>1. wallet' = [wallet EXCEPT ![op[t].resource] = op[t].lease]
      BY <1>2 DEF Write, Atomic!AddLease, Atomic!Put, Atomic!Entry
    <2>2. r = op[t].resource /\ wallet'[r] = op[t].lease
      BY <1>0, <1>2, <2>1 DEF WalletInv, TypeOK
    <2>3. /\ Atomic!InWallet(r) /\ SameGrant(wallet[r].proto, op[t].lease.proto)
          /\ Use(wallet[r].proto) \in Nat
          /\ \/ Use(op[t].lease.proto) = Use(wallet[r].proto) + 1
             \/ op[t].lease.proto = wallet[r].proto
      BY <1>2, <2>2, StoredIsNoOlder
    <2> QED
      BY <2>2, <2>3
  <1>3. ASSUME NEW s \in Resources, RemoveLease(s), wallet'[r] # wallet[r]
        PROVE  ~Atomic!InWallet(r)'
    BY <1>0, <1>3
       DEF RemoveLease, Atomic!RemoveLease, Atomic!Put, Atomic!InWallet, WalletInv, TypeOK
  <1>4. ASSUME NEW g \in Grantable, g \in Arriving(g.resource),
               AddLease(g.resource, LeaseOf(g), TRUE), wallet'[r] # wallet[r]
        PROVE  g \in Arriving(r) /\ SameGrant(g, wallet'[r].proto)
    <2>1. wallet' = [wallet EXCEPT ![g.resource] = LeaseOf(CreateSublease(g))]
      BY <1>4 DEF AddLease, Atomic!AddLease, Atomic!Put, Atomic!Entry,
         Atomic!IsSelfOwned, Atomic!LeaseOf, Atomic!CreateSublease, LeaseOf, CreateSublease
    <2>2. r = g.resource /\ wallet'[r] = LeaseOf(CreateSublease(g))
      BY <1>0, <1>4, <2>1 DEF WalletInv, TypeOK
    <2>3. g \in granted
      BY <1>4 DEF Arriving, Brings, SysInv, CallsInv, CallOK
    <2>4. g \in LeaseProto /\ Len(g.sequence) = 1
      BY <2>3 DEF SysInv, RobotInv
    <2> QED
      BY <1>4, <2>2, <2>4, SubleaseSameGrant DEF LeaseOf
  <1> QED
    BY <1>1, <1>2, <1>3, <1>4, SystemWalletStep DEF WalletStep, AdvanceRead, UpdateRead

(* The robot learns of a use only from a request that carries it. *)
LEMMA LatestMoves ==
  ASSUME SysInv, [SysNext]_sysVars, NEW r \in Resources,
         LatestProto(r)' # LatestProto(r), Len(latest'[r]) = 2
  PROVE  /\ wallet' = wallet
         /\ \E p \in Handed(r) : SameGrant(p, LatestProto(r)') /\ latest'[r] = p.sequence
  <1>0. latest \in [Resources -> Known] /\ calls \in [Calls -> Call]
    BY DEF SysInv, RobotInv, CallsInv
  <1>1. ~UNCHANGED <<epoch, latest>>
    BY DEF LatestProto
  <1>2. ASSUME NEW x \in Nat, latest'[r] = <<x>> PROVE FALSE
    BY <1>2
  <1>3. ASSUME NEW s \in Resources, latest' = [latest EXCEPT ![s] = Grant(s).sequence],
               latest[s][1] < MaxRoot, epoch' = epoch
        PROVE  FALSE
    <2>1. latest[s][1] \in Nat /\ Grant(s).sequence = <<latest[s][1] + 1>>
      BY <1>3, RobotNumbers DEF Grant
    <2>2. CASE s = r
      BY <1>0, <1>2, <1>3, <2>1, <2>2
    <2>3. CASE s # r
      BY <1>0, <1>3, <2>3 DEF LatestProto
    <2> QED
      BY <2>2, <2>3
  <1>4. ASSUME NEW c \in Calls, ServeAcquire(c) PROVE FALSE
    <2>1. calls[c].proto.resource \in Resources
      BY <1>4 DEF ServeAcquire, SysInv, CallsInv, CallOK
    <2> QED
      BY <1>1, <1>3, <1>4, <2>1 DEF ServeAcquire
  <1>5. ASSUME NEW s \in Resources, OtherTakes(s) PROVE FALSE
    BY <1>3, <1>5 DEF OtherTakes
  <1>6. CASE Restart
    <2>1. latest'[r] = <<0>>
      BY <1>6 DEF Restart
    <2> QED
      BY <1>2, <2>1
  <1>7. ASSUME NEW c \in Calls, ServeUse(c)
        PROVE  /\ wallet' = wallet
               /\ \E p \in Handed(r) : SameGrant(p, LatestProto(r)') /\ latest'[r] = p.sequence
    <2>1. PICK p : p = calls[c].proto
      OBVIOUS
    <2>2. /\ p.resource \in Resources /\ UNCHANGED <<wallet, epoch>>
          /\ Carries(calls[c], p.resource)
      BY <1>7, <2>1 DEF ServeUse, SysInv, CallsInv, CallOK, Carries
    <2>3. latest' = [latest EXCEPT ![p.resource] = p.sequence] /\ p.epoch = epoch
      BY <1>1, <1>7, <2>1 DEF ServeUse, UseVerdict
    <2>4. p.resource = r
      BY <1>0, <2>2, <2>3 DEF LatestProto
    <2>5. p \in Handed(r)
      BY <2>1, <2>2, <2>4 DEF Handed
    <2> QED
      BY <1>0, <2>2, <2>3, <2>4, <2>5 DEF SameGrant, LatestProto, Root
  <1> QED
    BY <1>1, <1>4, <1>5, <1>6, <1>7 DEF SysNext, sysVars, robot, Robot, ServeReturn, Release,
       Client, RequestLease, SendAsIs, BeginUse, EndUse,
       Completion, OnAcquireComplete, OnAcquireRefused, OnReturnLeaseComplete,
       OnUseComplete, Expire, Lose, EndUpdate

(* A use that the robot learns of is one the wallet has counted. *)
LEMMA NextCountedInv ==
  ASSUME SysInv, SysInv', TruthInv, TruthInv', OrderInv, AnswersUses, CountedInv,
         [SysNext]_sysVars
  PROVE  CountedInv'
  <1> SUFFICES ASSUME NEW r \in Resources, NEW q \in Seen(r)', Len(q.sequence) = 2
               PROVE  /\ Atomic!InWallet(r)' /\ SameGrant(wallet'[r].proto, q) =>
                           Use(q) <= Use(wallet'[r].proto)
                      /\ \A g \in Arriving(r)' : ~SameGrant(g, q)
    BY DEF CountedInv, Counted
  <1>1. q \in Seen(r) \/ q = LatestProto(r)'
    <2>1. CASE q # LatestProto(r)'
      <3>1. PICK c \in Calls :
              Answered(calls'[c]) /\ calls'[c].proto.resource = r /\ q = calls'[c].latest
        BY <2>1 DEF Seen
      <3>2. CASE calls'[c] = calls[c]
        BY <3>1, <3>2 DEF Seen
      <3>3. CASE ServeUse(c)
        <4>1. calls'[c].proto = calls[c].proto
              /\ calls'[c].latest = LatestProto(calls[c].proto.resource)'
          BY <3>1, <3>3, VerdictIsTrue
        <4>2. PICK s : s = calls[c].proto.resource
          OBVIOUS
        <4>3. s = r
          BY <3>1, <4>1, <4>2
        <4> QED
          BY <2>1, <3>1, <4>1, <4>2, <4>3 DEF LatestProto
      <3> QED
        BY <3>1, <3>2, <3>3, Answering DEF AnsweredByRobot
    <2> QED
      BY <2>1
  <1>2. ASSUME NEW g \in Arriving(r)'
        PROVE  \/ g \in Arriving(r)
               \/ g = Grant(r) /\ latest[r][1] < MaxRoot /\ latest'[r] = Grant(r).sequence
    <2>1. PICK c \in Calls : Brings(calls'[c], r) /\ g = calls'[c].latest
      BY <1>2 DEF Arriving
    <2> QED
      BY <2>1, Answering DEF Arriving, AnsweredByRobot
  <1>3. Len(latest[r]) \in Nat /\ latest[r][1] \in Nat /\ Len(Grant(r).sequence) = 1
        /\ Grant(r).epoch = epoch /\ Root(Grant(r)) = latest[r][1] + 1
    <2>1. latest[r] \in Seq(SeqNumber) /\ latest[r][1] \in Nat
      BY RobotNumbers DEF SysInv, RobotInv, Known
    <2> QED
      BY <2>1 DEF Grant, Root
  <1>4. CASE q \in Seen(r)
    <2>1. /\ SoFar(q) /\ q.resource = r /\ q.epoch \in Nat /\ Root(q) \in Nat /\ Use(q) \in Nat
          /\ epoch \in Nat
      BY <1>4, SeenNumbers, RobotNumbers
    <2>2. \A g \in Arriving(r) : ~SameGrant(g, q)
      BY <1>4 DEF CountedInv, Counted
    <2>3. ~SameGrant(Grant(r), q)
      BY <1>3, <2>1 DEF SameGrant, SoFar
    <2>4. ASSUME Atomic!InWallet(r)', SameGrant(wallet'[r].proto, q)
          PROVE  Use(q) <= Use(wallet'[r].proto)
      <3>1. CASE /\ Atomic!InWallet(r)
                 /\ SameGrant(wallet[r].proto, wallet'[r].proto)
                 /\ Use(wallet[r].proto) <= Use(wallet'[r].proto)
        <4>1. SameGrant(wallet[r].proto, q)
          BY <2>4, <3>1 DEF SameGrant
        <4>2. Use(q) <= Use(wallet[r].proto)
          BY <1>4, <3>1, <4>1 DEF CountedInv, Counted
        <4>3. DerivesFrom(wallet[r].proto, granted) /\ DerivesFrom(wallet'[r].proto, granted')
          BY <2>4, <3>1 DEF SysInv, StoreInv, Atomic!InWallet
        <4>4. Use(wallet[r].proto) \in Nat /\ Use(wallet'[r].proto) \in Nat
          BY <4>3, PairNumbers
        <4> QED
          BY <2>1, <3>1, <4>2, <4>4
      <3>2. ASSUME NEW g \in Arriving(r), SameGrant(g, wallet'[r].proto) PROVE FALSE
        BY <2>2, <2>4, <3>2 DEF SameGrant
      <3> QED
        BY <2>4, <3>1, <3>2, EntryMoves
    <2> QED
      BY <1>2, <2>2, <2>3, <2>4
  <1>5. CASE q = LatestProto(r)' /\ q # LatestProto(r)
    <2>1. Len(latest'[r]) = 2 /\ q.sequence = latest'[r]
      BY <1>5 DEF LatestProto
    <2>2. wallet' = wallet
      BY <1>5, <2>1, LatestMoves
    <2>3. PICK p \in Handed(r) : SameGrant(p, q) /\ q.sequence = p.sequence
      BY <1>5, <2>1, LatestMoves
    <2>4. DerivesFrom(p, granted)
      BY <2>3, HandedDerive DEF Derived
    <2>5. p.epoch \in Nat /\ Root(p) \in Nat /\ Use(p) \in Nat /\ Use(q) = Use(p)
      BY <2>3, <2>4, PairNumbers DEF Use
    <2>6. Atomic!InWallet(r) => NotNewer(p, wallet[r].proto)
      BY <2>3 DEF OrderInv, Ordered
    <2>7. Atomic!InWallet(r) /\ SameGrant(wallet[r].proto, q) => Use(q) <= Use(wallet[r].proto)
      BY <2>3, <2>5, <2>6 DEF NotNewer, GrantedBefore, SameGrant
    <2>8. \A g \in Arriving(r) : ~SameGrant(g, q)
      BY <2>3, <2>5 DEF OrderInv, Ordered, GrantedBefore, SameGrant
    <2>9. \A g \in Arriving(r)' : g \in Arriving(r)
      <3>1. ASSUME latest'[r] = Grant(r).sequence PROVE FALSE
        <4>1. Len(latest'[r]) = 1
          BY <1>3, <3>1
        <4>2. PICK n \in Nat : n = Len(latest'[r])
          BY <4>1
        <4> QED
          BY <2>1, <4>1, <4>2
      <3> QED
        BY <1>2, <3>1
    <2>10. \A g \in Arriving(r)' : ~SameGrant(g, q)
      BY <2>8, <2>9
    <2>11. Atomic!InWallet(r)' /\ SameGrant(wallet'[r].proto, q) =>
             Use(q) <= Use(wallet'[r].proto)
      BY <2>2, <2>7 DEF Atomic!InWallet
    <2> QED
      BY <2>10, <2>11
  <1> QED
    BY <1>1, <1>4, <1>5 DEF Seen

LEMMA CountedInvariant ==
  ASSUME ~Overlap
  PROVE  SysSpec => []CountedInv
  <1>1. SysInit => CountedInv /\ AnswersUses
    <2> SUFFICES ASSUME SysInit PROVE CountedInv /\ AnswersUses
      OBVIOUS
    <2>1. AnswersUses
      BY DEF SysInit, AnswersUses, Free
    <2>2. ASSUME NEW r \in Resources PROVE Counted(r)
      <3>1. Seen(r) = {LatestProto(r)} /\ LatestProto(r).sequence = <<0>>
        BY DEF SysInit, Seen, Answered, Free, LatestProto
      <3> QED
        BY <3>1 DEF Counted
    <2> QED
      BY <2>1, <2>2 DEF CountedInv
  <1>2. SysInv /\ AnswersUses /\ [SysNext]_sysVars => AnswersUses'
    BY NextAnswersUses
  <1>3. SysInv /\ SysInv' /\ TruthInv /\ TruthInv' /\ OrderInv /\ AnswersUses /\ CountedInv
        /\ [SysNext]_sysVars => CountedInv'
    BY NextCountedInv
  <1> QED
    BY <1>1, <1>2, <1>3, SysInvariant, OrderInvariant, TruthInvariant, PTL DEF SysSpec

-----------------------------------------------------------------------------
(* What an answer may take from the client *)

(* A lease that an OLDER answer disowns is behind what the robot has seen. *)
LEMMA DisownedByOlder ==
  ASSUME SysInv, TruthInv, Overlap \/ CountedInv, NEW c \in Calls, Answered(calls[c]),
         NEW r \in Resources, r = calls[c].proto.resource, Atomic!InWallet(r),
         calls[c].status = "OLDER",
         ~SupersedesOlderResult(wallet[r].proto, UseResult(c))
  PROVE  LET l == wallet[r] IN
         \/ Superseded(l.proto)
         \/ Predates(UseResult(c), l)
         \/ FallenBehind(UseResult(c), l)
  <1>1. PICK q, w : q = calls[c].latest /\ w = wallet[r].proto
    OBVIOUS
  <1>2. UseResult(c).latest = q /\ UseResult(c).status = "OLDER"
    BY <1>1 DEF UseResult
  <1>3. q \in Seen(r)
    BY <1>1 DEF Seen
  <1>4. /\ q.resource = r /\ q \in LeaseProto /\ IsValid(q) /\ q.sequence \in Known
        /\ SoFar(q) /\ q.epoch \in Nat /\ Root(q) \in Nat
        /\ Len(q.sequence) = 2 => Use(q) \in Nat
    BY <1>3, SeenNumbers
  <1>5. /\ DerivesFrom(w, granted) /\ w.resource = r
        /\ w \in LeaseProto /\ IsValid(w) /\ Len(w.sequence) = 2
        /\ w.epoch \in Nat /\ Root(w) \in Nat /\ Use(w) \in Nat
    <2>1. DerivesFrom(w, granted) /\ w.resource = r
      BY <1>1 DEF SysInv, StoreInv, WalletInv, EntriesValid
    <2> QED
      BY <2>1, PairNumbers DEF DerivesFrom
  <1>6. epoch \in Nat /\ latest[r][1] \in Nat
    BY RobotNumbers
  <1>7. CASE q.epoch < w.epoch
    BY <1>1, <1>2, <1>7 DEF Predates
  <1>8. CASE w.epoch < q.epoch
    <2>1. q.epoch <= epoch /\ w.epoch # epoch
      BY <1>4, <1>5, <1>6, <1>8 DEF SoFar
    <2> QED
      BY <1>1, <2>1 DEF Superseded
  <1>9. CASE w.epoch = q.epoch
    <2> DEFINE s == w.sequence
               t == q.sequence
    <2>1. Compare(w, q) \notin {"NEWER", "SAME"}
      BY <1>1, <1>2, <1>4 DEF SupersedesOlderResult
    <2>2. w # q /\ ~Before(t, s)
      BY <1>4, <1>5, <1>9, <2>1, CompareMeaning
    <2>3. s \in Clock /\ t \in Clock /\ Len(s) = 2 /\ Len(t) \in {1, 2}
      BY <1>4, <1>5 DEF LeaseProto, Clock, Known
    <2>4. Root(w) <= Root(q)
      <3>1. ASSUME Root(q) < Root(w) PROVE FALSE
        <4>1. 1 \in 1 .. Len(t) /\ 1 <= Len(s) /\ t[1] < s[1] /\ \A j \in 1 .. 1 - 1 : t[j] = s[j]
          BY <2>3, <3>1 DEF Root
        <4> HIDE DEF s, t
        <4> QED
          BY <2>2, <2>3, <4>1, BeforeAt
      <3> QED
        BY <1>4, <1>5, <3>1
    <2>5. CASE Root(w) < Root(q)
      <3>1. w.epoch = epoch => Root(q) <= latest[r][1]
        BY <1>4, <1>5, <1>6, <1>9 DEF SoFar
      <3>2. w.epoch = epoch => Root(w) < latest[w.resource][1]
        BY <1>4, <1>5, <1>6, <2>5, <3>1
      <3> QED
        BY <1>1, <3>2 DEF Superseded
    <2>6. CASE Root(w) = Root(q) /\ Len(t) = 1
      <3>1. t = <<s[1]>>
        BY <2>3, <2>6 DEF Root, Clock
      <3> QED
        BY <1>1, <1>2, <1>9, <3>1 DEF Predates
    <2>7. CASE Root(w) = Root(q) /\ Len(t) = 2
      <3>1. Use(w) < Use(q)
        <4>1. ASSUME Use(q) < Use(w) PROVE FALSE
          <5>1. /\ 2 \in 1 .. Len(t) /\ 2 <= Len(s) /\ t[2] < s[2]
                /\ \A j \in 1 .. 2 - 1 : t[j] = s[j]
            BY <2>3, <2>7, <4>1 DEF Root, Use
          <5> HIDE DEF s, t
          <5> QED
            BY <2>2, <2>3, <5>1, BeforeAt
        <4>2. ASSUME Use(q) = Use(w) PROVE FALSE
          <5>1. s = t
            BY <2>3, <2>7, <4>2 DEF Root, Use, Clock
          <5> QED
            BY <1>4, <1>5, <1>9, <2>2, <5>1 DEF LeaseProto
        <4> QED
          BY <1>4, <1>5, <2>7, <4>1, <4>2
      <3>2. Overlap
        <4>1. ASSUME CountedInv PROVE FALSE
          <5>1. Counted(r)
            BY <4>1 DEF CountedInv
          <5>2. SameGrant(w, q) => Use(q) <= Use(w)
            BY <1>1, <1>3, <2>7, <5>1 DEF Counted
          <5>3. SameGrant(w, q)
            BY <1>9, <2>7 DEF SameGrant
          <5> QED
            BY <1>4, <1>5, <2>7, <3>1, <5>2, <5>3
        <4> QED
          BY <4>1
      <3> QED
        BY <1>1, <1>2, <1>9, <2>7, <3>1, <3>2 DEF FallenBehind, Root, Use
    <2> QED
      BY <1>4, <1>5, <2>3, <2>4, <2>5, <2>6, <2>7
  <1> QED
    BY <1>4, <1>5, <1>7, <1>8, <1>9

(* An answer disowns no lease the robot still honours but one it predates. *)
LEMMA AnswerIsTrue ==
  ASSUME SysInv, TruthInv, Overlap \/ CountedInv, NEW c \in Calls, Answered(calls[c]),
         NEW r, r = calls[c].proto.resource, Atomic!Owned(r),
         NEW l, l = UpdateFromLeaseUseResult(wallet[r], UseResult(c)), ~IsSelfOwned(l)
  PROVE  \/ Lost(l)
         \/ Predates(UseResult(c), wallet[r])
         \/ FallenBehind(UseResult(c), wallet[r])
  <1>1. PICK p, q, w, result :
          /\ p = calls[c].proto /\ q = calls[c].latest /\ w = wallet[r]
          /\ result = UseResult(c)
    OBVIOUS
  <1>2. /\ result.status = calls[c].status /\ result.latest = q /\ result.attempted = p
        /\ l = UpdateFromLeaseUseResult(w, result)
    BY <1>1 DEF UseResult
  <1>3. /\ r \in Resources /\ DerivesFrom(p, granted) /\ p.resource = r /\ q \in LeaseProto
    BY <1>1 DEF Answered, SysInv, CallsInv, CallOK, Call
  <1>4. w \in Lease /\ DerivesFrom(w.proto, granted) /\ w.proto.resource = r /\ Atomic!InWallet(r)
    BY <1>1, <1>3 DEF SysInv, StoreInv, WalletInv, TypeOK, EntriesValid, Atomic!Owned,
       Atomic!InWallet
  <1>5. l.proto = w.proto /\ l # w
    <2>1. IsSelfOwned(w)
      BY <1>1, SameOperations DEF Atomic!Owned
    <2> QED
      BY <1>2, <1>4, <2>1, UpdateType
  <1>6. Superseded(w.proto) => Lost(l)
    BY <1>4, <1>5 DEF Superseded, Lost, Root
  <1>7. CASE result.status = "OLDER"
    <2>1. ~SupersedesOlderResult(w.proto, result)
      BY <1>2, <1>5, <1>7 DEF UpdateFromLeaseUseResult
    <2>2. /\ calls[c].status = "OLDER" /\ r = calls[c].proto.resource
          /\ ~SupersedesOlderResult(wallet[r].proto, UseResult(c))
      BY <1>1, <1>2, <1>7, <2>1
    <2>3. \/ Superseded(wallet[r].proto)
          \/ Predates(UseResult(c), wallet[r])
          \/ FallenBehind(UseResult(c), wallet[r])
      BY <1>3, <1>4, <2>2, DisownedByOlder
    <2> QED
      BY <1>1, <1>6, <2>3
  <1>8. CASE result.status = "WRONG_EPOCH"
    <2>1. w.proto.epoch # q.epoch
      BY <1>2, <1>5, <1>8 DEF UpdateFromLeaseUseResult
    <2>2. w.proto.epoch \in Nat /\ q.epoch \in Nat /\ epoch \in Nat /\ SoFar(q)
      BY <1>1, <1>3, <1>4, PairNumbers, Numbers, RobotNumbers DEF TruthInv, Truthful
    <2>3. CASE q.epoch < w.proto.epoch
      BY <1>1, <1>2, <1>8, <2>3 DEF Predates
    <2>4. CASE w.proto.epoch < q.epoch
      BY <1>6, <2>2, <2>4 DEF SoFar, Superseded
    <2> QED
      BY <2>1, <2>2, <2>3, <2>4
  <1>9. CASE result.status = "REVOKED"
    <2>1. ConcernedByRevocation(w.proto, result) /\ l.status = "REVOKED"
      BY <1>2, <1>4, <1>5, <1>9 DEF UpdateFromLeaseUseResult, Lease
    <2>2. Superseded(p) \/ holder[r] # "us"
      BY <1>1, <1>2, <1>3, <1>9 DEF TruthInv, Truthful
    <2>3. /\ p \in LeaseProto /\ IsValid(p) /\ Len(p.sequence) = 2
          /\ w.proto \in LeaseProto /\ IsValid(w.proto) /\ Len(w.proto.sequence) = 2
      BY <1>3, <1>4 DEF DerivesFrom
    <2>4. CASE holder[r] # "us"
      BY <1>4, <1>5, <2>1, <2>4 DEF Lost
    <2>5. CASE Superseded(p)
      <3>1. Compare(w.proto, p) \in {"SAME", "SUB_LEASE"}
        BY <1>2, <2>1 DEF ConcernedByRevocation
      <3>2. w.proto.epoch = p.epoch
        BY <1>3, <1>4, <2>3, <3>1 DEF Compare, CompareIgnoringResource
      <3>3. w.proto = p
        BY <1>3, <1>4, <2>3, <3>1, <3>2, CompareMeaning
      <3> QED
        BY <1>6, <2>5, <3>3
    <2> QED
      BY <2>2, <2>4, <2>5
  <1> QED
    BY <1>2, <1>5, <1>7, <1>8, <1>9 DEF UpdateFromLeaseUseResult

(* Whatever the program acquires, uses and returns while requests are      *)
(* outstanding, no answer costs it a lease the robot still honours, unless *)
(* the answer predates the lease or the program has lost an update of its  *)
(* wallet, which it cannot if it keeps operations apart (lease.cpp:199).   *)
THEOREM SystemAnswersDisownOnlyLost == SysSpec => []AnswersDisownOnlyLost
  <1>1. SysInv /\ TruthInv /\ (Overlap \/ CountedInv) => AnswersDisownOnlyLost
    BY AnswerIsTrue DEF AnswersDisownOnlyLost
  <1>2. CASE Overlap
    BY <1>1, <1>2, SysInvariant, TruthInvariant, PTL
  <1>3. CASE ~Overlap
    BY <1>1, <1>3, SysInvariant, TruthInvariant, CountedInvariant, PTL
  <1> QED
    BY <1>2, <1>3

=============================================================================
