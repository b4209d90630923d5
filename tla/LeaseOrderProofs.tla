-------------------------- MODULE LeaseOrderProofs --------------------------
(***************************************************************************)
(* Theorems about leases as values, for every set of resources and epochs  *)
(* and every width of the sequence numbers.                                *)
(***************************************************************************)
EXTENDS LeaseOrder, SequenceTheorems, WellFoundedInduction, TLAPS

(* Every non-empty set of natural numbers has a least one. *)
LEMMA LeastNatural ==
  ASSUME NEW T, T \subseteq Nat, T # {}
  PROVE  \E x \in T : \A y \in T : x <= y
  <1> DEFINE R == {ss \in Nat \X Nat : ss[1] < ss[2]}
  <1>1. IsWellFoundedOn(R, Nat)
    BY NatLessThanWellFounded DEF OpToRel
  <1> HIDE DEF R
  <1>2. PICK x \in T : \A y \in T : <<y, x>> \notin R
    BY <1>1, WFMin
  <1>3. \A y \in T : ~ (y < x)
    BY <1>2 DEF R
  <1> QED
    BY <1>3

-----------------------------------------------------------------------------
(* Clocks: the order that CompareIgnoringResource finds *)

Clock == Seq(SeqNumber)

(* The numbers of a clock are natural numbers at natural positions. *)
LEMMA ClockNumbers ==
  ASSUME NEW s \in Clock
  PROVE  /\ Len(s) \in Nat
         /\ \A i \in 1 .. Len(s) : s[i] \in Nat
  BY SeqModAssumption DEF Clock, SeqNumber

(* The common prefix is part of both clocks. *)
LEMMA ShorterOfTwo ==
  ASSUME NEW s \in Clock, NEW t \in Clock
  PROVE  /\ Shorter(s, t) \in Nat
         /\ Shorter(s, t) <= Len(s) /\ Shorter(s, t) <= Len(t)
         /\ Shorter(s, t) = Len(s) \/ Shorter(s, t) = Len(t)
         /\ Shorter(s, t) = Shorter(t, s)
  BY ClockNumbers DEF Shorter

(* Clocks that do not agree have a first position where they differ. *)
LEMMA FirstDifference ==
  ASSUME NEW s \in Clock, NEW t \in Clock, ~Agree(s, t)
  PROVE  \E i \in 1 .. Shorter(s, t) :
           /\ s[i] # t[i]
           /\ \A j \in 1 .. i - 1 : s[j] = t[j]
  <1> DEFINE D == {i \in 1 .. Shorter(s, t) : s[i] # t[i]}
  <1>1. D \subseteq Nat /\ D # {}
    BY ShorterOfTwo DEF Agree
  <1>2. PICK i \in D : \A j \in D : i <= j
    BY <1>1, LeastNatural
  <1>3. \A j \in 1 .. i - 1 : j \in 1 .. Shorter(s, t) /\ j \notin D
    BY <1>2, ShorterOfTwo
  <1> QED
    BY <1>2, <1>3

(* Of two clocks that do not agree exactly one comes before the other. *)
LEMMA BeforeIsTotal ==
  ASSUME NEW s \in Clock, NEW t \in Clock, ~Agree(s, t)
  PROVE  Before(s, t) <=> ~Before(t, s)
  <1>1. PICK i \in 1 .. Shorter(s, t) :
          s[i] # t[i] /\ \A j \in 1 .. i - 1 : s[j] = t[j]
    BY FirstDifference
  <1>2. /\ i \in Nat /\ s[i] \in Nat /\ t[i] \in Nat
        /\ i \in 1 .. Shorter(t, s)
    BY ClockNumbers, ShorterOfTwo
  <1>3. ASSUME NEW k \in 1 .. Shorter(s, t), s[k] # t[k],
               \A j \in 1 .. k - 1 : s[j] = t[j]
        PROVE  k = i
    <2>1. k \in Nat /\ (k < i => k \in 1 .. i - 1) /\ (i < k => i \in 1 .. k - 1)
      BY <1>2, ShorterOfTwo
    <2> QED
      BY <1>1, <1>2, <1>3, <2>1
  <1>4. Before(s, t) <=> s[i] < t[i]
    <2>1. ASSUME Before(s, t) PROVE s[i] < t[i]
      <3>1. PICK k \in 1 .. Shorter(s, t) :
              s[k] < t[k] /\ \A j \in 1 .. k - 1 : s[j] = t[j]
        BY <2>1 DEF Before
      <3>2. s[k] # t[k]
        BY <3>1, ClockNumbers, ShorterOfTwo
      <3> QED
        BY <1>3, <3>1, <3>2
    <2> QED
      BY <1>1, <2>1 DEF Before
  <1>5. Before(t, s) <=> t[i] < s[i]
    <2>1. ASSUME Before(t, s) PROVE t[i] < s[i]
      <3>1. PICK k \in 1 .. Shorter(s, t) :
              t[k] < s[k] /\ \A j \in 1 .. k - 1 : s[j] = t[j]
        BY <2>1, ShorterOfTwo DEF Before
      <3>2. s[k] # t[k]
        BY <3>1, ClockNumbers, ShorterOfTwo
      <3> QED
        BY <1>3, <3>1, <3>2
    <2> QED
      BY <1>1, <1>2, <2>1 DEF Before
  <1> QED
    BY <1>1, <1>2, <1>4, <1>5

(* Clocks that agree and are as long as each other are equal. *)
LEMMA AgreeingIsEqual ==
  ASSUME NEW s \in Clock, NEW t \in Clock, Agree(s, t), Len(s) = Len(t)
  PROVE  s = t
  BY ClockNumbers DEF Clock, Agree, Shorter

(* Agreement does not depend on the order. *)
LEMMA AgreeIsSymmetric ==
  ASSUME NEW s \in Clock, NEW t \in Clock
  PROVE  Agree(s, t) <=> Agree(t, s)
  BY ShorterOfTwo DEF Agree

(* What comes before a clock comes before those that extend it, and before *)
(* those that come after it.                                               *)
LEMMA BeforeIsTransitive ==
  ASSUME NEW s \in Clock, NEW t \in Clock, NEW u \in Clock, Before(s, t),
         Before(t, u) \/ (Agree(t, u) /\ Len(t) <= Len(u))
  PROVE  Before(s, u)
  <1>1. PICK i \in 1 .. Shorter(s, t) :
          s[i] < t[i] /\ \A j \in 1 .. i - 1 : s[j] = t[j]
    BY DEF Before
  <1>2. i \in Nat /\ i <= Len(s) /\ i <= Len(t)
    BY ShorterOfTwo
  <1>3. CASE Agree(t, u) /\ Len(t) <= Len(u)
    <2>1. Shorter(t, u) = Len(t)
      BY <1>3, ClockNumbers DEF Shorter
    <2>2. \A j \in 1 .. i : j \in 1 .. Len(t) /\ t[j] = u[j]
      BY <1>2, <1>3, <2>1, ClockNumbers DEF Agree
    <2>3. i \in 1 .. Shorter(s, u)
      BY <1>2, <1>3, ClockNumbers DEF Shorter
    <2> QED
      BY <1>1, <1>2, <2>2, <2>3 DEF Before
  <1>4. CASE Before(t, u)
    <2>1. PICK k \in 1 .. Shorter(t, u) :
            t[k] < u[k] /\ \A j \in 1 .. k - 1 : t[j] = u[j]
      BY <1>4 DEF Before
    <2>2. k \in Nat /\ k <= Len(t) /\ k <= Len(u)
      BY ShorterOfTwo
    <2> DEFINE m == IF i < k THEN i ELSE k
    <2>3. m \in 1 .. Shorter(s, u)
      BY <1>2, <2>2, ClockNumbers DEF Shorter
    <2>4. s[m] \in Nat /\ t[m] \in Nat /\ u[m] \in Nat
      BY <1>2, <2>2, ClockNumbers
    <2>5. s[m] < u[m]
      <3>1. CASE i < k
        BY <1>1, <1>2, <2>1, <2>2, <3>1
      <3>2. CASE i = k
        <4>1. s[m] < t[m] /\ t[m] < u[m]
          BY <1>1, <2>1, <3>2
        <4> QED
          BY <4>1, <2>4
      <3>3. CASE k < i
        BY <1>1, <1>2, <2>1, <2>2, <3>3
      <3> QED
        BY <1>2, <2>2, <3>1, <3>2, <3>3
    <2>6. \A j \in 1 .. m - 1 : j \in 1 .. i - 1 /\ j \in 1 .. k - 1
      BY <1>2, <2>2
    <2>7. \A j \in 1 .. m - 1 : s[j] = u[j]
      BY <1>1, <2>1, <2>6
    <2> QED
      BY <2>3, <2>5, <2>7 DEF Before
  <1> QED
    BY <1>3, <1>4
-----------------------------------------------------------------------------
(* Messages and objects: what the operations preserve *)

(* Incrementing a valid lease gives a valid lease for the same resource. *)
LEMMA IncrementType ==
  ASSUME NEW p \in LeaseProto, IsValid(p)
  PROVE  /\ Increment(p) \in LeaseProto
         /\ IsValid(Increment(p))
         /\ Increment(p).resource = p.resource
  <1> DEFINE s == p.sequence
             n == Len(s)
             v == (s[n] + 1) % SeqMod
             q == [s EXCEPT ![n] = v]
  <1>1. s \in Seq(SeqNumber) /\ s # <<>> /\ n \in Nat /\ n > 0
    BY EmptySeq DEF LeaseProto, IsValid
  <1>2. v \in SeqNumber
    BY <1>1, SeqModAssumption DEF SeqNumber
  <1>3. q \in Seq(SeqNumber) /\ Len(q) = n
    BY <1>1, <1>2
  <1>4. Increment(p) = [p EXCEPT !.sequence = q]
    BY DEF Increment, LeaseProto
  <1> QED
    BY <1>1, <1>3, <1>4 DEF LeaseProto, IsValid

(* So does subleasing it. *)
LEMMA SubleaseType ==
  ASSUME NEW p \in LeaseProto, IsValid(p)
  PROVE  /\ CreateSublease(p) \in LeaseProto
         /\ IsValid(CreateSublease(p))
         /\ CreateSublease(p).resource = p.resource
  <1>1. 0 \in SeqNumber
    BY SeqModAssumption DEF SeqNumber
  <1>2. Append(p.sequence, 0) \in Seq(SeqNumber) /\ Append(p.sequence, 0) # <<>>
    BY <1>1 DEF LeaseProto
  <1> QED
    BY <1>2 DEF CreateSublease, LeaseProto, IsValid

(* A result changes at most the status of a lease. *)
LEMMA UpdateType ==
  ASSUME NEW l \in Lease, NEW result
  PROVE  /\ UpdateFromLeaseUseResult(l, result) \in Lease
         /\ UpdateFromLeaseUseResult(l, result).proto = l.proto
  BY DEF UpdateFromLeaseUseResult, Lease, LeaseStatus

-----------------------------------------------------------------------------
(* Comparison of messages *)

(* A clock that comes before another does not agree with it. *)
LEMMA BeforeDisagrees ==
  ASSUME NEW s \in Clock, NEW t \in Clock, Before(s, t)
  PROVE  ~Agree(s, t)
  <1>1. PICK i \in 1 .. Shorter(s, t) : s[i] < t[i]
    BY DEF Before
  <1>2. s[i] \in Nat /\ t[i] \in Nat
    BY ClockNumbers, ShorterOfTwo
  <1> QED
    BY <1>1, <1>2 DEF Agree

(* Leases of one resource and epoch: what the answers of Compare mean. *)
LEMMA CompareMeaning ==
  ASSUME NEW p \in LeaseProto, NEW q \in LeaseProto, IsValid(p), IsValid(q),
         p.resource = q.resource, p.epoch = q.epoch
  PROVE  LET s == p.sequence  t == q.sequence IN
         /\ Compare(p, q) = "OLDER" <=> Before(s, t)
         /\ Compare(p, q) = "NEWER" <=> Before(t, s)
         /\ Compare(p, q) = "SUPER_LEASE" <=> Agree(s, t) /\ Len(s) < Len(t)
         /\ Compare(p, q) = "SUB_LEASE" <=> Agree(s, t) /\ Len(t) < Len(s)
         /\ Compare(p, q) = "SAME" <=> p = q
         /\ Compare(p, q) \in {"OLDER", "NEWER", "SUPER_LEASE", "SUB_LEASE", "SAME"}
  <1> DEFINE s == p.sequence
             t == q.sequence
  <1>1. s \in Clock /\ t \in Clock /\ Len(s) \in Nat /\ Len(t) \in Nat
    BY DEF LeaseProto, Clock
  <1>2. ~Agree(s, t) => (Before(s, t) <=> ~Before(t, s))
    BY <1>1, BeforeIsTotal
  <1>3. Agree(s, t) => ~Before(s, t) /\ ~Before(t, s)
    BY <1>1, BeforeDisagrees, AgreeIsSymmetric
  <1>4. Agree(s, t) /\ Len(s) = Len(t) <=> p = q
    <2>1. Agree(s, t) /\ Len(s) = Len(t) => s = t
      BY <1>1, AgreeingIsEqual
    <2>2. s = t => p = q
      BY DEF LeaseProto
    <2> QED
      BY <2>1, <2>2 DEF Agree
  <1>5. Compare(p, q) =
          IF ~Agree(s, t) THEN IF Before(s, t) THEN "OLDER" ELSE "NEWER"
          ELSE IF Len(s) < Len(t) THEN "SUPER_LEASE"
          ELSE IF Len(s) > Len(t) THEN "SUB_LEASE"
          ELSE "SAME"
    BY DEF Compare, CompareIgnoringResource
  <1> HIDE DEF s, t
  <1>6. CASE Agree(s, t)
    BY <1>1, <1>3, <1>4, <1>5, <1>6 DEF s, t
  <1>7. CASE ~Agree(s, t)
    BY <1>1, <1>2, <1>4, <1>5, <1>7 DEF s, t
  <1> QED
    BY <1>6, <1>7

-----------------------------------------------------------------------------
(* The clocks that Increment and CreateSublease make *)

(* A valid lease has a last number. *)
LEMMA LastNumber ==
  ASSUME NEW p \in LeaseProto, IsValid(p)
  PROVE  LET s == p.sequence  n == Len(p.sequence) IN
         /\ s \in Clock
         /\ n \in Nat \ {0}
         /\ \A i \in 1 .. n : s[i] \in Nat
         /\ s[n] \in SeqNumber
  BY EmptySeq, ClockNumbers DEF LeaseProto, IsValid, Clock

(* A number below the modulus is its own remainder. *)
LEMMA SmallRemainder ==
  ASSUME NEW a \in Nat, NEW b \in Nat, a < b
  PROVE  a % b = a
  BY SMTT(30)

(* Below the limit Increment adds one to the last number and to nothing    *)
(* else (lease.cpp:158).                                                   *)
LEMMA IncrementClock ==
  ASSUME NEW p \in LeaseProto, IsValid(p), ~AtLimit(p)
  PROVE  LET s == p.sequence  n == Len(p.sequence)  t == Increment(p).sequence IN
         /\ Increment(p).epoch = p.epoch
         /\ Len(t) = n
         /\ \A i \in 1 .. n - 1 : t[i] = s[i]
         /\ t[n] = s[n] + 1
  <1> DEFINE s == p.sequence
             n == Len(s)
             v == (s[n] + 1) % SeqMod
             q == [s EXCEPT ![n] = v]
  <1>1. s \in Seq(SeqNumber) /\ n \in Nat \ {0} /\ s[n] \in SeqNumber
    BY LastNumber DEF Clock
  <1>2. v = s[n] + 1 /\ v \in SeqNumber
    <2>1. s[n] # SeqMod - 1
      BY DEF AtLimit
    <2>2. s[n] + 1 \in Nat /\ s[n] + 1 < SeqMod /\ SeqMod \in Nat
      BY <1>1, <2>1, SeqModAssumption DEF SeqNumber
    <2>3. v = s[n] + 1
      BY <2>2, SmallRemainder
    <2> QED
      BY <2>2, <2>3 DEF SeqNumber
  <1>3. q \in Seq(SeqNumber) /\ Len(q) = n /\ q[n] = v
        /\ \A i \in 1 .. n - 1 : q[i] = s[i]
    BY <1>1, <1>2
  <1>4. Increment(p) = [p EXCEPT !.sequence = q]
    BY DEF Increment, LeaseProto
  <1>5. Increment(p).sequence = q /\ Increment(p).epoch = p.epoch
    BY <1>4 DEF LeaseProto
  <1> QED
    BY <1>2, <1>3, <1>5

(* CreateSublease appends a zero (lease.cpp:177).                          *)
LEMMA SubleaseClock ==
  ASSUME NEW p \in LeaseProto, IsValid(p)
  PROVE  LET s == p.sequence  t == CreateSublease(p).sequence IN
         /\ CreateSublease(p).epoch = p.epoch
         /\ Len(t) = Len(s) + 1
         /\ \A i \in 1 .. Len(s) : t[i] = s[i]
  <1>1. CreateSublease(p).sequence = Append(p.sequence, 0)
        /\ CreateSublease(p).epoch = p.epoch
    BY DEF CreateSublease, LeaseProto
  <1>2. p.sequence \in Seq(SeqNumber)
    BY DEF LeaseProto
  <1> QED
    BY <1>1, <1>2

-----------------------------------------------------------------------------
(* What advancing a lease does to the leases around it *)

(* A lease equal to p, or one of its subleases, has a number wherever p    *)
(* has one, and the same.                                                  *)
LEMMA CoveredClock ==
  ASSUME NEW p \in LeaseProto, NEW q \in LeaseProto, IsValid(p),
         Compare(q, p) \in {"SAME", "SUB_LEASE"}
  PROVE  /\ IsValid(q) /\ q.resource = p.resource /\ q.epoch = p.epoch
         /\ Len(p.sequence) \in Nat /\ Len(q.sequence) \in Nat
         /\ Len(p.sequence) <= Len(q.sequence)
         /\ \A i \in 1 .. Len(p.sequence) : q.sequence[i] = p.sequence[i]
  <1>1. IsValid(q) /\ q.resource = p.resource /\ q.epoch = p.epoch
    BY DEF Compare, CompareIgnoringResource
  <1>2. p.sequence \in Clock /\ q.sequence \in Clock
        /\ Len(p.sequence) \in Nat /\ Len(q.sequence) \in Nat
    BY DEF LeaseProto, Clock
  <1>3. \/ q = p
        \/ Agree(q.sequence, p.sequence) /\ Len(p.sequence) < Len(q.sequence)
    BY <1>1, CompareMeaning
  <1>4. Len(p.sequence) <= Len(q.sequence)
        /\ Agree(q.sequence, p.sequence)
    BY <1>2, <1>3 DEF Agree
  <1> QED
    BY <1>1, <1>2, <1>4 DEF Agree, Shorter

(* Clocks that agree up to their n-th numbers are ordered by these.        *)
LEMMA BeforeAt ==
  ASSUME NEW s \in Clock, NEW t \in Clock,
         NEW n \in 1 .. Len(s), n <= Len(t), s[n] < t[n],
         \A j \in 1 .. n - 1 : s[j] = t[j]
  PROVE  Before(s, t)
  <1>1. n \in 1 .. Shorter(s, t)
    BY ClockNumbers, ShorterOfTwo
  <1> QED
    BY <1>1 DEF Before

(* Advancing a lease outdates the lease that was lent or put into a        *)
(* request before, and with it every sublease made of it: the robot lets   *)
(* none of them act any more (lease.cpp:158, lease.cpp:134).               *)
THEOREM IncrementOutdates ==
  ASSUME NEW p \in LeaseProto, NEW q \in LeaseProto, IsValid(p), ~AtLimit(p),
         Compare(q, p) \in {"SAME", "SUB_LEASE"}
  PROVE  Compare(q, Increment(p)) = "OLDER"
  <1> DEFINE n == Len(p.sequence)
             s == q.sequence
             t == Increment(p).sequence
  <1>1. /\ Increment(p) \in LeaseProto /\ IsValid(Increment(p))
        /\ Increment(p).resource = p.resource /\ Increment(p).epoch = p.epoch
    BY IncrementType, IncrementClock
  <1>2. /\ IsValid(q) /\ q.resource = p.resource /\ q.epoch = p.epoch
        /\ n \in Nat /\ Len(s) \in Nat /\ n <= Len(s)
        /\ \A i \in 1 .. n : s[i] = p.sequence[i]
    BY CoveredClock
  <1>3. n # 0 /\ p.sequence[n] \in Nat
    BY LastNumber
  <1>4. Len(t) = n /\ t[n] = p.sequence[n] + 1
        /\ \A i \in 1 .. n - 1 : t[i] = p.sequence[i]
    BY IncrementClock
  <1>5. s \in Clock /\ t \in Clock
    BY <1>1 DEF LeaseProto, Clock
  <1>6. s[n] < t[n] /\ \A j \in 1 .. n - 1 : s[j] = t[j]
    BY <1>2, <1>3, <1>4
  <1> HIDE DEF n, s, t
  <1>7. Before(s, t)
    BY <1>2, <1>3, <1>4, <1>5, <1>6, BeforeAt
  <1> QED
    BY <1>1, <1>2, <1>7, CompareMeaning DEF s, t

(* At the largest sequence number Increment wraps to zero, and the order   *)
(* turns round: the advanced lease is OLDER than the one it was made of,   *)
(* and so the robot refuses it, while what was lent before still outranks  *)
(* it (lease.cpp:165: the number is a uint32).                             *)
THEOREM IncrementWraps ==
  ASSUME NEW p \in LeaseProto, NEW q \in LeaseProto, IsValid(p), AtLimit(p),
         Compare(q, p) \in {"SAME", "SUB_LEASE"}
  PROVE  Compare(Increment(p), q) = "OLDER"
  <1> DEFINE n == Len(p.sequence)
             s == q.sequence
             t == Increment(p).sequence
  <1>1. /\ Increment(p) \in LeaseProto /\ IsValid(Increment(p))
        /\ Increment(p).resource = p.resource
    BY IncrementType
  <1>2. /\ IsValid(q) /\ q.resource = p.resource /\ q.epoch = p.epoch
        /\ n \in Nat /\ Len(s) \in Nat /\ n <= Len(s)
        /\ \A i \in 1 .. n : s[i] = p.sequence[i]
    BY CoveredClock
  <1>3. n # 0 /\ p.sequence \in Seq(SeqNumber)
    BY LastNumber DEF Clock
  <1>4. (SeqMod - 1 + 1) % SeqMod = 0 /\ 0 \in SeqNumber /\ 0 < SeqMod - 1
    <2>1. SeqMod - 1 + 1 = SeqMod
      BY SeqModAssumption
    <2>2. SeqMod % SeqMod = 0
      BY SeqModAssumption
    <2> QED
      BY <2>1, <2>2, SeqModAssumption DEF SeqNumber
  <1>5. Increment(p) = [p EXCEPT !.sequence = [p.sequence EXCEPT ![n] = 0]]
    BY <1>4 DEF Increment, LeaseProto, AtLimit
  <1>6. t = [p.sequence EXCEPT ![n] = 0] /\ Increment(p).epoch = p.epoch
    BY <1>5 DEF LeaseProto
  <1>7. Len(t) = n /\ t[n] = 0 /\ \A i \in 1 .. n - 1 : t[i] = p.sequence[i]
    BY <1>2, <1>3, <1>4, <1>6
  <1>8. s \in Clock /\ t \in Clock
    BY <1>1 DEF LeaseProto, Clock
  <1>9. t[n] < s[n] /\ \A j \in 1 .. n - 1 : t[j] = s[j]
    BY <1>2, <1>3, <1>4, <1>7 DEF AtLimit
  <1> HIDE DEF n, s, t
  <1>10. Before(t, s)
    BY <1>2, <1>3, <1>7, <1>8, <1>9, BeforeAt
  <1> QED
    BY <1>1, <1>2, <1>6, <1>10, CompareMeaning DEF s, t
=============================================================================
