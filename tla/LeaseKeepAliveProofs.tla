------------------------ MODULE LeaseKeepAliveProofs ------------------------
(***************************************************************************)
(* Theorems about the lease keep-alive for every interval, every time that *)
(* a call and the program's function may take, and any number of leases,   *)
(* commands and lost calls.                                                *)
(***************************************************************************)
EXTENDS LeaseKeepAlive, LeaseOrderProofs, TLAPS

Kept == Wallet!InWallet(resource)

Held == wallet[resource].proto

(* The robot grants clocks of one number; the wallet keeps subleases of    *)
(* them, of which a command counts the second number on.                   *)
Root(p) == p.sequence[1]
Use(p)  == p.sequence[2]

TwoNumbers(p) == \E r, u \in SeqNumber : p = Message(<<r, u>>)

Grown(s) == s \in Clock /\ Len(s) \in {1, 2}

Behind(p, s) == Root(p) < s[1] \/ (Root(p) = s[1] /\ Len(s) = 2 /\ Use(p) < s[2])

Reaches(p, s) == Root(p) > s[1] \/ (Root(p) = s[1] /\ Len(s) = 2 /\ s[2] <= Use(p))

(* The lease kept is one the robot granted, and no command was used that   *)
(* it does not count.                                                      *)
Grants ==
  /\ Grown(latest)
  /\ latest[1] <= MaxRoot
  /\ Kept => /\ TwoNumbers(Held)
             /\ Root(Held) <= latest[1]
             /\ Root(Held) = latest[1] => ~Behind(Held, latest)
  /\ holder = "us" => Kept /\ Root(Held) = latest[1]

(* The call under way has the lease kept, perhaps before later commands,   *)
(* or one that was granted before it.                                      *)
Asked ==
  call.at \in {"sent", "served"} =>
    /\ TwoNumbers(call.proto)
    /\ Root(call.proto) <= latest[1]
    /\ Kept => \/ Root(call.proto) < Root(Held)
               \/ Root(call.proto) = Root(Held) /\ Use(call.proto) <= Use(Held)

(* The robot regards somebody else, or nobody, as the holder of the lease kept. *)
Lost == holder # "us" \/ (Kept => Root(Held) < latest[1])

Answered ==
  call.at = "served" =>
    /\ call.status \in {"OK", "OLDER", "REVOKED"}
    /\ Grown(call.latest.sequence) /\ call.latest = Message(call.latest.sequence)
    /\ call.latest.sequence[1] <= latest[1]
    /\ call.status = "OLDER" /\ Kept =>
         Lost \/ crossed \/ Reaches(Held, call.latest.sequence)
    /\ call.status = "REVOKED" /\ Kept => Lost \/ Root(call.proto) < Root(Held)

DisownedIsLost == Kept /\ ~Wallet!Owned(resource) => Lost \/ crossed

LeaseInv == Grants /\ Asked /\ Answered /\ DisownedIsLost

(* The longest time from one check-in to the next. *)
Cycle == Longer(Interval, RpcTime + CallbackTime)

OnSchedule ==
  /\ at \in {"head", "waiting", "ended"} => elapsed <= Cycle
  /\ at = "look"   => elapsed = 0
  /\ at = "await"  => elapsed <= RpcTime
  /\ at = "report" => elapsed <= RpcTime + CallbackTime

(* A check-in that is not under way is over. *)
Over == at \in {"head", "look", "report", "waiting"} => call.at \in {"none", "done"}

Heard ==
  /\ at # "ended"
  /\ at \in {"head", "look"} => unheard <= Cycle
  /\ at = "await" /\ call.at = "sent" =>
       /\ unheard <= Cycle + elapsed
       /\ Behind(call.proto, latest) => unheard <= elapsed
  /\ at = "await" /\ call.at # "sent" => unheard <= elapsed
  /\ at \in {"report", "waiting"} => unheard <= elapsed

Timely ==
  /\ OnSchedule
  /\ Over
  /\ lost = 0 /\ alive /\ holder = "us" => Heard
  /\ at = "ended" => ~alive

KeepAliveInv == TypeOK /\ LeaseInv /\ Timely

-----------------------------------------------------------------------------
(* Leases of two numbers, and how they compare with what the robot knows *)

(* Messages for the keep-alive's resource are leases. *)
LEMMA MessageType ==
  ASSUME NEW s \in Clock
  PROVE  Message(s) \in LeaseProto
  BY ResourceAssumption, TimeAssumption DEF Message, LeaseProto, Clock

(* A lease of two numbers is given by them. *)
LEMMA TwoNumbersType ==
  ASSUME NEW p, TwoNumbers(p)
  PROVE  /\ p \in LeaseProto /\ IsValid(p)
         /\ Root(p) \in SeqNumber /\ Use(p) \in SeqNumber
         /\ p = Message(<<Root(p), Use(p)>>)
         /\ p.sequence \in Clock /\ Len(p.sequence) = 2
         /\ p.resource = resource /\ p.epoch = 0
  <1>1. PICK r \in SeqNumber, u \in SeqNumber : p = Message(<<r, u>>)
    BY DEF TwoNumbers
  <1>2. p.sequence = <<r, u>> /\ p.resource = resource /\ p.epoch = 0
    BY <1>1 DEF Message
  <1>3. <<r, u>> \in Clock
    BY DEF Clock
  <1>4. p \in LeaseProto
    BY <1>1, <1>3, MessageType
  <1>5. IsValid(p)
    BY <1>2, ResourceAssumption, NoResourceAssumption DEF IsValid
  <1> QED
    BY <1>1, <1>2, <1>3, <1>4, <1>5 DEF Root, Use

(* They are natural numbers. *)
LEMMA TwoNumbersRange ==
  ASSUME NEW p, TwoNumbers(p)
  PROVE  Root(p) \in Nat /\ Use(p) \in Nat
  <1>1. Root(p) \in SeqNumber /\ Use(p) \in SeqNumber
    BY TwoNumbersType
  <1> QED
    BY <1>1, SeqModAssumption DEF SeqNumber

(* The converse, for the operations that make such leases. *)
LEMMA TwoNumbersMade ==
  ASSUME NEW r \in SeqNumber, NEW u \in SeqNumber
  PROVE  /\ TwoNumbers(Message(<<r, u>>))
         /\ Root(Message(<<r, u>>)) = r /\ Use(Message(<<r, u>>)) = u
  BY DEF TwoNumbers, Root, Use, Message

(* A lease is refused as older if it is behind the clock of the robot, and *)
(* such a refusal is not believed of a lease that has reached the clock.   *)
LEMMA CompareHeld ==
  ASSUME NEW p, TwoNumbers(p), NEW s, Grown(s)
  PROVE  /\ Compare(p, Message(s)) = "OLDER" <=> Behind(p, s)
         /\ Compare(p, Message(s)) \in {"NEWER", "SAME"} <=> Reaches(p, s)
  <1> DEFINE t == p.sequence
             q == Message(s)
  <1>1. /\ p \in LeaseProto /\ IsValid(p) /\ p.resource = resource /\ p.epoch = 0
        /\ t \in Clock /\ Len(t) = 2 /\ t[1] \in Nat /\ t[2] \in Nat
        /\ Root(p) = t[1] /\ Use(p) = t[2]
    <2>1. Root(p) = t[1] /\ Use(p) = t[2]
      BY DEF Root, Use
    <2> QED
      BY <2>1, TwoNumbersType, TwoNumbersRange
  <1>2. /\ s \in Clock /\ Len(s) \in {1, 2} /\ s # <<>>
        /\ s[1] \in Nat /\ (Len(s) = 2 => s[2] \in Nat)
    BY ClockNumbers DEF Grown
  <1>3. /\ q \in LeaseProto /\ IsValid(q) /\ q.resource = resource /\ q.epoch = 0
        /\ q.sequence = s
    BY <1>2, MessageType, ResourceAssumption, NoResourceAssumption DEF Message, IsValid
  <1> HIDE DEF t
  <1>a. Len(t) = 2 /\ (Len(s) = 1 \/ Len(s) = 2)
    BY <1>1, <1>2
  <1>4. Shorter(t, s) = Len(s)
    <2>1. CASE Len(s) = 1
      BY <1>a, <2>1 DEF Shorter
    <2>2. CASE Len(s) = 2
      BY <1>a, <2>2 DEF Shorter
    <2> QED
      BY <1>a, <2>1, <2>2
  <1>5. Before(t, s) <=> Behind(p, s)
    BY <1>1, <1>2, <1>4 DEF Before, Behind
  <1>6. Shorter(s, t) = Len(s)
    <2>1. CASE Len(s) = 1
      BY <1>a, <2>1 DEF Shorter
    <2>2. CASE Len(s) = 2
      BY <1>a, <2>2 DEF Shorter
    <2> QED
      BY <1>a, <2>1, <2>2
  <1>7. Before(s, t) <=> t[1] > s[1] \/ (t[1] = s[1] /\ Len(s) = 2 /\ s[2] < t[2])
    BY <1>1, <1>2, <1>6 DEF Before
  <1>8. Agree(t, s) /\ Len(t) = Len(s) <=> t[1] = s[1] /\ Len(s) = 2 /\ s[2] = t[2]
    BY <1>1, <1>2, <1>4 DEF Agree
  <1> HIDE DEF q
  <1>9. /\ Compare(p, q) = "OLDER" <=> Before(t, s)
        /\ Compare(p, q) = "NEWER" <=> Before(s, t)
        /\ Compare(p, q) = "SAME" <=> p = q
    BY <1>1, <1>3, CompareMeaning DEF t
  <1>10. p = q <=> t = s
    BY <1>1, <1>3 DEF t, LeaseProto
  <1>11. t = s <=> Agree(t, s) /\ Len(t) = Len(s)
    BY <1>1, <1>2, AgreeingIsEqual DEF Agree
  <1> QED
    BY <1>1, <1>2, <1>5, <1>7, <1>8, <1>9, <1>10, <1>11 DEF Reaches, q

(* A lease that was granted before is no name for a lease kept. *)
LEMMA ComparePredecessor ==
  ASSUME NEW p, TwoNumbers(p), NEW q, TwoNumbers(q), Root(q) < Root(p)
  PROVE  Compare(p, q) \notin {"SAME", "SUB_LEASE"}
  <1>1. /\ p \in LeaseProto /\ IsValid(p) /\ q \in LeaseProto /\ IsValid(q)
        /\ p.resource = q.resource /\ p.epoch = q.epoch
        /\ p.sequence \in Clock /\ q.sequence \in Clock /\ Len(q.sequence) = 2
    BY TwoNumbersType
  <1>2. Grown(q.sequence) /\ q = Message(q.sequence) /\ q.sequence[1] = Root(q)
    BY <1>1, TwoNumbersType DEF Grown, Message, Root
  <1>3. Reaches(p, q.sequence)
    BY <1>2, TwoNumbersRange DEF Reaches
  <1>4. Compare(p, q) \in {"NEWER", "SAME"}
    BY <1>2, <1>3, CompareHeld
  <1>5. Compare(p, q) = "SAME" => p = q
    BY <1>1, CompareMeaning
  <1> QED
    BY <1>4, <1>5, TwoNumbersRange

(* A command counts the second number on. *)
LEMMA IncrementHeld ==
  ASSUME NEW p, TwoNumbers(p), Use(p) < MaxUse
  PROVE  /\ TwoNumbers(Increment(p))
         /\ Root(Increment(p)) = Root(p)
         /\ Use(Increment(p)) = Use(p) + 1
  <1>1. Use(p) + 1 \in SeqNumber /\ (Use(p) + 1) % SeqMod = Use(p) + 1
    BY TwoNumbersRange, SeqModAssumption, TimeAssumption DEF SeqNumber
  <1>2. Increment(p) = Message(<<Root(p), Use(p) + 1>>)
    BY <1>1, TwoNumbersType DEF Increment, Message, Root, Use
  <1>3. Root(p) \in SeqNumber
    BY TwoNumbersType
  <1> QED
    BY <1>1, <1>2, <1>3, TwoNumbersMade

-----------------------------------------------------------------------------
(* The wallet *)

(* The wallet's module has its own copies of the operations on leases. *)
LEMMA WalletOperations ==
  /\ \A l : Wallet!IsSelfOwned(l) <=> IsSelfOwned(l)
  /\ \A p : Wallet!LeaseOf(p) = LeaseOf(p)
  /\ \A p : Wallet!CreateSublease(p) = CreateSublease(p)
  /\ \A l, result : Wallet!UpdateFromLeaseUseResult(l, result)
                      = UpdateFromLeaseUseResult(l, result)
  BY DEF Wallet!IsSelfOwned, IsSelfOwned, Wallet!LeaseOf, LeaseOf,
         Wallet!CreateSublease, CreateSublease,
         Wallet!UpdateFromLeaseUseResult, UpdateFromLeaseUseResult,
         Wallet!SupersedesOlderResult, SupersedesOlderResult,
         Wallet!ConcernedByRevocation, ConcernedByRevocation,
         Wallet!IsValid, IsValid, Wallet!Compare, Compare,
         Wallet!CompareIgnoringResource, CompareIgnoringResource,
         Wallet!Agree, Agree, Wallet!Before, Before, Wallet!Shorter, Shorter

(* What a lease kept is, and whether it is owned. *)
LEMMA KeptMeaning ==
  /\ Kept <=> wallet[resource] # NoLease
  /\ Wallet!Owned(resource) <=> Kept /\ IsSelfOwned(wallet[resource])
  /\ TypeOK /\ Kept => wallet[resource] \in Lease
  BY WalletOperations, ResourceAssumption
     DEF Kept, Wallet!InWallet, Wallet!Owned, TypeOK

(* Storing a lease. *)
LEMMA PutLease ==
  ASSUME TypeOK, NEW l \in Lease, Wallet!Put(resource, l)
  PROVE  /\ wallet' \in [Resources -> Lease \cup {NoLease}]
         /\ Kept' /\ Held' = l.proto
         /\ Wallet!Owned(resource)' <=> IsSelfOwned(l)
  <1>1. wallet' = [wallet EXCEPT ![resource] = l] /\ wallet'[resource] = l
    BY ResourceAssumption DEF Wallet!Put, TypeOK
  <1>2. wallet' \in [Resources -> Lease \cup {NoLease}]
    BY <1>1 DEF TypeOK
  <1>3. Kept' /\ Held' = l.proto
    BY <1>1, NoLeaseAssumption DEF Kept, Held, Wallet!InWallet
  <1>4. Wallet!Owned(resource)' <=> IsSelfOwned(l)
    BY <1>1, <1>3, WalletOperations DEF Kept, Wallet!Owned
  <1> QED
    BY <1>2, <1>3, <1>4

(* Removing the lease. *)
LEMMA RemoveIt ==
  ASSUME TypeOK, Wallet!RemoveLease(resource)
  PROVE  /\ wallet' \in [Resources -> Lease \cup {NoLease}]
         /\ ~Kept' /\ ~Wallet!Owned(resource)'
  <1>1. wallet' = [wallet EXCEPT ![resource] = NoLease]
        /\ wallet'[resource] = NoLease
    BY ResourceAssumption DEF Wallet!RemoveLease, Wallet!Put, TypeOK
  <1> QED
    BY <1>1 DEF TypeOK, Kept, Wallet!InWallet, Wallet!Owned

(* A wallet left alone. *)
LEMMA WalletStays ==
  ASSUME UNCHANGED wallet
  PROVE  /\ Kept' <=> Kept
         /\ Held' = Held
         /\ Wallet!Owned(resource)' <=> Wallet!Owned(resource)
  BY DEF Kept, Held, Wallet!InWallet, Wallet!Owned

(* The lease taken is a sublease of the one granted. *)
LEMMA TakenLease ==
  ASSUME TypeOK, LeaseInv, TakeLease
  PROVE  /\ latest' = <<latest[1] + 1>> /\ latest[1] + 1 \in SeqNumber
         /\ latest[1] + 1 <= MaxRoot
         /\ wallet' \in [Resources -> Lease \cup {NoLease}]
         /\ Kept' /\ Held' = Message(<<latest[1] + 1, 0>>)
         /\ Wallet!Owned(resource)'
  <1> DEFINE s == latest[1] + 1
             q == Message(<<latest[1] + 1>>)
             l == LeaseOf(Message(<<latest[1] + 1, 0>>))
  <1>1. latest' = <<s>>
    BY DEF TakeLease
  <1>2. latest[1] \in Nat
    BY ClockNumbers DEF LeaseInv, Grants, Grown
  <1>3. s \in SeqNumber /\ s <= MaxRoot /\ 0 \in SeqNumber
    BY <1>2, SeqModAssumption, TimeAssumption DEF TakeLease, SeqNumber
  <1>4. CreateSublease(q) = Message(<<s, 0>>)
    BY DEF CreateSublease, Message
  <1>5. Wallet!AddLease(resource, LeaseOf(Message(latest')), TRUE)
    BY DEF TakeLease
  <1>6. Wallet!Put(resource, l)
    BY <1>1, <1>4, <1>5, WalletOperations
       DEF Wallet!AddLease, Wallet!Entry, LeaseOf, IsSelfOwned
  <1>7. l \in Lease /\ l.proto = Message(<<s, 0>>) /\ IsSelfOwned(l)
    BY <1>3, TwoNumbersMade, TwoNumbersType DEF LeaseOf, Lease, LeaseStatus, IsSelfOwned
  <1> HIDE DEF l
  <1> QED
    BY <1>1, <1>3, <1>6, <1>7, PutLease

-----------------------------------------------------------------------------
(* What a command does *)

(* The robot's verdict on a lease of two numbers. *)
LEMMA VerdictMeaning ==
  ASSUME NEW p, TwoNumbers(p), Grown(latest)
  PROVE  /\ Verdict(p) \in {"OK", "OLDER", "REVOKED"}
         /\ Verdict(p) = "OLDER" <=> Behind(p, latest)
         /\ Verdict(p) = "REVOKED" <=> ~Behind(p, latest) /\ holder = "nobody"
         /\ Verdict(p) = "OK" <=> ~Behind(p, latest) /\ holder # "nobody"
  BY CompareHeld DEF Verdict

(* The lease of the command is one use further, and the robot has taken it *)
(* if it takes the program for the holder.                                 *)
LEMMA CommandEffect ==
  ASSUME TypeOK, LeaseInv, Command
  PROVE  /\ Kept /\ Wallet!Owned(resource)
         /\ wallet' \in [Resources -> Lease \cup {NoLease}]
         /\ Kept' /\ TwoNumbers(Held')
         /\ Root(Held') = Root(Held) /\ Use(Held') = Use(Held) + 1
         /\ Grown(latest')
         /\ \/ /\ Root(Held) = latest[1] /\ holder # "nobody"
               /\ latest' = <<Root(Held), Use(Held) + 1>>
               /\ unheard' = 0
            \/ UNCHANGED <<latest, unheard>> /\ holder # "us"
         /\ Wallet!Owned(resource)' \/ holder # "us" \/ Root(Held) < latest'[1]
  <1> DEFINE next == Increment(Held)
             result == [status |-> Verdict(next), attempted |-> next,
                        latest |-> Message(latest')]
             l == UpdateFromLeaseUseResult(LeaseOf(next), result)
  <1>1. Kept /\ Wallet!Owned(resource) /\ Use(Held) < MaxUse
    BY KeptMeaning DEF Command, Held, Use
  <1>2. /\ TwoNumbers(Held) /\ Root(Held) <= latest[1]
        /\ (Root(Held) = latest[1] => ~Behind(Held, latest))
        /\ Grown(latest)
        /\ (holder = "us" => Root(Held) = latest[1])
    BY <1>1 DEF LeaseInv, Grants
  <1>3. /\ TwoNumbers(next) /\ Root(next) = Root(Held) /\ Use(next) = Use(Held) + 1
    BY <1>1, <1>2, IncrementHeld
  <1>4. /\ Root(Held) \in Nat /\ Use(Held) \in Nat
        /\ latest[1] \in Nat /\ (Len(latest) = 2 => latest[2] \in Nat)
        /\ latest \in Clock
    BY <1>2, TwoNumbersRange, ClockNumbers DEF Grown
  <1>5. /\ next \in LeaseProto /\ next.sequence \in Clock /\ Len(next.sequence) = 2
        /\ next = Message(<<Root(next), Use(next)>>)
    BY <1>3, TwoNumbersType
  <1>6. next.sequence = <<Root(Held), Use(Held) + 1>>
    BY <1>3, <1>5 DEF Message
  <1>7. /\ latest' = IF Verdict(next) = "OK" THEN next.sequence ELSE latest
        /\ unheard' = IF Verdict(next) = "OK" THEN 0 ELSE unheard
        /\ Wallet!Put(resource, l)
    BY DEF Command, Held
  <1>8. Grown(latest')
    BY <1>2, <1>5, <1>7 DEF Grown
  <1> HIDE DEF next
  <1>9. LeaseOf(next) \in Lease /\ LeaseOf(next).proto = next
        /\ LeaseOf(next).status = "SELF_OWNER"
    BY <1>5 DEF LeaseOf, Lease, LeaseStatus
  <1>10. l \in Lease /\ l.proto = next
    BY <1>9, UpdateType
  <1>11. /\ wallet' \in [Resources -> Lease \cup {NoLease}]
         /\ Kept' /\ Held' = next
         /\ Wallet!Owned(resource)' <=> IsSelfOwned(l)
    <2> HIDE DEF l
    <2> QED
      BY <1>7, <1>10, PutLease
  <1>12. \/ /\ Root(Held) = latest[1] /\ holder # "nobody"
            /\ latest' = <<Root(Held), Use(Held) + 1>>
            /\ unheard' = 0
         \/ UNCHANGED <<latest, unheard>> /\ holder # "us"
    <2>1. CASE Verdict(next) = "OK"
      <3>1. ~Behind(next, latest) /\ holder # "nobody"
        BY <1>2, <1>3, <2>1, VerdictMeaning
      <3>2. Root(Held) = latest[1]
        BY <1>2, <1>3, <1>4, <3>1 DEF Behind
      <3> QED
        BY <1>6, <1>7, <2>1, <3>1, <3>2
    <2>2. CASE Verdict(next) # "OK"
      <3>1. Behind(next, latest) \/ holder = "nobody"
        BY <1>2, <1>3, <2>2, VerdictMeaning
      <3>2. ASSUME holder = "us" PROVE FALSE
        BY <1>2, <1>3, <1>4, <3>1, <3>2 DEF Behind
      <3> QED
        BY <1>7, <2>2, <3>2
    <2> QED
      BY <2>1, <2>2
  <1>13. IsSelfOwned(l) \/ holder # "us" \/ Root(Held) < latest'[1]
    <2>1. CASE Verdict(next) = "OK"
      <3>1. result.status = "OK"
        BY <2>1
      <3>2. l = LeaseOf(next)
        BY <3>1 DEF UpdateFromLeaseUseResult
      <3> QED
        BY <1>9, <3>2 DEF IsSelfOwned
    <2>2. CASE Verdict(next) # "OK"
      BY <1>2, <1>3, <1>4, <1>12, <2>2, VerdictMeaning DEF Behind
    <2> QED
      BY <2>1, <2>2
  <1> QED
    BY <1>1, <1>3, <1>8, <1>11, <1>12, <1>13

-----------------------------------------------------------------------------
(* The steps, and what the lease is to the robot *)

(* A program without the lease, or whose lease is older than the one the   *)
(* robot granted last, has lost it.                                        *)
LEMMA InitLeaseInv == Init => TypeOK /\ LeaseInv
  <1> SUFFICES ASSUME Init PROVE TypeOK /\ LeaseInv
    OBVIOUS
  <1>1. 0 \in SeqNumber /\ <<0>> \in Clock /\ <<0>> \in Seq(SeqNumber) \ {<<>>}
        /\ Len(<<0>>) = 1
    BY SeqModAssumption DEF SeqNumber, Clock
  <1>2. Message(<<0>>) \in LeaseProto
    BY <1>1, MessageType
  <1>3. call \in [at     : {"none", "sent", "served", "done"},
                  proto  : LeaseProto,
                  status : UseStatus \cup {"PENDING", "RPC_ERROR"},
                  latest : LeaseProto]
    BY <1>2 DEF Init, NoRequest
  <1>4. elapsed \in 0 .. Longer(Interval, RpcTime + CallbackTime)
        /\ unheard \in 0 .. OnTime + 1 /\ lost \in 0 .. MaxLost
    BY TimeAssumption DEF Init, Longer, OnTime
  <1>5. TypeOK
    BY <1>1, <1>3, <1>4 DEF TypeOK, Init, At
  <1>6. ~Kept
    BY ResourceAssumption DEF Init, Kept, Wallet!InWallet
  <1>7. Grants
    BY <1>1, <1>6, TimeAssumption DEF Init, Grants, Grown
  <1>8. Asked /\ Answered
    BY DEF Init, NoRequest, Asked, Answered
  <1> QED
    BY <1>5, <1>6, <1>7, <1>8 DEF LeaseInv, DisownedIsLost

(* Steps that touch neither the wallet, nor the call, nor the robot's view *)
(* of the lease.                                                           *)
LEMMA OtherSteps ==
  ASSUME LeaseInv, UNCHANGED <<wallet, call, latest, holder, crossed>>
  PROVE  LeaseInv'
  BY WalletStays DEF LeaseInv, Grants, Asked, Answered, DisownedIsLost, Lost

(* The lease of a call is the one kept (lease_keepalive.cpp:98).           *)
LEMMA LookLeaseInv ==
  ASSUME TypeOK, LeaseInv, Look
  PROVE  LeaseInv'
  <1>1. UNCHANGED <<wallet, latest, holder, crossed>>
    BY DEF Look, robot
  <1>2. Grants' /\ DisownedIsLost'
    BY <1>1, WalletStays DEF LeaseInv, Grants, DisownedIsLost, Lost
  <1>3. Answered'
    <2>1. CASE Kept
      <3>1. call' = [NoRequest EXCEPT !.at = "sent", !.proto = Held]
        BY <2>1 DEF Look, Kept, Held
      <3>2. call'.at = "sent"
        BY <3>1 DEF NoRequest
      <3> QED
        BY <3>2 DEF Answered
    <2>2. CASE ~Kept
      BY <2>2 DEF Look, NoRequest, Kept, Answered
    <2> QED
      BY <2>1, <2>2
  <1>4. Asked'
    <2>1. CASE Kept
      <3>1. call'.proto = Held /\ TwoNumbers(Held) /\ Root(Held) <= latest[1]
        BY <2>1 DEF Look, NoRequest, Kept, Held, LeaseInv, Grants
      <3> QED
        BY <1>1, <3>1, WalletStays, TwoNumbersRange DEF Asked
    <2>2. CASE ~Kept
      BY <2>2 DEF Look, NoRequest, Kept, Asked
    <2> QED
      BY <2>1, <2>2
  <1> QED
    BY <1>2, <1>3, <1>4 DEF LeaseInv

(* A call that the robot refuses is of a lease that is lost, or that later *)
(* commands have overtaken.                                                *)
LEMMA ServeLeaseInv ==
  ASSUME TypeOK, LeaseInv, Serve
  PROVE  LeaseInv'
  <1>1. UNCHANGED <<wallet, latest, holder>> /\ call'.proto = call.proto
        /\ call'.status = Verdict(call.proto) /\ call'.latest = Message(latest)
        /\ crossed' = (crossed \/ Overtaken)
    BY DEF Serve, TypeOK
  <1>2. Grants' /\ DisownedIsLost'
    BY <1>1, WalletStays DEF LeaseInv, Grants, DisownedIsLost, Lost
  <1>3. /\ TwoNumbers(call.proto) /\ Root(call.proto) <= latest[1]
        /\ Kept => \/ Root(call.proto) < Root(Held)
                   \/ Root(call.proto) = Root(Held) /\ Use(call.proto) <= Use(Held)
    BY DEF Serve, LeaseInv, Asked
  <1>4. Asked'
    BY <1>1, <1>3, WalletStays DEF Asked
  <1>5. Grown(latest) /\ Message(latest).sequence = latest /\ latest[1] <= latest[1]
    <2>1. Grown(latest) /\ Message(latest).sequence = latest
      BY DEF LeaseInv, Grants, Message
    <2>2. latest[1] \in Nat
      BY <2>1, ClockNumbers DEF Grown
    <2> QED
      BY <2>1, <2>2
  <1>6. /\ Verdict(call.proto) \in {"OK", "OLDER", "REVOKED"}
        /\ Verdict(call.proto) = "OLDER" <=> Behind(call.proto, latest)
        /\ Verdict(call.proto) = "REVOKED" => holder = "nobody"
    BY <1>3, <1>5, VerdictMeaning
  <1>7. ASSUME Behind(call.proto, latest), Kept
        PROVE  Root(Held) < latest[1] \/ Reaches(Held, latest) \/ crossed'
    <2>1. /\ TwoNumbers(Held)
          /\ Root(Held) = latest[1] => ~Behind(Held, latest)
      BY <1>7 DEF LeaseInv, Grants
    <2>2. /\ Root(Held) \in Nat /\ Use(Held) \in Nat
          /\ latest[1] \in Nat /\ (Len(latest) = 2 => latest[2] \in Nat)
      BY <1>5, <2>1, TwoNumbersRange, ClockNumbers DEF Grown
    <2>3. CASE Root(call.proto) < Root(Held)
      BY <1>1, <1>7, <2>3 DEF Overtaken, Kept, Held, Root
    <2>4. CASE Root(call.proto) = Root(Held) /\ Use(call.proto) <= Use(Held)
      BY <1>7, <2>1, <2>2, <2>4 DEF Behind, Reaches
    <2> QED
      BY <1>3, <1>7, <2>3, <2>4
  <1>8. Lost' <=> Lost
    BY <1>1, WalletStays DEF Lost
  <1>9. Answered'
    BY <1>1, <1>5, <1>6, <1>7, <1>8, WalletStays DEF Answered, Lost
  <1> QED
    BY <1>2, <1>4, <1>9 DEF LeaseInv

(* An answer that takes the lease away from the wallet's entry tells of a  *)
(* lease that is lost (lease_keepalive.cpp:111).                           *)
LEMMA AnswerLeaseInv ==
  ASSUME TypeOK, LeaseInv, OnRetainLeaseComplete
  PROVE  /\ LeaseInv'
         /\ wallet' \in [Resources -> Lease \cup {NoLease}]
  <1> DEFINE result == [status |-> call.status, attempted |-> call.proto,
                        latest |-> call.latest]
             l == UpdateFromLeaseUseResult(wallet[resource], result)
  <1>1. UNCHANGED <<latest, holder, crossed>> /\ call.at = "served" /\ call'.at = "done"
    BY DEF OnRetainLeaseComplete, robot, TypeOK
  <1>2. Asked' /\ Answered'
    BY <1>1 DEF Asked, Answered
  <1>3. CASE ~Wallet!InWallet(resource) /\ UNCHANGED wallet
    BY <1>1, <1>2, <1>3, WalletStays
       DEF LeaseInv, Grants, DisownedIsLost, Lost, TypeOK
  <1>4. CASE Wallet!OnLeaseUseResult(result)
    <2>1. call.proto.resource = resource
      BY <1>1, TwoNumbersType DEF LeaseInv, Asked
    <2>2. Kept /\ Wallet!Put(resource, l)
      BY <1>4, <2>1, WalletOperations DEF Wallet!OnLeaseUseResult, Kept
    <2>3. wallet[resource] \in Lease
      BY <2>2, KeptMeaning
    <2>4. l \in Lease /\ l.proto = Held
      BY <2>3, UpdateType DEF Held
    <2>5. /\ wallet' \in [Resources -> Lease \cup {NoLease}]
          /\ Kept' /\ Held' = Held
          /\ Wallet!Owned(resource)' <=> IsSelfOwned(l)
      <3> HIDE DEF l
      <3> QED
        BY <2>2, <2>4, PutLease
    <2>6. Grants'
      BY <1>1, <2>2, <2>5 DEF LeaseInv, Grants
    <2>7. Lost' <=> Lost
      BY <1>1, <2>2, <2>5 DEF Lost
    <2>8. ASSUME ~IsSelfOwned(l) PROVE Lost \/ crossed
      <3>1. /\ call.status \in {"OK", "OLDER", "REVOKED"}
            /\ Grown(call.latest.sequence)
            /\ call.latest = Message(call.latest.sequence)
            /\ call.status = "OLDER" => Lost \/ crossed \/ Reaches(Held, call.latest.sequence)
            /\ call.status = "REVOKED" => Lost \/ Root(call.proto) < Root(Held)
        BY <1>1, <2>2 DEF LeaseInv, Answered
      <3>2. CASE ~IsSelfOwned(wallet[resource])
        BY <2>2, <3>2, KeptMeaning DEF LeaseInv, DisownedIsLost
      <3>3. CASE call.status = "OLDER" /\ IsSelfOwned(wallet[resource])
        <4>1. ~SupersedesOlderResult(Held, result)
          BY <2>8, <3>3 DEF UpdateFromLeaseUseResult, Held
        <4>2. TwoNumbers(Held)
          BY <2>2 DEF LeaseInv, Grants
        <4>3. IsValid(call.latest)
          <5>1. call.latest.resource = resource
            BY <3>1 DEF Message
          <5>2. call.latest.sequence # <<>>
            <6>1. Len(call.latest.sequence) \in {1, 2}
              BY <3>1 DEF Grown
            <6> QED
              BY <6>1, EmptySeq
          <5> QED
            BY <5>1, <5>2, ResourceAssumption, NoResourceAssumption DEF IsValid
        <4>4. ~Reaches(Held, call.latest.sequence)
          BY <3>1, <4>1, <4>2, <4>3, CompareHeld DEF SupersedesOlderResult
        <4> QED
          BY <3>1, <3>3, <4>4
      <3>4. CASE call.status = "OK" /\ IsSelfOwned(wallet[resource])
        BY <2>8, <3>4 DEF UpdateFromLeaseUseResult
      <3>5. CASE call.status = "REVOKED" /\ IsSelfOwned(wallet[resource])
                 /\ Root(call.proto) < Root(Held)
        <4>1. TwoNumbers(Held) /\ TwoNumbers(call.proto)
          BY <1>1, <2>2 DEF LeaseInv, Grants, Asked
        <4>2. Compare(Held, call.proto) \notin {"SAME", "SUB_LEASE"}
          BY <3>5, <4>1, ComparePredecessor
        <4>3. ~ConcernedByRevocation(Held, result)
          BY <4>2 DEF ConcernedByRevocation
        <4> QED
          BY <2>8, <3>5, <4>3 DEF UpdateFromLeaseUseResult, Held
      <3> QED
        BY <3>1, <3>2, <3>3, <3>4, <3>5
    <2> QED
      BY <1>1, <1>2, <2>5, <2>6, <2>7, <2>8 DEF LeaseInv, DisownedIsLost
  <1> QED
    BY <1>3, <1>4 DEF OnRetainLeaseComplete

(* A lease just taken is the last that the robot granted.                  *)
LEMMA TakeLeaseInv ==
  ASSUME TypeOK, LeaseInv, TakeLease
  PROVE  LeaseInv'
  <1> DEFINE s == latest[1] + 1
  <1>1. /\ latest' = <<s>> /\ s \in SeqNumber /\ s <= MaxRoot
        /\ Kept' /\ Held' = Message(<<s, 0>>) /\ Wallet!Owned(resource)'
    BY TakenLease
  <1>2. UNCHANGED call
    BY DEF TakeLease
  <1>3. Grown(latest') /\ latest'[1] = s /\ Len(latest') = 1
    BY <1>1 DEF Grown, Clock
  <1>4. TwoNumbers(Held') /\ Root(Held') = s
    BY <1>1, TwoNumbersMade, SeqModAssumption DEF SeqNumber
  <1>5. s \in Nat /\ latest[1] \in Nat /\ latest[1] < s
    <2>1. latest[1] \in Nat
      BY ClockNumbers DEF LeaseInv, Grants, Grown
    <2> QED
      BY <2>1
  <1> HIDE DEF s
  <1>6. ~Behind(Held', latest')
    BY <1>3, <1>4, <1>5 DEF Behind
  <1>7. Grants'
    BY <1>1, <1>3, <1>4, <1>5, <1>6 DEF Grants
  <1>8. ASSUME call.at \in {"sent", "served"}
        PROVE  TwoNumbers(call.proto) /\ Root(call.proto) < s
    <2>1. TwoNumbers(call.proto) /\ Root(call.proto) <= latest[1]
      BY <1>8 DEF LeaseInv, Asked
    <2> QED
      BY <1>5, <2>1, TwoNumbersRange
  <1>9. Asked'
    <2> SUFFICES ASSUME call.at \in {"sent", "served"}
                 PROVE  /\ TwoNumbers(call.proto) /\ Root(call.proto) <= latest'[1]
                        /\ Root(call.proto) < Root(Held')
      BY <1>2 DEF Asked
    <2> QED
      BY <1>3, <1>4, <1>5, <1>8, TwoNumbersRange
  <1>10. Answered'
    <2> SUFFICES ASSUME call.at = "served" PROVE Answered'
      BY <1>2 DEF Answered
    <2> DEFINE t == call.latest.sequence
    <2>1. /\ call.status \in {"OK", "OLDER", "REVOKED"}
          /\ Grown(t) /\ call.latest = Message(t) /\ t[1] <= latest[1]
      BY DEF LeaseInv, Answered
    <2>2. t[1] \in Nat
      BY <2>1, ClockNumbers DEF Grown
    <2>3. t[1] < s /\ t[1] <= latest'[1] /\ Root(call.proto) < Root(Held')
      BY <1>3, <1>4, <1>5, <1>8, <2>1, <2>2
    <2>4. Reaches(Held', t)
      BY <1>4, <2>3, <1>5, <2>2 DEF Reaches
    <2> QED
      BY <1>2, <2>1, <2>3, <2>4 DEF Answered
  <1> QED
    BY <1>1, <1>7, <1>9, <1>10 DEF LeaseInv, DisownedIsLost

(* A command takes the robot's clock to the lease it used.                 *)
LEMMA CommandLeaseInv ==
  ASSUME TypeOK, LeaseInv, Command
  PROVE  LeaseInv'
  <1>1. UNCHANGED <<call, holder, crossed>>
    BY DEF Command
  <1>2. /\ Kept /\ Kept' /\ TwoNumbers(Held')
        /\ Root(Held') = Root(Held) /\ Use(Held') = Use(Held) + 1
        /\ Grown(latest')
        /\ \/ /\ Root(Held) = latest[1] /\ holder # "nobody"
              /\ latest' = <<Root(Held), Use(Held) + 1>>
           \/ UNCHANGED latest /\ holder # "us"
        /\ Wallet!Owned(resource)' \/ holder # "us" \/ Root(Held) < latest'[1]
    BY CommandEffect
  <1>3. /\ TwoNumbers(Held) /\ Root(Held) <= latest[1] /\ latest[1] <= MaxRoot
        /\ (Root(Held) = latest[1] => ~Behind(Held, latest))
        /\ (holder = "us" => Root(Held) = latest[1])
        /\ Grown(latest)
    BY <1>2 DEF LeaseInv, Grants
  <1>4. /\ Root(Held) \in Nat /\ Use(Held) \in Nat
        /\ latest[1] \in Nat /\ (Len(latest) = 2 => latest[2] \in Nat)
    BY <1>3, TwoNumbersRange, ClockNumbers DEF Grown
  <1>5. latest'[1] = latest[1]
    BY <1>2
  <1>6. Root(Held') = latest'[1] => ~Behind(Held', latest')
    BY <1>2, <1>3, <1>4, <1>5 DEF Behind
  <1>7. Grants'
    BY <1>1, <1>2, <1>3, <1>5, <1>6 DEF Grants
  <1>8. Lost' <=> Lost
    BY <1>1, <1>2, <1>5 DEF Lost
  <1>9. Asked'
    <2> SUFFICES ASSUME call.at \in {"sent", "served"}
                 PROVE  /\ TwoNumbers(call.proto) /\ Root(call.proto) <= latest'[1]
                        /\ \/ Root(call.proto) < Root(Held')
                           \/ /\ Root(call.proto) = Root(Held')
                              /\ Use(call.proto) <= Use(Held')
      BY <1>1 DEF Asked
    <2>1. /\ TwoNumbers(call.proto) /\ Root(call.proto) <= latest[1]
          /\ \/ Root(call.proto) < Root(Held)
             \/ Root(call.proto) = Root(Held) /\ Use(call.proto) <= Use(Held)
      BY <1>2 DEF LeaseInv, Asked
    <2> QED
      BY <1>2, <1>4, <1>5, <2>1, TwoNumbersRange
  <1>10. Answered'
    <2> SUFFICES ASSUME call.at = "served" PROVE Answered'
      BY <1>1 DEF Answered
    <2> DEFINE s == call.latest.sequence
    <2>1. /\ call.status \in {"OK", "OLDER", "REVOKED"}
          /\ Grown(s) /\ call.latest = Message(s) /\ s[1] <= latest'[1]
          /\ call.status = "OLDER" => Lost \/ crossed \/ Reaches(Held, s)
          /\ call.status = "REVOKED" => Lost \/ Root(call.proto) < Root(Held)
      BY <1>2, <1>5 DEF LeaseInv, Answered
    <2>2. s[1] \in Nat /\ (Len(s) = 2 => s[2] \in Nat)
      BY <2>1, ClockNumbers DEF Grown
    <2>3. Reaches(Held, s) => Reaches(Held', s)
      BY <1>2, <1>4, <2>2 DEF Reaches
    <2> QED
      BY <1>1, <1>2, <1>8, <2>1, <2>3 DEF Answered
  <1>11. DisownedIsLost'
    BY <1>1, <1>2 DEF DisownedIsLost, Lost
  <1> QED
    BY <1>7, <1>9, <1>10, <1>11 DEF LeaseInv

(* The robot accepts the return of the lease it regards as held by us.     *)
LEMMA ReturnIsAccepted ==
  ASSUME TypeOK, LeaseInv, ReturnLease
  PROVE  /\ holder' # "us"
         /\ wallet' \in [Resources -> Lease \cup {NoLease}]
         /\ ~Kept'
  <1>1. Kept /\ Wallet!RemoveLease(resource)
        /\ holder' = IF Verdict(Held) = "OK" THEN "nobody" ELSE holder
    BY DEF ReturnLease, Kept, Held
  <1>2. ASSUME holder = "us" PROVE Verdict(Held) = "OK"
    <2>1. TwoNumbers(Held) /\ Grown(latest) /\ ~Behind(Held, latest)
      BY <1>1, <1>2 DEF LeaseInv, Grants
    <2> QED
      BY <1>2, <2>1, VerdictMeaning
  <1>3. holder' # "us"
    BY <1>1, <1>2
  <1> QED
    BY <1>1, <1>3, RemoveIt

(* To return the lease keeps the invariant: the robot then has no holder   *)
(* of it here.                                                             *)
LEMMA ReturnLeaseInv ==
  ASSUME TypeOK, LeaseInv, ReturnLease
  PROVE  LeaseInv'
  <1>1. holder' # "us" /\ ~Kept' /\ UNCHANGED <<call, latest, crossed>>
    BY ReturnIsAccepted DEF ReturnLease
  <1> QED
    BY <1>1 DEF LeaseInv, Grants, Asked, Answered, DisownedIsLost, Lost

(* A lease that another client takes, or that nobody holds, is lost.       *)
LEMMA LossLeaseInv ==
  ASSUME TypeOK, LeaseInv, OtherTakes \/ Release
  PROVE  LeaseInv'
  <1>1. UNCHANGED <<wallet, call, crossed>> /\ holder' # "us"
    BY DEF OtherTakes, Release
  <1>2. latest[1] \in Nat
    BY ClockNumbers DEF LeaseInv, Grants, Grown
  <1>3. /\ Grown(latest') /\ latest'[1] <= MaxRoot
        /\ UNCHANGED latest \/ latest'[1] > latest[1]
    <2>1. CASE OtherTakes
      <3>1. latest' = <<latest[1] + 1>> /\ latest[1] < MaxRoot
        BY <2>1 DEF OtherTakes
      <3>2. latest[1] + 1 \in SeqNumber
        BY <1>2, <3>1, TimeAssumption, SeqModAssumption DEF SeqNumber
      <3> QED
        BY <1>2, <3>1, <3>2, TimeAssumption DEF Grown, Clock
    <2>2. CASE Release
      BY <2>2 DEF Release, LeaseInv, Grants
    <2> QED
      BY <2>1, <2>2
  <1>4. Kept => Root(Held) \in Nat
    BY TwoNumbersRange DEF LeaseInv, Grants
  <1>5. Grants'
    <2>1. CASE UNCHANGED latest
      BY <1>1, <2>1, WalletStays DEF LeaseInv, Grants
    <2>2. CASE latest'[1] > latest[1]
      <3>1. latest'[1] \in Nat
        BY <1>3, ClockNumbers DEF Grown
      <3> QED
        BY <1>1, <1>2, <1>3, <1>4, <2>2, <3>1, WalletStays DEF LeaseInv, Grants
    <2> QED
      BY <1>3, <2>1, <2>2
  <1>6. Lost'
    BY <1>1 DEF Lost
  <1>7. Asked'
    <2>1. ASSUME call.at \in {"sent", "served"}
          PROVE  TwoNumbers(call.proto) /\ Root(call.proto) <= latest'[1]
      <3>1. TwoNumbers(call.proto) /\ Root(call.proto) <= latest[1]
        BY <2>1 DEF LeaseInv, Asked
      <3>2. latest'[1] \in Nat
        BY <1>3, ClockNumbers DEF Grown
      <3> QED
        BY <1>2, <1>3, <3>1, <3>2, TwoNumbersRange
    <2> QED
      BY <1>1, <2>1, WalletStays DEF LeaseInv, Asked
  <1>8. Answered'
    <2>1. ASSUME call.at = "served"
          PROVE  call.latest.sequence[1] <= latest'[1]
      <3>1. Grown(call.latest.sequence) /\ call.latest.sequence[1] <= latest[1]
        BY <2>1 DEF LeaseInv, Answered
      <3>2. latest'[1] \in Nat /\ call.latest.sequence[1] \in Nat
        BY <1>3, <3>1, ClockNumbers DEF Grown
      <3> QED
        BY <1>2, <1>3, <3>1, <3>2
    <2> QED
      BY <1>1, <1>6, <2>1, WalletStays DEF LeaseInv, Answered
  <1> QED
    BY <1>1, <1>5, <1>6, <1>7, <1>8 DEF LeaseInv, DisownedIsLost

-----------------------------------------------------------------------------
(* The steps, and the types of the variables *)

(* Times are natural numbers. *)
LEMMA Times ==
  /\ Interval \in Nat /\ RpcTime \in Nat /\ CallbackTime \in Nat
  /\ Cycle \in Nat /\ OnTime \in Nat /\ OnTime = Cycle + RpcTime
  /\ RpcTime <= Cycle /\ RpcTime + CallbackTime <= Cycle /\ Interval <= Cycle
  BY TimeAssumption DEF Cycle, OnTime, Longer

(* The type of the call. *)
Calls == [at     : {"none", "sent", "served", "done"},
          proto  : LeaseProto,
          status : UseStatus \cup {"PENDING", "RPC_ERROR"},
          latest : LeaseProto]

(* Every step keeps the type of the call. *)
LEMMA CallType ==
  ASSUME TypeOK, LeaseInv, [Next]_vars
  PROVE  call' \in Calls
  <1>1. call \in Calls
    BY DEF TypeOK, Calls
  <1>2. 0 \in SeqNumber /\ Message(<<0>>) \in LeaseProto
    <2>1. <<0>> \in Clock
      BY SeqModAssumption DEF SeqNumber, Clock
    <2> QED
      BY <2>1, MessageType, SeqModAssumption DEF SeqNumber
  <1>3. CASE Look
    <2>1. NoRequest \in Calls
      BY <1>2 DEF NoRequest, Calls
    <2>2. CASE Kept
      <3>1. call' = [NoRequest EXCEPT !.at = "sent", !.proto = Held]
        BY <1>3, <2>2 DEF Look, Kept, Held
      <3>2. Held \in LeaseProto
        BY <2>2, KeptMeaning DEF Held, Lease
      <3> QED
        BY <2>1, <3>1, <3>2 DEF Calls
    <2>3. CASE ~Kept
      BY <1>3, <2>1, <2>3 DEF Look, Kept
    <2> QED
      BY <2>2, <2>3
  <1>4. CASE Serve
    <2>1. Message(latest) \in LeaseProto
      BY MessageType DEF LeaseInv, Grants, Grown
    <2>2. Verdict(call.proto) \in UseStatus
      BY DEF Verdict, UseStatus
    <2> QED
      BY <1>1, <1>4, <2>1, <2>2 DEF Serve, Calls
  <1>5. CASE OnRetainLeaseComplete
    BY <1>1, <1>5 DEF OnRetainLeaseComplete, Calls
  <1>6. CASE RpcError
    BY <1>1, <1>6 DEF RpcError, Calls
  <1>7. CASE UNCHANGED call
    BY <1>1, <1>7
  <1> QED
    BY <1>3, <1>4, <1>5, <1>6, <1>7
       DEF Next, vars, KeepAliveThread, Program, Loop, GiveUp, Judge, Report,
           WakeUp, TakeLease, Command, ReturnLease, StopKeepAliveThread,
           OtherTakes, Release, Tick

(* Time and what is counted stay within their bounds. *)
LEMMA CountersType ==
  ASSUME TypeOK, LeaseInv, [Next]_vars
  PROVE  /\ elapsed' \in 0 .. Cycle
         /\ unheard' \in 0 .. OnTime + 1
         /\ lost' \in 0 .. MaxLost
  <1>1. elapsed \in 0 .. Cycle /\ unheard \in 0 .. OnTime + 1 /\ lost \in 0 .. MaxLost
    BY DEF TypeOK, Cycle
  <1>2. MaxLost \in Nat
    BY TimeAssumption
  <1>3. CASE Loop
    BY <1>1, <1>3, Times DEF Loop, robot
  <1>4. CASE Serve
    BY <1>1, <1>4, Times DEF Serve
  <1>5. CASE RpcError
    BY <1>1, <1>2, <1>5 DEF RpcError, robot
  <1>6. CASE TakeLease
    BY <1>1, <1>6, Times DEF TakeLease
  <1>7. CASE Command
    BY <1>1, <1>7, Times DEF Command
  <1>8. CASE Tick
    <2>1. elapsed' = elapsed + 1 /\ lost' = lost
          /\ unheard' = IF holder = "us" /\ unheard <= OnTime THEN unheard + 1 ELSE unheard
      BY <1>8 DEF Tick
    <2>2. elapsed < Cycle
      BY <1>1, <1>8, Times DEF Tick
    <2> QED
      BY <1>1, <2>1, <2>2, Times
  <1>9. CASE UNCHANGED <<elapsed, unheard, lost>>
    BY <1>1, <1>9
  <1> QED
    BY <1>3, <1>4, <1>5, <1>6, <1>7, <1>8, <1>9
       DEF Next, vars, KeepAliveThread, Program, robot, Look, GiveUp, Judge, Report,
           WakeUp, OnRetainLeaseComplete, ReturnLease, StopKeepAliveThread,
           OtherTakes, Release

(* The thread's variables and the robot's. *)
LEMMA PlacesType ==
  ASSUME TypeOK, LeaseInv, [Next]_vars
  PROVE  /\ alive' \in BOOLEAN
         /\ at' \in At
         /\ holder' \in {"us", "other", "nobody"}
         /\ crossed' \in BOOLEAN
  <1>1. alive' \in BOOLEAN
    <2>1. CASE Report
      BY <2>1, Zenon DEF Report, TypeOK
    <2>2. CASE StopKeepAliveThread
      BY <2>2, Zenon DEF StopKeepAliveThread
    <2>3. CASE UNCHANGED alive
      BY <2>3, Zenon DEF TypeOK
    <2> QED
      BY <2>1, <2>2, <2>3, Zenon
         DEF Next, vars, KeepAliveThread, Program, Loop, Look, GiveUp, Judge, WakeUp,
             Serve, OnRetainLeaseComplete, RpcError, TakeLease, Command, ReturnLease,
             OtherTakes, Release, Tick
  <1>2. at' \in At
    <2>1. CASE KeepAliveThread
      BY <2>1 DEF KeepAliveThread, Loop, Look, GiveUp, Judge, Report, WakeUp, TypeOK, At
    <2>2. CASE StopKeepAliveThread
      BY <2>2 DEF StopKeepAliveThread, TypeOK, At
    <2>3. CASE UNCHANGED at
      BY <2>3 DEF TypeOK
    <2> QED
      BY <2>1, <2>2, <2>3, Zenon
         DEF Next, vars, Program, Serve, OnRetainLeaseComplete, RpcError, TakeLease,
             Command, ReturnLease, OtherTakes, Release, Tick
  <1>3. holder' \in {"us", "other", "nobody"}
    <2>1. holder \in {"us", "other", "nobody"}
      BY DEF TypeOK
    <2>2. holder' \in {"us", "other", "nobody", holder}
      BY Zenon DEF Next, vars, robot, KeepAliveThread, Program, Loop, Look, GiveUp, Judge,
                 Report, WakeUp, Serve, OnRetainLeaseComplete, RpcError, TakeLease,
                 Command, ReturnLease, StopKeepAliveThread, OtherTakes, Release, Tick
    <2> QED
      BY <2>1, <2>2
  <1>4. crossed' \in BOOLEAN
    <2>1. CASE Serve
      BY <2>1, Zenon DEF Serve
    <2>2. CASE TakeLease
      BY <2>2, Zenon DEF TakeLease
    <2>3. CASE UNCHANGED crossed
      BY <2>3, Zenon DEF TypeOK
    <2> QED
      BY <2>1, <2>2, <2>3, Zenon
         DEF Next, vars, KeepAliveThread, Program, Loop, Look, GiveUp, Judge, Report,
             WakeUp, OnRetainLeaseComplete, RpcError, Command, ReturnLease,
             StopKeepAliveThread, OtherTakes, Release, Tick
  <1> QED
    BY <1>1, <1>2, <1>3, <1>4

(* Every step leaves what the lease is to the robot as it should be. *)
LEMMA NextLeaseInv ==
  ASSUME TypeOK, LeaseInv, [Next]_vars
  PROVE  LeaseInv' /\ wallet' \in [Resources -> Lease \cup {NoLease}]
  <1>1. wallet \in [Resources -> Lease \cup {NoLease}]
    BY DEF TypeOK
  <1>2. CASE Loop \/ GiveUp \/ Judge \/ Report \/ WakeUp \/ StopKeepAliveThread \/ Tick
             \/ UNCHANGED vars
    <2>1. UNCHANGED <<wallet, call, latest, holder, crossed>>
      BY <1>2 DEF Loop, GiveUp, Judge, Report, WakeUp, StopKeepAliveThread, Tick,
                  vars, robot
    <2> QED
      BY <1>1, <2>1, OtherSteps
  <1>3. CASE Look
    <2>1. UNCHANGED wallet
      BY <1>3 DEF Look
    <2> QED
      BY <1>1, <1>3, <2>1, LookLeaseInv
  <1>4. CASE Serve
    <2>1. UNCHANGED wallet
      BY <1>4 DEF Serve
    <2> QED
      BY <1>1, <1>4, <2>1, ServeLeaseInv
  <1>5. CASE OnRetainLeaseComplete
    BY <1>5, AnswerLeaseInv
  <1>6. CASE RpcError
    <2>1. UNCHANGED <<wallet, latest, holder, crossed>> /\ call'.at = "done"
      BY <1>6 DEF RpcError, robot, TypeOK
    <2> QED
      BY <1>1, <2>1, WalletStays
         DEF LeaseInv, Grants, Asked, Answered, DisownedIsLost, Lost
  <1>7. CASE TakeLease
    BY <1>7, TakenLease, TakeLeaseInv
  <1>8. CASE Command
    BY <1>8, CommandEffect, CommandLeaseInv
  <1>9. CASE ReturnLease
    BY <1>9, ReturnIsAccepted, ReturnLeaseInv
  <1>10. CASE OtherTakes \/ Release
    <2>1. UNCHANGED wallet
      BY <1>10 DEF OtherTakes, Release
    <2> QED
      BY <1>1, <1>10, <2>1, LossLeaseInv
  <1> QED
    BY <1>2, <1>3, <1>4, <1>5, <1>6, <1>7, <1>8, <1>9, <1>10
       DEF Next, KeepAliveThread, Program

(* ... and the variables with values of their types. *)
LEMMA NextTypeOK ==
  ASSUME TypeOK, LeaseInv, [Next]_vars
  PROVE  TypeOK'
  <1>1. wallet' \in [Resources -> Lease \cup {NoLease}]
    BY NextLeaseInv
  <1>2. latest' \in Seq(SeqNumber) \ {<<>>}
    <2>1. Grown(latest')
      BY NextLeaseInv DEF LeaseInv, Grants
    <2> QED
      BY <2>1, EmptySeq DEF Grown, Clock
  <1>3. call' \in [at     : {"none", "sent", "served", "done"},
                   proto  : LeaseProto,
                   status : UseStatus \cup {"PENDING", "RPC_ERROR"},
                   latest : LeaseProto]
    BY CallType DEF Calls
  <1>4. elapsed' \in 0 .. Longer(Interval, RpcTime + CallbackTime)
    BY CountersType DEF Cycle
  <1> QED
    BY <1>1, <1>2, <1>3, <1>4, CountersType, PlacesType, Zenon DEF TypeOK

(* The variables of the keep-alive and of the robot have values of their   *)
(* types, and the call, the wallet and the robot's view of the lease fit   *)
(* together at every step.                                                 *)
LEMMA LeaseInvHolds == Spec => [](TypeOK /\ LeaseInv)
  <1>1. TypeOK /\ LeaseInv /\ [Next]_vars => (TypeOK /\ LeaseInv)'
    BY NextTypeOK, NextLeaseInv
  <1> QED
    BY <1>1, InitLeaseInv, PTL DEF Spec

(* The keep-alive's variables keep their types: the lease in the wallet,   *)
(* the times and the counters, for every interval                          *)
(* (lease_keepalive.cpp:57).                                               *)
THEOREM KeepAliveTypes == Spec => []TypeOK
  BY LeaseInvHolds, PTL

(* The program is told of a failure only if it has lost the lease, for     *)
(* every order of check-ins, commands, answers and leases taken again, but *)
(* for a check-in that crosses a lease taken again on its way to the robot *)
(* (lease_keepalive.cpp:72, lease_keepalive.cpp:111).                      *)
THEOREM KeepAliveNoFalseAlarm == Spec => NoFalseAlarm
  <1>1. ASSUME TypeOK, LeaseInv, [Next]_vars, at = "await", at' = "report"
        PROVE  Dispossessed \/ crossed
    <2>1. Judge
      BY <1>1 DEF Next, vars, KeepAliveThread, Program, Loop, Look, GiveUp, Report, WakeUp,
                  Serve, OnRetainLeaseComplete, RpcError, TakeLease, Command,
                  ReturnLease, StopKeepAliveThread, OtherTakes, Release, Tick
    <2>2. ~Wallet!Owned(resource)
      BY <1>1, <2>1 DEF Judge
    <2>3. Kept => Lost \/ crossed
      BY <1>1, <2>2 DEF LeaseInv, DisownedIsLost
    <2> QED
      BY <2>3 DEF Dispossessed, Kept, Held, Root, Lost
  <1>2. TypeOK /\ LeaseInv /\ [Next]_vars =>
          [at = "await" /\ at' = "report" => Dispossessed \/ crossed]_vars
    BY <1>1
  <1> QED
    BY <1>2, LeaseInvHolds, PTL DEF Spec, NoFalseAlarm

-----------------------------------------------------------------------------
(* The pace of the check-ins *)

(* The program starts without the lease. *)
LEMMA InitTimely == Init => Timely
  BY Times DEF Init, Timely, OnSchedule, Over, NoRequest

(* The times are numbers, whatever the state. *)
LEMMA TimesOfState ==
  ASSUME TypeOK
  PROVE  elapsed \in Nat /\ unheard \in Nat /\ lost \in Nat /\ at \in At
  BY Times, TimeAssumption DEF TypeOK, Cycle

(* Where the steps of the thread lead to. *)
LEMMA ThreadMoves ==
  /\ Loop => /\ at = "head"
             /\ \/ at' = "look" /\ elapsed' = 0
                \/ at' = "ended" /\ elapsed' = elapsed /\ ~alive
  /\ GiveUp => at = "await" /\ at' = "ended" /\ elapsed' = elapsed /\ ~alive
  /\ Judge => /\ at = "await" /\ at' \in {"report", "waiting"} /\ call.at = "done"
              /\ elapsed' = elapsed
  /\ Report => at = "report" /\ at' = "waiting" /\ elapsed' = elapsed
  /\ WakeUp => at = "waiting" /\ at' = "head" /\ elapsed' = elapsed
  <1>1. Loop => /\ at = "head"
                /\ \/ at' = "look" /\ elapsed' = 0
                   \/ at' = "ended" /\ elapsed' = elapsed /\ ~alive
    <2>1. CASE alive
      BY <2>1, Zenon DEF Loop
    <2>2. CASE ~alive
      BY <2>2, Zenon DEF Loop
    <2> QED
      BY <2>1, <2>2
  <1>2. Judge => /\ at = "await" /\ at' \in {"report", "waiting"} /\ call.at = "done"
                 /\ elapsed' = elapsed
    BY Zenon DEF Judge
  <1> QED
    BY <1>1, <1>2, Zenon DEF GiveUp, Report, WakeUp

(* The thread's own time is bounded in every step.                         *)
LEMMA NextOnSchedule ==
  ASSUME TypeOK, Timely, [Next]_vars
  PROVE  OnSchedule'
  <1>1. OnSchedule /\ elapsed \in Nat /\ at \in At
    BY TimesOfState DEF Timely
  <1>2. CASE Tick
    <2>1. at' = at /\ elapsed' = elapsed + 1
      BY <1>2 DEF Tick
    <2>2. \/ at = "await" /\ elapsed < RpcTime
          \/ at = "report" /\ elapsed < RpcTime + CallbackTime
          \/ at = "waiting" /\ elapsed < Interval
      BY <1>2 DEF Tick
    <2> QED
      BY <1>1, <2>1, <2>2, Times DEF OnSchedule
  <1>3. CASE Loop \/ GiveUp \/ Judge \/ Report \/ WakeUp
    BY <1>1, <1>3, Times, ThreadMoves DEF OnSchedule
  <1>4. CASE Look
    <2>1. elapsed' = 0 /\ at' \in {"await", "report"}
      BY <1>1, <1>4 DEF Look, OnSchedule
    <2> QED
      BY <2>1, Times DEF OnSchedule
  <1>5. CASE StopKeepAliveThread
    BY <1>1, <1>5, Times DEF OnSchedule, At, StopKeepAliveThread
  <1>6. CASE UNCHANGED <<at, elapsed>>
    BY <1>1, <1>6 DEF OnSchedule
  <1> QED
    BY <1>2, <1>3, <1>4, <1>5, <1>6
       DEF Next, vars, KeepAliveThread, Program, Serve, OnRetainLeaseComplete, RpcError,
           TakeLease, Command, ReturnLease, OtherTakes, Release

(* A call is under way only while the thread waits for it, or has ended.   *)
LEMMA NextOver ==
  ASSUME TypeOK, Timely, [Next]_vars
  PROVE  Over' /\ (at' = "ended" => ~alive')
  <1>1. Over /\ (at = "ended" => ~alive) /\ at \in At
    BY TimesOfState DEF Timely
  <1>2. call.at \in {"none", "sent", "served", "done"}
    BY DEF TypeOK
  <1>3. CASE Loop \/ GiveUp \/ Judge \/ Report \/ WakeUp
    <2>1. UNCHANGED call
      BY <1>3, Zenon DEF Loop, GiveUp, Judge, Report, WakeUp
    <2>2. alive' = alive \/ Report
      BY <1>3, Zenon DEF Loop, GiveUp, Judge, Report, WakeUp
    <2> QED
      BY <1>1, <1>2, <1>3, <2>1, <2>2, ThreadMoves DEF Over
  <1>4. CASE Look
    BY <1>1, <1>4 DEF Look, NoRequest, Over
  <1>5. CASE Serve
    BY <1>1, <1>2, <1>5 DEF Serve, Over
  <1>6. CASE OnRetainLeaseComplete
    BY <1>1, <1>6 DEF OnRetainLeaseComplete, Over
  <1>7. CASE RpcError
    BY <1>1, <1>7 DEF RpcError, Over
  <1>8. CASE StopKeepAliveThread
    BY <1>1, <1>8 DEF StopKeepAliveThread, Over
  <1>9. CASE UNCHANGED <<at, alive, call>>
    BY <1>1, <1>9 DEF Over
  <1> QED
    BY <1>3, <1>4, <1>5, <1>6, <1>7, <1>8, <1>9
       DEF Next, vars, KeepAliveThread, Program, TakeLease, Command, ReturnLease,
           OtherTakes, Release, Tick

(* While the robot takes the program for the holder, it has heard from it  *)
(* as lately as the place of the thread tells.                             *)
LEMMA NextHeard ==
  ASSUME TypeOK, LeaseInv, Timely, [Next]_vars, lost' = 0, alive', holder' = "us"
  PROVE  Heard'
  <1>1. /\ OnSchedule /\ Over /\ (at = "ended" => ~alive)
        /\ (lost = 0 /\ alive /\ holder = "us" => Heard)
    BY DEF Timely
  <1>2. elapsed \in Nat /\ unheard \in Nat /\ lost \in Nat /\ at \in At
        /\ call.at \in {"none", "sent", "served", "done"}
    BY TimesOfState DEF TypeOK
  <1>3. holder = "us" => Kept /\ TwoNumbers(Held) /\ Grown(latest)
                         /\ Root(Held) = latest[1] /\ ~Behind(Held, latest)
    BY DEF LeaseInv, Grants
  <1>4. CASE Loop
    BY <1>1, <1>2, <1>4, Times DEF Loop, robot, Heard, OnSchedule
  <1>5. CASE Look
    <2>1. at = "look" /\ UNCHANGED <<elapsed, latest, holder, unheard, alive, lost>>
          /\ elapsed = 0
      BY <1>1, <1>5 DEF Look, robot, OnSchedule
    <2>2. unheard <= Cycle /\ Kept /\ ~Behind(Held, latest)
      BY <1>1, <1>3, <2>1 DEF Heard
    <2>3. at' = "await" /\ call' = [NoRequest EXCEPT !.at = "sent", !.proto = Held]
      BY <1>5, <2>2 DEF Look, Kept, Held
    <2>4. call'.at = "sent" /\ call'.proto = Held
      BY <2>3 DEF NoRequest
    <2>5. ~Behind(call'.proto, latest')
      BY <2>1, <2>2, <2>4
    <2> QED
      BY <1>2, <2>1, <2>2, <2>3, <2>4, <2>5, Times DEF Heard
  <1>6. CASE Judge \/ Report \/ WakeUp
    <2>1. UNCHANGED <<call, latest, holder, unheard, lost>> /\ (alive' => alive)
      BY <1>6, Zenon DEF Judge, Report, WakeUp, robot
    <2> QED
      BY <1>1, <1>2, <1>6, <2>1, Times, ThreadMoves DEF Heard, OnSchedule
  <1>7. CASE Serve
    <2>1. /\ call.at = "sent" /\ call'.at = "served"
          /\ UNCHANGED <<alive, at, elapsed, latest, holder, lost>>
          /\ unheard' = IF Verdict(call.proto) = "OK" THEN 0 ELSE unheard
      BY <1>7 DEF Serve, TypeOK
    <2>2. at = "await" /\ Heard
      BY <1>1, <1>2, <2>1 DEF Over, At
    <2>3. unheard' <= elapsed
      <3>1. TwoNumbers(call.proto) /\ Grown(latest)
        BY <2>1 DEF LeaseInv, Asked, Grants
      <3>2. CASE Verdict(call.proto) = "OK"
        BY <1>2, <2>1, <3>2
      <3>3. CASE Verdict(call.proto) # "OK"
        <4>1. Behind(call.proto, latest)
          BY <2>1, <3>1, <3>3, VerdictMeaning
        <4> QED
          BY <2>1, <2>2, <3>3, <4>1 DEF Heard
      <3> QED
        BY <3>2, <3>3
    <2> QED
      BY <2>1, <2>2, <2>3 DEF Heard
  <1>8. CASE OnRetainLeaseComplete
    <2>1. /\ call.at = "served" /\ call'.at = "done"
          /\ UNCHANGED <<alive, at, elapsed, latest, holder, unheard, lost>>
      BY <1>8 DEF OnRetainLeaseComplete, robot, TypeOK
    <2> QED
      BY <1>1, <2>1 DEF Heard
  <1>9. CASE RpcError
    BY <1>2, <1>9 DEF RpcError
  <1>10. CASE TakeLease
    <2>1. unheard' = 0 /\ UNCHANGED <<alive, at, call, elapsed, lost>>
      BY <1>10 DEF TakeLease
    <2>2. at # "ended"
      BY <1>1, <2>1
    <2> QED
      BY <1>2, <2>1, <2>2, Times DEF Heard, At
  <1>11. CASE Command
    <2>1. UNCHANGED <<alive, at, call, elapsed, holder, lost>>
      BY <1>11 DEF Command
    <2>2. unheard' = 0
      BY <1>11, <2>1, CommandEffect
    <2>3. at # "ended"
      BY <1>1, <2>1
    <2> QED
      BY <1>2, <2>1, <2>2, <2>3, Times DEF Heard, At
  <1>12. CASE ReturnLease
    BY <1>12, ReturnIsAccepted
  <1>13. CASE Tick
    <2>1. /\ UNCHANGED <<alive, at, call, latest, holder, lost>>
          /\ elapsed' = elapsed + 1
          /\ unheard' = unheard + 1 \/ unheard' = unheard
          /\ at \in {"await", "report", "waiting"}
      BY <1>13, Zenon DEF Tick
    <2> QED
      BY <1>1, <1>2, <2>1, Times DEF Heard
  <1>14. CASE UNCHANGED vars
    BY <1>1, <1>14 DEF vars, Heard
  <1>15. CASE GiveUp \/ StopKeepAliveThread \/ OtherTakes \/ Release
    BY <1>15 DEF GiveUp, StopKeepAliveThread, OtherTakes, Release
  <1> QED
    BY <1>4, <1>5, <1>6, <1>7, <1>8, <1>9, <1>10, <1>11, <1>12, <1>13, <1>14, <1>15
       DEF Next, KeepAliveThread, Program

(* The robot hears from its holder within the time of a cycle and a call,  *)
(* as long as no call fails and the thread is not stopped: for every       *)
(* interval, and any time a call and the program's function take           *)
(* (lease_keepalive.cpp:57, lease_keepalive.cpp:87).                       *)
THEOREM KeepAliveChecksInOnTime == Spec => []ChecksInOnTime
  <1>1. TypeOK /\ LeaseInv /\ Timely /\ [Next]_vars => Timely'
    BY NextOnSchedule, NextOver, NextHeard DEF Timely
  <1>2. TypeOK /\ Timely => ChecksInOnTime
    <2> SUFFICES ASSUME TypeOK, Timely, lost = 0, alive, holder = "us"
                 PROVE  unheard <= OnTime
      BY DEF ChecksInOnTime
    <2>1. Heard /\ OnSchedule /\ at # "ended"
      BY DEF Timely
    <2>2. elapsed \in Nat /\ unheard \in Nat /\ at \in At
      BY TimesOfState
    <2> QED
      BY <2>1, <2>2, Times DEF Heard, OnSchedule, At
  <1> QED
    BY <1>1, <1>2, InitTimely, LeaseInvHolds, PTL DEF Spec
=============================================================================
