------------------------- MODULE ClientCallsProofs --------------------------
(***************************************************************************)
(* Theorems about the calls of the service clients, for any calls that the *)
(* program makes, any number of them under way together, any resources and *)
(* any number of leases.                                                   *)
(***************************************************************************)
EXTENDS ClientCalls, LeaseOrderProofs, FiniteSetTheorems, TLAPS

-----------------------------------------------------------------------------
(* The table of stubs *)

(* What the stubs have in common: only the calls named by Ignoring ignore  *)
(* the status of a response, only those named by Deaf attach leases and do *)
(* not hear of them, and those check the status.                           *)
Regular(s, rpc) ==
  /\ s.lease \in {"none", "one", "many"}
  /\ s.kind = "requests" => s.lease = "one"
  /\ s.verdict \in {"absent", "checked", "items", "ignored"}
  /\ s.verdict = "ignored" => rpc \in Ignoring
  /\ s.result = "none" /\ s.lease # "none" => rpc \in Deaf /\ s.verdict = "checked"

AllRegular(f, client) == \A call \in DOMAIN f : Regular(f[call], <<client, call>>)

(* Tables put together have it if each has. *)
LEMMA TogetherRegular ==
  ASSUME NEW tables, NEW client, \A t \in tables : AllRegular(t, client)
  PROVE  AllRegular(Together(tables), client)
  <1> SUFFICES ASSUME NEW call \in DOMAIN Together(tables)
               PROVE  Regular(Together(tables)[call], <<client, call>>)
    BY DEF AllRegular
  <1>1. PICK t \in tables : call \in DOMAIN t
    BY DEF Together
  <1> DEFINE first == CHOOSE u \in tables : call \in DOMAIN u
  <1>2. first \in tables /\ call \in DOMAIN first
    BY <1>1
  <1>3. Together(tables)[call] = first[call]
    BY <1>1 DEF Together
  <1> QED
    BY <1>2, <1>3 DEF AllRegular

(* Calls that are all alike. *)
LEMMA AlikeRegular ==
  ASSUME NEW s, NEW names, NEW client, \A call \in names : Regular(s, <<client, call>>)
  PROVE  AllRegular(All(s, names), client)
  BY DEF AllRegular, All

(* The variants that no call needs to be named for. *)
LEMMA PlainRegular ==
  ASSUME NEW rpc
  PROVE  /\ Regular(Reply, rpc) /\ Regular(Verdict, rpc) /\ Regular(Items, rpc)
         /\ Regular(OneLease(Reply), rpc) /\ Regular(OneLease(Verdict), rpc)
         /\ Regular(ManyLeases(Verdict), rpc)
  BY DEF Regular, Reply, Verdict, Items, OneLease, ManyLeases

(* Rows whose completion looks at the status or reports one lease are      *)
(* regular, also when the request is prepared on the way.                  *)
LEMMA PreparedRegular ==
  ASSUME NEW rpc
  PROVE  /\ Regular(Prepared(Verdict), rpc)
         /\ Regular(Prepared(OneLease(Verdict)), rpc)
         /\ Regular([Verdict EXCEPT !.result = "one"], rpc)
  <1>1. Regular(Prepared(Verdict), rpc)
    BY DEF Regular, Prepared, Verdict, Reply
  <1>2. Regular(Prepared(OneLease(Verdict)), rpc)
    BY DEF Regular, Prepared, OneLease, Verdict, Reply
  <1>3. Regular([Verdict EXCEPT !.result = "one"], rpc)
    BY DEF Regular, Verdict, Reply
  <1> QED
    BY <1>1, <1>2, <1>3

(* So are the rows whose messages travel as streams, of the shapes the     *)
(* table has.                                                              *)
LEMMA StreamsRegular ==
  ASSUME NEW rpc
  PROVE  /\ Regular(Over("responses", Reply), rpc)
         /\ Regular(Over("responses", Verdict), rpc)
         /\ Regular(Over("chunksBothWays", Verdict), rpc)
         /\ Regular(Over("chunks", ManyLeases(Verdict)), rpc)
         /\ Regular(Over("chunksBothWays", ManyLeases(Verdict)), rpc)
         /\ Regular(Prepared(Over("requests", OneLease(Reply))), rpc)
         /\ Regular(Prepared(Over("requests", OneLease(Verdict))), rpc)
  <1>1. /\ Regular(Over("responses", Reply), rpc)
        /\ Regular(Over("responses", Verdict), rpc)
        /\ Regular(Over("chunksBothWays", Verdict), rpc)
    BY DEF Regular, Over, Verdict, Reply
  <1>2. Regular(Over("chunks", ManyLeases(Verdict)), rpc)
    BY DEF Regular, Over, ManyLeases, Verdict, Reply
  <1>3. Regular(Over("chunksBothWays", ManyLeases(Verdict)), rpc)
    BY DEF Regular, Over, ManyLeases, Verdict, Reply
  <1>4. Regular(Prepared(Over("requests", OneLease(Reply))), rpc)
    BY DEF Regular, Prepared, Over, OneLease, Reply
  <1>5. Regular(Prepared(Over("requests", OneLease(Verdict))), rpc)
    BY DEF Regular, Prepared, Over, OneLease, Verdict, Reply
  <1> QED
    BY <1>1, <1>2, <1>3, <1>4, <1>5

(* The calls that ignore the status of a response. *)
LEMMA TrustedRegular ==
  ASSUME NEW rpc \in Ignoring
  PROVE  /\ Regular(Trusted, rpc) /\ Regular(OneLease(Trusted), rpc)
         /\ Regular(Prepared(Over("requests", OneLease(Trusted))), rpc)
  <1>1. Regular(Trusted, rpc) /\ Regular(OneLease(Trusted), rpc)
    BY DEF Regular, OneLease, Trusted, Reply
  <1>2. Regular(Prepared(Over("requests", OneLease(Trusted))), rpc)
    BY DEF Regular, Prepared, Over, OneLease, Trusted, Reply
  <1> QED
    BY <1>1, <1>2

(* The calls whose lease use results go nowhere. *)
LEMMA DeafRegular ==
  ASSUME NEW rpc \in Deaf
  PROVE  /\ Regular(Over("wrapped", [OneLease(Verdict) EXCEPT !.result = "none"]), rpc)
         /\ Regular([ManyLeases(Verdict) EXCEPT !.result = "none"], rpc)
  <1>1. Regular(Over("wrapped", [OneLease(Verdict) EXCEPT !.result = "none"]), rpc)
    BY DEF Regular, Over, OneLease, Verdict, Reply
  <1>2. Regular([ManyLeases(Verdict) EXCEPT !.result = "none"], rpc)
    BY DEF Regular, ManyLeases, Verdict, Reply
  <1> QED
    BY <1>1, <1>2

(* So are lists of rows of one shape. *)
LEMMA RepliesRegular ==
  ASSUME NEW client, NEW names
  PROVE  /\ AllRegular(All(Reply, names), client)
         /\ AllRegular(All(Verdict, names), client)
         /\ AllRegular(All(Items, names), client)
         /\ AllRegular(All(OneLease(Verdict), names), client)
  BY PlainRegular, AlikeRegular

(* The tables of each client. *)
LEMMA SpotCamRegular == AllRegular(SpotCam, "spotCam")
  <1>1. AllRegular(SystemLog, "spotCam")
    BY StreamsRegular DEF AllRegular, SystemLog
  <1>2. \A t \in {Sounds, Volume, Capture, Screens, Overlays, Views, Health, SystemLog,
                  Lighting, MediaLog, MediaLogTags, MediaLogFiles, Network, CameraPower,
                  CameraPowerCycle, PtzQueries, PtzMoves, PtzFocus, StreamQuality,
                  Congestion, Version} : AllRegular(t, "spotCam")
    BY <1>1, RepliesRegular, Zenon
    DEF Sounds, Volume, Capture, Screens, Overlays, Views, Health,
        Lighting, MediaLog, MediaLogTags, MediaLogFiles, Network, CameraPower,
        CameraPowerCycle, PtzQueries, PtzMoves, PtzFocus, StreamQuality,
        Congestion, Version
  <1> QED
    BY <1>2, TogetherRegular, Zenon DEF SpotCam

(* The rows of the perception and sensing clients. *)
LEMMA SensorsRegular == AllRegular(Sensors, "sensors")
  <1>1. /\ AllRegular(Image, "sensors") /\ AllRegular(PointCloud, "sensors")
        /\ AllRegular(LocalGrid, "sensors") /\ AllRegular(WorldObjects, "sensors")
        /\ AllRegular(RobotId, "sensors") /\ AllRegular(TimeSyncClient, "sensors")
    BY PlainRegular
    DEF AllRegular, Image, PointCloud, LocalGrid, WorldObjects, RobotId, TimeSyncClient
  <1>2. /\ AllRegular(NetworkCompute, "sensors") /\ AllRegular(GripperCamera, "sensors")
        /\ AllRegular(RobotState, "sensors") /\ AllRegular(License, "sensors")
    BY RepliesRegular, Zenon DEF NetworkCompute, GripperCamera, RobotState, License
  <1>3. \A t \in {Image, PointCloud, LocalGrid, WorldObjects, NetworkCompute,
                  GripperCamera, RobotState, RobotId, TimeSyncClient, License} :
          AllRegular(t, "sensors")
    BY <1>1, <1>2, Zenon
  <1> QED
    BY <1>3, TogetherRegular, Zenon DEF Sensors

(* The rows of data acquisition and the data buffer. *)
LEMMA DataRegular == AllRegular(Data, "data")
  <1>1. /\ AllRegular(DataAcquisition, "data") /\ AllRegular(DataAcquisitionLive, "data")
        /\ AllRegular([QueryStoredCaptures |-> Over("responses", Reply)], "data")
        /\ AllRegular([RegisterSignalSchema |-> Reply], "data")
    BY PlainRegular, StreamsRegular DEF AllRegular, DataAcquisition, DataAcquisitionLive
  <1>2. /\ AllRegular(StoreLists, "data") /\ AllRegular(StoreData, "data")
    BY RepliesRegular, Zenon DEF StoreLists, StoreData
  <1>3. AllRegular(StoreQueries, "data")
    <2>1. \A t \in {All(Reply, {"StoreAlertData", "QueryMaxCaptureId"}),
                    [QueryStoredCaptures |-> Over("responses", Reply)]} :
            AllRegular(t, "data")
      BY <1>1, RepliesRegular, Zenon
    <2> QED
      BY <2>1, TogetherRegular, Zenon DEF StoreQueries
  <1>4. AllRegular(DataBuffer, "data")
    <2>1. \A t \in {All(Items, DataBufferTexts \cup DataBufferSignals),
                    [RegisterSignalSchema |-> Reply]} : AllRegular(t, "data")
      BY <1>1, RepliesRegular, Zenon
    <2> QED
      BY <2>1, TogetherRegular, Zenon DEF DataBuffer
  <1>5. \A t \in {DataAcquisition, DataAcquisitionLive, StoreLists, StoreData,
                  StoreQueries, DataBuffer} : AllRegular(t, "data")
    BY <1>1, <1>2, <1>3, <1>4, Zenon
  <1> QED
    BY <1>5, TogetherRegular, Zenon DEF Data

(* The rows of the directory, payload, fault, log and status clients. *)
LEMMA ServicesRegular == AllRegular(Services, "services")
  <1>1. /\ AllRegular(Directory, "services") /\ AllRegular(PayloadTokens, "services")
        /\ AllRegular(Payload, "services") /\ AllRegular(Auth, "services")
    BY PlainRegular, PreparedRegular DEF AllRegular, Directory, PayloadTokens, Payload, Auth
  <1>2. /\ AllRegular(DirectoryRegistration, "services")
        /\ AllRegular(PayloadRegistration, "services")
        /\ AllRegular(Fault, "services") /\ AllRegular(LogStatus, "services")
    BY RepliesRegular, Zenon DEF DirectoryRegistration, PayloadRegistration, Fault, LogStatus
  <1>3. \A t \in {DirectoryRegistration, Directory, PayloadRegistration, PayloadTokens,
                  Payload, Auth, Fault, LogStatus} : AllRegular(t, "services")
    BY <1>1, <1>2, Zenon
  <1> QED
    BY <1>3, TogetherRegular, Zenon DEF Services

(* The rows of the mission and autowalk clients. *)
LEMMA MissionRegular == AllRegular(Mission, "mission")
  <1>1. /\ AllRegular(MissionLoad, "mission") /\ AllRegular(MissionPlay, "mission")
    BY PlainRegular, StreamsRegular DEF AllRegular, MissionLoad, MissionPlay
  <1>2. AllRegular(MissionInfo, "mission")
    BY PlainRegular, StreamsRegular DEF AllRegular, MissionInfo
  <1>3. AllRegular(MissionQuestions, "mission")
    <2>1. Regular(Trusted, <<"mission", "AnswerQuestion">>)
      BY TrustedRegular DEF Ignoring
    <2> QED
      BY <2>1, PlainRegular, StreamsRegular DEF AllRegular, MissionQuestions
  <1>4. AllRegular(Autowalk, "mission")
    BY StreamsRegular DEF AllRegular, Autowalk
  <1>5. \A t \in {MissionLoad, MissionPlay, MissionInfo, MissionQuestions, Autowalk} :
          AllRegular(t, "mission")
    BY <1>1, <1>2, <1>3, <1>4, Zenon
  <1> QED
    BY <1>5, TogetherRegular, Zenon DEF Mission

(* The rows of graph navigation. *)
LEMMA GraphNavRegular == AllRegular(GraphNav, "graphNav")
  <1>1. /\ AllRegular(GraphNavNavigation, "graphNav")
        /\ AllRegular(GraphNavState, "graphNav")
    BY PlainRegular DEF AllRegular, GraphNavNavigation, GraphNavState
  <1>2. AllRegular(GraphNavGraph, "graphNav")
    BY PlainRegular, StreamsRegular DEF AllRegular, GraphNavGraph
  <1>3. AllRegular(GraphNavSnapshots, "graphNav")
    BY StreamsRegular DEF AllRegular, GraphNavSnapshots
  <1>4. AllRegular(GraphNavUploads, "graphNav")
    <2>1. Regular(Prepared(Over("requests", OneLease(Trusted))),
                  <<"graphNav", "UploadSnapshots">>)
      BY TrustedRegular DEF Ignoring
    <2> QED
      BY <2>1, StreamsRegular DEF AllRegular, GraphNavUploads
  <1>5. AllRegular(GraphNavStreams, "graphNav")
    <2>1. Regular(Over("wrapped", [OneLease(Verdict) EXCEPT !.result = "none"]),
                  <<"graphNav", "UploadGraphStreaming">>)
      BY DeafRegular DEF Deaf
    <2> QED
      BY <2>1, StreamsRegular DEF AllRegular, GraphNavStreams
  <1>6. AllRegular(Recording, "graphNav")
    BY RepliesRegular, Zenon DEF Recording
  <1>7. AllRegular(RecordingEdges, "graphNav")
    <2>1. Regular(OneLease(Trusted), <<"graphNav", "CreateEdge">>)
      BY TrustedRegular DEF Ignoring
    <2> QED
      BY <2>1, PlainRegular DEF AllRegular, RecordingEdges
  <1>8. \A t \in {GraphNavNavigation, GraphNavState, GraphNavGraph, GraphNavSnapshots,
                  GraphNavUploads, GraphNavStreams, Recording, RecordingEdges} :
          AllRegular(t, "graphNav")
    BY <1>1, <1>2, <1>3, <1>4, <1>5, <1>6, <1>7, Zenon
  <1> QED
    BY <1>8, TogetherRegular, Zenon DEF GraphNav

(* The rows of the clients that move the robot. *)
LEMMA BodyRegular == AllRegular(BodyCalls, "body")
  <1>1. AllRegular(LeaseCalls, "body")
    BY PlainRegular, PreparedRegular DEF AllRegular, LeaseCalls
  <1>2. /\ AllRegular(Power, "body") /\ AllRegular(PowerFeedback, "body")
        /\ AllRegular(RobotCommandFeedback, "body") /\ AllRegular(Docking, "body")
        /\ AllRegular(DockingFeedback, "body") /\ AllRegular(Manipulation, "body")
        /\ AllRegular(InverseKinematics, "body") /\ AllRegular(EstopStatus, "body")
    BY PlainRegular
    DEF AllRegular, Power, PowerFeedback, RobotCommandFeedback, Docking, DockingFeedback,
        Manipulation, InverseKinematics, EstopStatus
  <1>3. AllRegular(RobotCommand, "body")
    BY PreparedRegular DEF AllRegular, RobotCommand
  <1>4. AllRegular(Estop, "body")
    <2>1. AllRegular([GetEstopConfig |-> Reply], "body")
      BY PlainRegular DEF AllRegular
    <2>2. \A t \in {All(Verdict, {"RegisterEstopEndpoint", "DeregisterEstopEndpoint",
                                  "SetEstopConfig"}),
                    [GetEstopConfig |-> Reply]} : AllRegular(t, "body")
      BY <2>1, RepliesRegular, Zenon
    <2> QED
      BY <2>2, TogetherRegular, Zenon DEF Estop
  <1>5. \A t \in {LeaseCalls, Power, PowerFeedback, RobotCommand, RobotCommandFeedback,
                  Docking, DockingFeedback, Manipulation, InverseKinematics, Estop,
                  EstopStatus} : AllRegular(t, "body")
    BY <1>1, <1>2, <1>3, <1>4, Zenon
  <1> QED
    BY <1>5, TogetherRegular, Zenon DEF BodyCalls

(* The rows of the keepalive policies, of which CheckIn trusts its answer. *)
LEMMA KeepaliveRegular == AllRegular(Keepalive, "keepalive")
  <1>1. Regular(Trusted, <<"keepalive", "CheckIn">>)
    BY TrustedRegular DEF Ignoring
  <1> QED
    BY <1>1, PlainRegular DEF AllRegular, Keepalive

(* The rows of auto return. *)
LEMMA AutoReturnRegular == AllRegular(AutoReturn, "autoReturn")
  <1>1. Regular(Trusted, <<"autoReturn", "Start">>)
    BY TrustedRegular DEF Ignoring
  <1>2. Regular([ManyLeases(Verdict) EXCEPT !.result = "none"], <<"autoReturn", "Configure">>)
    BY DeafRegular DEF Deaf
  <1> QED
    BY <1>1, <1>2, PlainRegular DEF AllRegular, AutoReturn

(* Every stub of every client, and that of AutoReturnClient::Init. *)
LEMMA StubsRegular ==
  /\ \A rpc \in Rpcs : Regular(Stub(rpc), rpc)
  /\ Regular(InitStub, InitReturn)
  <1>1. \A client \in DOMAIN Stubs : AllRegular(Stubs[client], client)
    BY SpotCamRegular, SensorsRegular, DataRegular, ServicesRegular, MissionRegular,
       GraphNavRegular, BodyRegular, KeepaliveRegular, AutoReturnRegular DEF Stubs
  <1>2. ASSUME NEW rpc \in Rpcs
        PROVE  Regular(Stub(rpc), rpc)
    <2>1. PICK client \in DOMAIN Stubs :
            rpc \in {<<client, call>> : call \in DOMAIN Stubs[client]}
      BY DEF Rpcs
    <2>3. PICK call \in DOMAIN Stubs[client] : rpc = <<client, call>>
      BY <2>1
    <2>2. Stub(rpc) = Stubs[client][call]
      BY <2>3 DEF Stub
    <2> QED
      BY <1>1, <2>2, <2>3 DEF AllRegular
  <1>3. Regular(InitStub, InitReturn)
    BY AutoReturnRegular DEF AllRegular, InitStub, InitReturn, AutoReturn
  <1> QED
    BY <1>2, <1>3

-----------------------------------------------------------------------------
(* Types *)

Valid   == {p \in LeaseProto : IsValid(p)}
Entries == {l \in Lease : IsValid(l.proto)} \cup {NoLease}

Kinds    == {Stub(rpc) : rpc \in Rpcs} \cup {Reply, InitStub}
Stages   == {"free", "sending", "answered", "settled"}
Outcomes == {"none", "failed", "leaseUse", "status", "ok"}

Told == {result \in LeaseUseResult : IsValid(result.attempted)}

AnswerType == [header : BOOLEAN, whole : BOOLEAN, done : BOOLEAN,
               results : Seq(Told)]

Call ==
  [stage : Stages, rpc : Rpcs \cup {NoRpc, InitReturn}, stub : Kinds,
   todo : Seq(Resources), leases : Seq(Valid), answer : AnswerType,
   taken : Nat, outcome : Outcomes, lent : Entries]

CallsTypeOK ==
  /\ wallet \in [Resources -> Entries]
  /\ calls \in [Calls -> Call]
  /\ latest \in [Resources -> Clock \ {<<>>}]
  /\ holder \in [Resources -> BOOLEAN]
  /\ returns \in [Resources -> Entries]

CopiesTypeOK ==
  /\ held \in [Calls -> Entries]
  /\ torn \in SUBSET Resources

-----------------------------------------------------------------------------
(* The inductive invariant *)

(* What the fields of a call are at each of its stages. *)
Stage(c) ==
  LET k == calls[c] IN
  /\ k.stage = "free" => k = Free
  /\ k.stage # "settled" => k.outcome = "none"
  /\ k.stage # "sending" => k.todo = <<>>
  /\ k.stage = "sending" => k.answer = NoAnswer /\ k.taken = 0
  /\ k.stage \in {"sending", "answered"} =>
       k.rpc \in Rpcs \cup {InitReturn} /\ Regular(k.stub, k.rpc)

(* A call that has no leases to attach attaches none; an answer that says  *)
(* no says so where the completion looks, unless it does not look.         *)
Honest(c) ==
  LET k == calls[c] IN
  /\ k.stage \in {"sending", "answered"} /\ k.stub.lease = "none" /\ k.stub.result = "none" =>
       k.todo = <<>> /\ k.leases = <<>> /\ k.answer.results = <<>>
  /\ k.stage = "answered" /\ k.answer.header /\ ~k.answer.done /\ k.stub.verdict = "absent" =>
       /\ k.stub.result # "none"
       /\ \E i \in DOMAIN k.answer.results : k.answer.results[i].status # "OK"
  /\ k.outcome = "ok" => k.answer.done \/ k.rpc \in Ignoring

(* A lease that the program lends to the robot is its own, of two numbers, *)
(* and no other call is under way.                                         *)
Lending(c) ==
  LET k == calls[c] IN
  k.lent # NoLease =>
    /\ IsSelfOwned(k.lent)
    /\ k.lent.proto.resource \in Resources
    /\ Len(k.lent.proto.sequence) = 2
    /\ k.lent.proto.sequence[2] < MaxUse[k.lent.proto.resource]
    /\ k.lent.proto.sequence[1] <= latest[k.lent.proto.resource][1]
    /\ \A d \in Calls \ {c} : calls[d].stage = "free"
    /\ k.stage \in {"sending", "answered"} => k.rpc = InitReturn

(* Leases begin with a number that the robot has granted. *)
Rooted(r) ==
  /\ wallet[r] # NoLease =>
       /\ wallet[r].proto.resource = r
       /\ Len(wallet[r].proto.sequence) \in {2, 3}
       /\ wallet[r].proto.sequence[1] <= latest[r][1]
  /\ returns[r] # NoLease =>
       /\ returns[r].proto.resource = r
       /\ Len(returns[r].proto.sequence) = 2
       /\ returns[r].proto.sequence[1] <= latest[r][1]

(* The program's lease is of a later grant than the one auto return has,   *)
(* or a sublease of one that came before it.                               *)
Ranked(r) ==
  returns[r] # NoLease /\ wallet[r] # NoLease =>
    LET w == wallet[r].proto.sequence  back == returns[r].proto.sequence IN
    \/ w[1] > back[1]
    \/ w[1] = back[1] /\ Len(w) = 3 /\ w[2] < back[2]

(* The same of any lease of the resource. *)
Outranked(l, r) ==
  returns[r] # NoLease =>
    LET w == l.proto.sequence  back == returns[r].proto.sequence IN
    \/ w[1] > back[1]
    \/ w[1] = back[1] /\ Len(w) = 3 /\ w[2] < back[2]

(* The lease is owned and no copy was stored over a change of it. *)
Intact(r) == Wallet!Owned(r) /\ r \notin torn

(* The lease that the wallet has, if intact, is p or one that came after   *)
(* it.                                                                     *)
Since(p, r) ==
  Intact(r) =>
    p.sequence = wallet[r].proto.sequence \/ Before(p.sequence, wallet[r].proto.sequence)

(* The answer has nothing to say against the lease in the wallet. *)
Settles(result) ==
  LET r == result.attempted.resource IN
  Intact(r) =>
    /\ result.status = "OLDER" => Since(result.latest, r)
    /\ result.status = "REVOKED" =>
         Before(result.attempted.sequence, wallet[r].proto.sequence)

(* A lease is no newer than what the wallet has and the robot has granted. *)
Fits(p) ==
  /\ Since(p, p.resource)
  /\ p.sequence[1] <= latest[p.resource][1]

(* A result tells of such a lease and of what the robot has granted. *)
Sound(result) ==
  /\ result.status \in {"OK", "OLDER", "REVOKED"}
  /\ IsValid(result.attempted) /\ IsValid(result.latest)
  /\ result.latest.resource = result.attempted.resource
  /\ Fits(result.attempted)
  /\ result.latest.sequence[1] <= latest[result.attempted.resource][1]

(* Of a call whose results are taken in: its leases and their results are  *)
(* such, and the results that were taken are settled.                      *)
Taking(c) ==
  LET k == calls[c]
      settled == k.outcome \in {"ok", "leaseUse", "status"} IN
  k.rpc \notin Deaf =>
    /\ k.stage \in {"sending", "answered"} => \A i \in DOMAIN k.leases : Fits(k.leases[i])
    /\ k.stage = "answered" \/ settled =>
         \A i \in DOMAIN k.answer.results :
           /\ Sound(k.answer.results[i])
           /\ settled \/ i <= k.taken => Settles(k.answer.results[i])

(* The places of r in the lists of leases that calls are still to attach. *)
Places(todo, r) == {i \in DOMAIN todo : todo[i] = r}

Asked(f, r) == UNION {{c} \X Places(f[c].todo, r) : c \in Calls}

(* The clocks have room for the leases that are still to be attached. *)
Roomy(r) ==
  /\ IsFiniteSet(Asked(calls, r))
  /\ wallet[r] # NoLease /\ r \notin torn =>
       wallet[r].proto.sequence[Len(wallet[r].proto.sequence)] + Claims(r) <= MaxUse[r]

CallsInv ==
  /\ CallsTypeOK
  /\ \A c \in Calls : Stage(c)
  /\ \A c \in Calls : Honest(c)
  /\ \A c \in Calls : Lending(c)
  /\ \A r \in Resources : Rooted(r)
  /\ \A r \in Resources : Ranked(r)
  /\ \A r \in Resources : Roomy(r)
  /\ \A c \in Calls : Taking(c)

(* A call has a copy of the lease that it is about to attach, or of the    *)
(* one that the next of its results tells of.                              *)
Bears(c) ==
  LET k == calls[c]  r == held[c].proto.resource IN
  \/ k.stage = "sending" /\ k.todo # <<>> /\ r = Head(k.todo) /\ IsSelfOwned(held[c])
  \/ /\ k.stage = "answered" /\ k.answer.header /\ k.answer.whole
     /\ Len(Passed(c)) > k.taken
     /\ r = NextResult(c).attempted.resource

(* The copy begins with a number that the robot has granted, and the lease *)
(* of auto return outranks it as it does that of the wallet.               *)
Holding(c) ==
  LET l == held[c]  r == held[c].proto.resource IN
  l # NoLease =>
    /\ Bears(c)
    /\ r \in Resources
    /\ Len(l.proto.sequence) \in {2, 3}
    /\ l.proto.sequence[1] <= latest[r][1]
    /\ Outranked(l, r)

CopiesInv ==
  /\ CopiesTypeOK
  /\ \A c \in Calls : Holding(c)

-----------------------------------------------------------------------------
(* What the wallet's operations do *)

(* What the queries of the wallet read. *)
LEMMA WalletReads ==
  /\ \A r : Wallet!InWallet(r) <=> wallet[r] # NoLease
  /\ \A r : Wallet!Owned(r) <=> wallet[r] # NoLease /\ IsSelfOwned(wallet[r])
  BY DEF Wallet!InWallet, Wallet!Owned, Wallet!IsSelfOwned, IsSelfOwned

(* To add a lease stores a sublease of it. *)
LEMMA WalletAdds ==
  ASSUME NEW r, NEW l, IsSelfOwned(l), Wallet!AddLease(r, l, TRUE)
  PROVE  wallet' = [wallet EXCEPT ![r] = LeaseOf(CreateSublease(l.proto))]
  BY DEF Wallet!AddLease, Wallet!Put, Wallet!Entry, Wallet!LeaseOf, Wallet!IsSelfOwned,
         Wallet!CreateSublease, LeaseOf, IsSelfOwned, CreateSublease

(* What an operation stores replaces the entry, which is torn unless it is *)
(* the one that was copied.                                                *)
LEMMA StoreMeaning ==
  ASSUME NEW c, NEW r, NEW l, Store(c, r, l)
  PROVE  /\ wallet' = [wallet EXCEPT ![r] = l]
         /\ held' = [held EXCEPT ![c] = NoLease]
         /\ \/ wallet[r] = held[c] /\ torn' = torn
            \/ torn' = torn \cup {r} /\ wallet[r] # held[c]
  BY DEF Store, Wallet!AddLease, Wallet!Put, Wallet!Entry

-----------------------------------------------------------------------------
(* Types of the values that the actions write *)

(* A call that is not made is a call. *)
LEMMA FreeType == Free \in Call
  <1>1. /\ <<>> \in Seq(Resources) /\ <<>> \in Seq(Valid) /\ <<>> \in Seq(Told)
        /\ 0 \in Nat
    OBVIOUS
  <1> QED
    BY <1>1 DEF Free, NoAnswer, Call, AnswerType, Stages, Outcomes, Kinds, Entries

(* What the program plans is a call of the table, with leases it asks for. *)
LEMMA StubType ==
  ASSUME NEW plan \in Plans
  PROVE  /\ plan.rpc \in Rpcs
         /\ plan.stub = Stub(plan.rpc)
         /\ plan.stub \in Kinds
         /\ plan.wanted \in Wanted(plan.rpc)
  <1>1. PICK rpc \in Chosen :
          plan \in {[rpc |-> rpc, stub |-> Stub(rpc), wanted |-> rs] : rs \in Wanted(rpc)}
    BY DEF Plans
  <1>2. PICK rs \in Wanted(rpc) : plan = [rpc |-> rpc, stub |-> Stub(rpc), wanted |-> rs]
    BY <1>1
  <1>3. rpc \in Rpcs
    BY CallsAssumption
  <1> QED
    BY <1>2, <1>3 DEF Kinds

(* The leases a plan asks for are of resources, none for a call without    *)
(* leases.                                                                 *)
LEMMA WantedType ==
  ASSUME NEW plan \in Plans
  PROVE  /\ plan.wanted \in Seq(Resources)
         /\ plan.stub.lease = "none" => plan.wanted = <<>>
  <1>1. /\ plan.rpc \in Rpcs /\ plan.stub = Stub(plan.rpc)
        /\ plan.wanted \in Wanted(plan.rpc)
    BY StubType
  <1> DEFINE s == Stub(plan.rpc)
  <1>2. Regular(s, plan.rpc)
    BY <1>1, StubsRegular
  <1>3. /\ Body \in Resources
        /\ \A n \in 1 .. MaxChunks : [i \in 1 .. n |-> Body] \in Seq(Resources)
        /\ <<Body>> \in Seq(Resources)
        /\ Lists \subseteq Seq(Resources)
    BY CallsAssumption, BoundsAssumption
  <1>4. CASE s.lease = "none"
    <2>1. s.kind # "requests"
      BY <1>2, <1>4 DEF Regular
    <2>2. Wanted(plan.rpc) = {<<>>}
      BY <1>4, <2>1 DEF Wanted
    <2>3. plan.wanted = <<>>
      BY <1>1, <2>2, Zenon
    <2> QED
      BY <2>3
  <1>5. CASE s.lease = "one" /\ s.kind = "requests"
    <2>1. Wanted(plan.rpc) \subseteq Seq(Resources)
      BY <1>3, <1>5 DEF Wanted
    <2> QED
      BY <1>1, <1>5, <2>1
  <1>6. CASE s.lease = "one" /\ s.kind # "requests"
    <2>1. Wanted(plan.rpc) \subseteq Seq(Resources)
      BY <1>3, <1>6 DEF Wanted
    <2> QED
      BY <1>1, <1>6, <2>1
  <1>7. CASE s.lease = "many"
    <2>1. s.kind # "requests"
      BY <1>2, <1>7 DEF Regular
    <2>2. Wanted(plan.rpc) = Lists
      BY <1>7, <2>1 DEF Wanted
    <2> QED
      BY <1>1, <1>3, <1>7, <2>2
  <1> QED
    BY <1>2, <1>4, <1>5, <1>6, <1>7 DEF Regular

-----------------------------------------------------------------------------
(* The robot's side *)

(* There is one epoch here: leases differ in their sequences only. *)
LEMMA EpochsAlike ==
  /\ \A p, q \in LeaseProto : p.epoch = q.epoch
  /\ (CHOOSE e \in Epochs : TRUE) \in Epochs
  <1>1. PICK first \in Epochs : Epochs = {first}
    BY CallsAssumption
  <1> QED
    BY <1>1 DEF LeaseProto

(* A valid lease, by its parts. *)
LEMMA ValidParts ==
  ASSUME NEW p \in Valid
  PROVE  /\ p \in LeaseProto /\ IsValid(p)
         /\ p.resource \in Resources
         /\ p.sequence \in Clock /\ p.sequence # <<>>
         /\ Len(p.sequence) \in Nat \ {0}
         /\ p.sequence[1] \in Nat
  <1>1. p \in LeaseProto /\ IsValid(p)
    BY DEF Valid
  <1>2. p.sequence \in Clock /\ p.sequence # <<>> /\ p.resource \in Resources
    BY <1>1 DEF LeaseProto, IsValid, Clock
  <1>3. Len(p.sequence) \in Nat \ {0}
    BY <1>2, EmptySeq DEF Clock
  <1>4. p.sequence[1] \in Nat
    BY <1>2, <1>3, ClockNumbers
  <1> QED
    BY <1>1, <1>2, <1>3, <1>4

(* The latest lease of a resource is a valid one of that resource. *)
LEMMA LatestClock ==
  ASSUME CallsTypeOK, NEW r \in Resources
  PROVE  /\ latest[r] \in Clock /\ latest[r] # <<>>
         /\ Len(latest[r]) \in Nat \ {0}
         /\ latest[r][1] \in Nat
         /\ LatestProto(r) \in Valid
         /\ LatestProto(r).resource = r
         /\ LatestProto(r).sequence = latest[r]
  <1>1. latest[r] \in Clock /\ latest[r] # <<>>
    BY DEF CallsTypeOK
  <1>2. Len(latest[r]) \in Nat \ {0}
    BY <1>1, EmptySeq DEF Clock
  <1>3. latest[r][1] \in Nat
    BY <1>1, <1>2, ClockNumbers
  <1>4. /\ LatestProto(r) \in Valid
        /\ LatestProto(r).resource = r
        /\ LatestProto(r).sequence = latest[r]
    BY <1>1, EpochsAlike, NoResourceAssumption
    DEF LatestProto, Valid, LeaseProto, IsValid, Clock
  <1> QED
    BY <1>1, <1>2, <1>3, <1>4

(* What the robot grants is a valid lease of one number, the next. *)
LEMMA GrantType ==
  ASSUME CallsTypeOK, NEW r \in Resources, latest[r][1] < MaxRoot[r]
  PROVE  /\ Grant(r) \in Valid
         /\ Grant(r).resource = r
         /\ Grant(r).sequence = <<latest[r][1] + 1>>
  <1>1. latest[r][1] \in Nat
    BY LatestClock
  <1>2. latest[r][1] + 1 \in SeqNumber
    BY <1>1, BoundsAssumption, SeqModAssumption DEF SeqNumber
  <1>3. <<latest[r][1] + 1>> \in Seq(SeqNumber) /\ <<latest[r][1] + 1>> # <<>>
    BY <1>2
  <1> QED
    BY <1>3, EpochsAlike, NoResourceAssumption
    DEF Grant, LatestProto, Valid, LeaseProto, IsValid

(* Clocks of leases of one resource are compared number by number. *)
LEMMA OlderMeansBefore ==
  ASSUME NEW p \in Valid, NEW q \in Valid, p.resource = q.resource
  PROVE  /\ Compare(p, q) = "OLDER" <=> Before(p.sequence, q.sequence)
         /\ Compare(p, q) = "NEWER" <=> Before(q.sequence, p.sequence)
         /\ Compare(p, q) = "SAME" <=> p.sequence = q.sequence
  <1>1. /\ p \in LeaseProto /\ q \in LeaseProto /\ IsValid(p) /\ IsValid(q)
        /\ p.epoch = q.epoch
        /\ p.sequence \in Clock /\ q.sequence \in Clock
    BY ValidParts, EpochsAlike
  <1>2. /\ Compare(p, q) = "OLDER" <=> Before(p.sequence, q.sequence)
        /\ Compare(p, q) = "NEWER" <=> Before(q.sequence, p.sequence)
        /\ Compare(p, q) = "SAME" <=> p = q
    BY <1>1, CompareMeaning
  <1>3. p = q <=> p.sequence = q.sequence
    BY <1>1 DEF LeaseProto
  <1> QED
    BY <1>2, <1>3

(* The first number decides if it differs. *)
LEMMA FirstNumberDecides ==
  ASSUME NEW s \in Clock, NEW t \in Clock, s # <<>>, t # <<>>, s[1] < t[1]
  PROVE  Before(s, t)
  <1>1. Len(s) \in Nat \ {0} /\ Len(t) \in Nat \ {0}
    BY EmptySeq DEF Clock
  <1>2. 1 \in 1 .. Shorter(s, t)
    BY <1>1 DEF Shorter
  <1>3. \A j \in 1 .. 1 - 1 : s[j] = t[j]
    OBVIOUS
  <1> QED
    BY <1>2, <1>3 DEF Before

(* The robot honours no lease of an earlier grant than the latest. *)
LEMMA VerdictMeaning ==
  ASSUME CallsTypeOK, NEW p \in Valid
  PROVE  /\ UseVerdict(p) \in {"OK", "OLDER", "REVOKED"}
         /\ UseVerdict(p) = "OK" => latest[p.resource][1] <= p.sequence[1]
  <1> DEFINE r == p.resource
  <1>1. /\ r \in Resources /\ p.sequence \in Clock /\ p.sequence # <<>>
        /\ p.sequence[1] \in Nat
    BY ValidParts
  <1>2. /\ LatestProto(r) \in Valid /\ LatestProto(r).resource = r
        /\ LatestProto(r).sequence = latest[r]
        /\ latest[r] \in Clock /\ latest[r] # <<>> /\ latest[r][1] \in Nat
    BY <1>1, LatestClock
  <1>3. Compare(p, LatestProto(r)) = "OLDER" <=> Before(p.sequence, latest[r])
    BY <1>1, <1>2, OlderMeansBefore
  <1>4. UseVerdict(p) = "OK" => ~Before(p.sequence, latest[r])
    BY <1>3 DEF UseVerdict
  <1>5. p.sequence[1] < latest[r][1] => Before(p.sequence, latest[r])
    BY <1>1, <1>2, FirstNumberDecides
  <1>6. UseVerdict(p) \in {"OK", "OLDER", "REVOKED"}
    BY DEF UseVerdict
  <1> QED
    BY <1>1, <1>2, <1>4, <1>5, <1>6

(* What the robot has seen once a request is served is no older than       *)
(* before.                                                                 *)
LEMMA LatestType ==
  ASSUME CallsTypeOK, NEW leases \in Seq(Valid)
  PROVE  /\ Latest(leases) \in [Resources -> Clock \ {<<>>}]
         /\ \A r \in Resources : latest[r][1] <= Latest(leases)[r][1]
  <1> SUFFICES ASSUME NEW r \in Resources
               PROVE  /\ Latest(leases)[r] \in Clock \ {<<>>}
                      /\ latest[r][1] <= Latest(leases)[r][1]
    BY DEF Latest
  <1>1. /\ latest[r] \in Clock \ {<<>>}
        /\ latest[r][1] \in Nat
    BY LatestClock
  <1>2. CASE Accepted(leases, r) = {}
    <2>1. Latest(leases)[r] = latest[r]
      BY <1>2 DEF Latest
    <2> QED
      BY <1>1, <2>1
  <1>3. CASE Accepted(leases, r) # {}
    <2>1. PICK top \in Accepted(leases, r) : \A j \in Accepted(leases, r) : j <= top
      <3>1. /\ Accepted(leases, r) \subseteq 1 .. Len(leases)
            /\ Len(leases) \in Nat
        BY DEF Accepted
      <3> DEFINE T == {Len(leases) - j : j \in Accepted(leases, r)}
      <3>2. T \subseteq Nat /\ T # {}
        BY <1>3, <3>1
      <3>3. PICK x \in T : \A y \in T : x <= y
        BY <3>2, LeastNatural
      <3>4. PICK j \in Accepted(leases, r) : x = Len(leases) - j
        BY <3>3
      <3>5. \A h \in Accepted(leases, r) : Len(leases) - j <= Len(leases) - h
        BY <3>3, <3>4
      <3> QED
        BY <3>1, <3>4, <3>5
    <2> DEFINE last == CHOOSE i \in Accepted(leases, r) :
                         \A j \in Accepted(leases, r) : j <= i
    <2>2. last \in Accepted(leases, r)
      BY <2>1
    <2>3. Latest(leases)[r] = leases[last].sequence
      BY <1>3 DEF Latest
    <2>4. /\ leases[last] \in Valid
          /\ leases[last].resource = r
          /\ UseVerdict(leases[last]) = "OK"
      BY <2>2 DEF Accepted
    <2>5. /\ leases[last].sequence \in Clock /\ leases[last].sequence # <<>>
          /\ latest[r][1] <= leases[last].sequence[1]
      BY <2>4, ValidParts, VerdictMeaning
    <2> QED
      BY <2>3, <2>5
  <1> QED
    BY <1>2, <1>3

(* A result tells of the lease that was sent and of the robot's latest. *)
LEMMA UseResultType ==
  ASSUME CallsTypeOK, NEW p \in Valid, NEW known \in [Resources -> Clock \ {<<>>}]
  PROVE  LET result == UseResult(p, known) IN
         /\ result \in Told
         /\ result.status = UseVerdict(p)
         /\ result.status \in {"OK", "OLDER", "REVOKED"}
         /\ result.attempted = p
         /\ result.latest \in Valid
         /\ result.latest.resource = p.resource
         /\ result.latest.sequence = known[p.resource]
  <1>1. p.resource \in Resources /\ p \in LeaseProto
    BY ValidParts
  <1>2. /\ LatestProto(p.resource) \in LeaseProto
        /\ LatestProto(p.resource).resource = p.resource
    BY <1>1, LatestClock, ValidParts
  <1>3. known[p.resource] \in Seq(SeqNumber) /\ known[p.resource] # <<>>
    BY <1>1 DEF Clock
  <1> DEFINE q == [LatestProto(p.resource) EXCEPT !.sequence = known[p.resource]]
  <1>4. /\ q \in LeaseProto /\ IsValid(q)
        /\ q.resource = p.resource /\ q.sequence = known[p.resource]
    BY <1>1, <1>2, <1>3, NoResourceAssumption DEF LeaseProto, IsValid
  <1>5. UseVerdict(p) \in {"OK", "OLDER", "REVOKED"}
    BY VerdictMeaning
  <1>6. UseResult(p, known) = [status |-> UseVerdict(p), attempted |-> p, latest |-> q]
    BY DEF UseResult
  <1> HIDE DEF q
  <1>7. UseVerdict(p) \in UseStatus
    BY <1>5 DEF UseStatus
  <1> QED
    BY <1>1, <1>4, <1>5, <1>6, <1>7 DEF Told, LeaseUseResult, Valid

(* The robot returns use results of the leases it was sent, and if it      *)
(* refuses one of them, a result says so.                                  *)
LEMMA ResultsType ==
  ASSUME CallsTypeOK, NEW leases \in Seq(Valid), NEW s, NEW results \in Results(leases, s)
  PROVE  /\ results \in Seq(Told)
         /\ leases = <<>> => results = <<>>
         /\ \A i \in DOMAIN results :
              \E j \in DOMAIN leases : results[i] = UseResult(leases[j], Latest(leases))
         /\ (\E j \in DOMAIN leases : UseVerdict(leases[j]) # "OK")
              => \E i \in DOMAIN results : results[i].status # "OK"
  <1> DEFINE all == [i \in DOMAIN leases |-> UseResult(leases[i], Latest(leases))]
             refused == {i \in DOMAIN leases : UseVerdict(leases[i]) # "OK"}
  <1>1. /\ DOMAIN leases = 1 .. Len(leases) /\ Len(leases) \in Nat
        /\ \A i \in DOMAIN leases : leases[i] \in Valid
    OBVIOUS
  <1>2. \A i \in DOMAIN leases :
          /\ UseResult(leases[i], Latest(leases)) \in Told
          /\ UseResult(leases[i], Latest(leases)).status = UseVerdict(leases[i])
    BY <1>1, LatestType, UseResultType
  <1>3. CASE leases = <<>>
    <2>1. results = <<>>
      BY <1>3 DEF Results
    <2>2. DOMAIN leases = {}
      BY <1>1, <1>3
    <2> QED
      BY <1>3, <2>1, <2>2
  <1>4. CASE leases # <<>> /\ s.lease = "many"
    <2>1. results = all
      BY <1>4 DEF Results
    <2>2. all \in Seq(Told)
      BY <1>1, <1>2
    <2>3. DOMAIN all = DOMAIN leases
      OBVIOUS
    <2> QED
      BY <1>1, <1>2, <1>4, <2>1, <2>2, <2>3
  <1>5. CASE leases # <<>> /\ s.lease # "many"
    <2>1. PICK i \in IF refused = {} THEN {Len(leases)} ELSE refused : results = <<all[i]>>
      BY <1>5 DEF Results
    <2>2. i \in DOMAIN leases
      BY <1>1, <1>5, <2>1, EmptySeq
    <2>3. refused # {} => UseVerdict(leases[i]) # "OK"
      BY <2>1
    <2>4. all[i] = UseResult(leases[i], Latest(leases))
      BY <2>2
    <2>5. results \in Seq(Told) /\ DOMAIN results = {1} /\ results[1] = all[i]
      BY <1>2, <2>1, <2>2, <2>4
    <2> HIDE DEF all
    <2> QED
      BY <1>2, <1>5, <2>2, <2>3, <2>4, <2>5
  <1> QED
    BY <1>3, <1>4, <1>5

-----------------------------------------------------------------------------
(* The leases that are still to be attached, counted *)

(* What is still asked for of a resource: places in the lists of calls. *)
LEMMA AskedMeaning ==
  ASSUME NEW f, NEW r, NEW x
  PROVE  x \in Asked(f, r) <=>
           \E c \in Calls : \E i \in Places(f[c].todo, r) : x = <<c, i>>
  BY DEF Asked

(* The claims on a resource count those places. *)
LEMMA ClaimsCounts ==
  /\ \A r : Claims(r) = Cardinality(Asked(calls, r))
  /\ \A r : Occurrences(<<>>, r) = 0
  /\ \A rs, r : Occurrences(rs, r) = Cardinality(Places(rs, r))
  <1>1. \A r : Claims(r) = Cardinality(Asked(calls, r))
    BY DEF Claims, Asked, Places
  <1>2. \A rs, r : Occurrences(rs, r) = Cardinality(Places(rs, r))
    BY DEF Occurrences, Places
  <1>3. \A r : Places(<<>>, r) = {}
    BY DEF Places
  <1> QED
    BY <1>1, <1>2, <1>3, FS_EmptySet

(* Calls that ask for the same. *)
LEMMA AskedSame ==
  ASSUME NEW f, NEW g, NEW r, \A c \in Calls : g[c].todo = f[c].todo
  PROVE  Asked(g, r) = Asked(f, r)
  <1>1. ASSUME NEW x \in Asked(g, r)
        PROVE  x \in Asked(f, r)
    <2>1. PICK c \in Calls : \E i \in Places(g[c].todo, r) : x = <<c, i>>
      BY AskedMeaning
    <2> QED
      BY <2>1, AskedMeaning
  <1>2. ASSUME NEW x \in Asked(f, r)
        PROVE  x \in Asked(g, r)
    <2>1. PICK c \in Calls : \E i \in Places(f[c].todo, r) : x = <<c, i>>
      BY AskedMeaning
    <2> QED
      BY <2>1, AskedMeaning
  <1> QED
    BY <1>1, <1>2

(* A call that asks for nothing more. *)
LEMMA AskedLess ==
  ASSUME NEW f, NEW g, NEW r, IsFiniteSet(Asked(f, r)),
         \A c \in Calls : g[c].todo = f[c].todo \/ g[c].todo = <<>>
  PROVE  /\ IsFiniteSet(Asked(g, r))
         /\ Cardinality(Asked(g, r)) <= Cardinality(Asked(f, r))
         /\ Cardinality(Asked(g, r)) \in Nat /\ Cardinality(Asked(f, r)) \in Nat
  <1>1. Asked(g, r) \subseteq Asked(f, r)
    <2> SUFFICES ASSUME NEW x \in Asked(g, r)
                 PROVE  x \in Asked(f, r)
      OBVIOUS
    <2>1. PICK c \in Calls : \E i \in Places(g[c].todo, r) : x = <<c, i>>
      BY AskedMeaning
    <2>2. g[c].todo = f[c].todo
      BY <2>1 DEF Places
    <2> QED
      BY <2>1, <2>2, AskedMeaning
  <1> QED
    BY <1>1, FS_Subset, FS_CardinalityType

(* A call that begins to ask for rs. *)
LEMMA AskedMore ==
  ASSUME NEW f, NEW g, NEW r, IsFiniteSet(Asked(f, r)),
         NEW c \in Calls, NEW rs \in Seq(Resources),
         f[c].todo = <<>>, g[c].todo = rs,
         \A d \in Calls \ {c} : g[d].todo = f[d].todo
  PROVE  /\ IsFiniteSet(Asked(g, r))
         /\ Cardinality(Asked(g, r)) <= Cardinality(Asked(f, r)) + Occurrences(rs, r)
         /\ Cardinality(Asked(g, r)) \in Nat /\ Cardinality(Asked(f, r)) \in Nat
         /\ Occurrences(rs, r) \in Nat
  <1> DEFINE P == Places(rs, r)
             h == [i \in P |-> <<c, i>>]
  <1>1. IsFiniteSet(P)
    <2>1. P \subseteq 1 .. Len(rs) /\ Len(rs) \in Nat
      BY DEF Places
    <2>2. IsFiniteSet(1 .. Len(rs))
      BY <2>1, FS_Interval
    <2> HIDE DEF P
    <2> QED
      BY <2>1, <2>2, FS_Subset
  <1>2. h \in Surjection(P, {c} \X P)
    <2> HIDE DEF P
    <2>1. h \in [P -> {c} \X P]
      OBVIOUS
    <2>2. ASSUME NEW t \in {c} \X P
          PROVE  \E i \in P : h[i] = t
      <3>1. PICK i \in P : t = <<c, i>>
        OBVIOUS
      <3> QED
        BY <3>1
    <2> HIDE DEF h
    <2> QED
      BY <2>1, <2>2, Zenon DEF Surjection
  <1> HIDE DEF P
  <1>3. IsFiniteSet({c} \X P) /\ Cardinality({c} \X P) <= Cardinality(P)
    BY <1>1, <1>2, FS_Surjection
  <1>4. Asked(g, r) = Asked(f, r) \cup ({c} \X P)
    <2>1. ASSUME NEW x \in Asked(g, r)
          PROVE  x \in Asked(f, r) \cup ({c} \X P)
      <3>1. PICK d \in Calls : \E i \in Places(g[d].todo, r) : x = <<d, i>>
        BY AskedMeaning
      <3>2. CASE d = c
        BY <3>1, <3>2 DEF P
      <3>3. CASE d # c
        BY <3>1, <3>3, AskedMeaning
      <3> QED
        BY <3>2, <3>3
    <2>2. ASSUME NEW x \in Asked(f, r)
          PROVE  x \in Asked(g, r)
      <3>1. PICK d \in Calls : \E i \in Places(f[d].todo, r) : x = <<d, i>>
        BY AskedMeaning
      <3>2. d # c
        BY <3>1 DEF Places
      <3> QED
        BY <3>1, <3>2, AskedMeaning
    <2>3. ASSUME NEW x \in {c} \X P
          PROVE  x \in Asked(g, r)
      BY AskedMeaning DEF P
    <2> QED
      BY <2>1, <2>2, <2>3
  <1>5. Occurrences(rs, r) = Cardinality(P)
    BY ClaimsCounts DEF P
  <1>6. /\ Cardinality(P) \in Nat
        /\ Cardinality({c} \X P) \in Nat
        /\ Cardinality(Asked(f, r)) \in Nat
        /\ Cardinality(Asked(f, r) \cap ({c} \X P)) \in Nat
    BY <1>1, <1>3, FS_CardinalityType, FS_Subset
  <1>7. /\ IsFiniteSet(Asked(g, r))
        /\ Cardinality(Asked(g, r)) =
             Cardinality(Asked(f, r)) + Cardinality({c} \X P)
               - Cardinality(Asked(f, r) \cap ({c} \X P))
    BY <1>3, <1>4, FS_Union
  <1>8. Cardinality(Asked(g, r)) \in Nat
    BY <1>7, FS_CardinalityType
  <1> QED
    BY <1>3, <1>5, <1>6, <1>7, <1>8

(* A call that has got the first lease it asked for. *)
LEMMA AskedNext ==
  ASSUME NEW f, NEW g, NEW r, IsFiniteSet(Asked(f, r)),
         NEW c \in Calls,
         \A d \in Calls : f[d].todo \in Seq(Resources),
         f[c].todo # <<>>, g[c].todo = Tail(f[c].todo),
         \A d \in Calls \ {c} : g[d].todo = f[d].todo
  PROVE  /\ IsFiniteSet(Asked(g, r))
         /\ Cardinality(Asked(g, r)) <= Cardinality(Asked(f, r))
         /\ r = Head(f[c].todo) => Cardinality(Asked(g, r)) + 1 <= Cardinality(Asked(f, r))
         /\ Cardinality(Asked(g, r)) \in Nat /\ Cardinality(Asked(f, r)) \in Nat
  <1> DEFINE S == Asked(f, r)
             first == <<c, 1>>
             T == S \ {first}
             h == [x \in Asked(g, r) |-> IF x[1] = c THEN <<c, x[2] + 1>> ELSE x]
             todo == f[c].todo
  <1>1. /\ Len(todo) \in Nat \ {0}
        /\ Len(Tail(todo)) = Len(todo) - 1
        /\ \A i \in 1 .. Len(todo) - 1 : Tail(todo)[i] = todo[i + 1]
        /\ Head(todo) = todo[1]
        /\ DOMAIN Tail(todo) = 1 .. Len(todo) - 1
    BY EmptySeq
  <1>2. ASSUME NEW x \in Asked(g, r)
        PROVE  /\ h[x] \in T
               /\ x = <<x[1], x[2]>> /\ x[2] \in Nat
               /\ h[x][1] = x[1]
               /\ h[x][2] = IF x[1] = c THEN x[2] + 1 ELSE x[2]
    <2>1. PICK d \in Calls : \E i \in Places(g[d].todo, r) : x = <<d, i>>
      BY AskedMeaning
    <2>2. PICK i \in Places(g[d].todo, r) : x = <<d, i>>
      BY <2>1
    <2>3. CASE d = c
      <3>1. i \in 1 .. Len(todo) - 1 /\ todo[i + 1] = r
        BY <1>1, <2>2, <2>3 DEF Places
      <3>2. h[x] = <<c, i + 1>>
        BY <2>2, <2>3
      <3>3. i + 1 \in Places(todo, r)
        BY <1>1, <3>1 DEF Places
      <3>4. <<c, i + 1>> \in S
        BY <3>3, AskedMeaning
      <3>5. <<c, i + 1>> # first
        BY <3>1
      <3>6. h[x] \in T
        BY <3>2, <3>4, <3>5
      <3> HIDE DEF h, T, S, first, todo
      <3> QED
        BY <2>2, <2>3, <3>1, <3>2, <3>6
    <2>4. CASE d # c
      <3>1. h[x] = x
        BY <2>2, <2>4
      <3>2. x \in S
        BY <2>2, <2>4, AskedMeaning
      <3>3. x # first
        BY <2>2, <2>4
      <3>4. i \in Nat
        <4>1. f[d].todo \in Seq(Resources) /\ i \in DOMAIN f[d].todo
          BY <2>2, <2>4 DEF Places
        <4> QED
          BY <4>1
      <3> QED
        BY <2>2, <2>4, <3>1, <3>2, <3>3, <3>4
    <2> QED
      BY <2>3, <2>4
  <1>3. h \in Injection(Asked(g, r), T)
    <2>1. h \in [Asked(g, r) -> T]
      BY <1>2
    <2>2. ASSUME NEW x \in Asked(g, r), NEW y \in Asked(g, r), h[x] = h[y]
          PROVE  x = y
      <3> HIDE DEF h, T
      <3>1. x[1] = y[1] /\ x[2] = y[2]
        BY <1>2, <2>2
      <3> QED
        BY <1>2, <3>1
    <2> HIDE DEF h, T
    <2> QED
      BY <2>1, <2>2 DEF Injection, IsInjective
  <1>4. /\ IsFiniteSet(T)
        /\ Cardinality(T) <= Cardinality(S)
        /\ first \in S => Cardinality(T) = Cardinality(S) - 1
        /\ Cardinality(S) \in Nat /\ Cardinality(T) \in Nat
    <2>1. IsFiniteSet(S)
      OBVIOUS
    <2>2. Cardinality(S) \in Nat
      BY <2>1, FS_CardinalityType
    <2> HIDE DEF S, first
    <2>3. /\ IsFiniteSet(S \ {first})
          /\ Cardinality(S \ {first}) =
               IF first \in S THEN Cardinality(S) - 1 ELSE Cardinality(S)
      BY <2>1, FS_RemoveElement, Zenon
    <2>4. Cardinality(T) \in Nat
      BY <2>3, FS_CardinalityType
    <2> QED
      BY <2>2, <2>3, <2>4
  <1>5. /\ IsFiniteSet(Asked(g, r))
        /\ Cardinality(Asked(g, r)) <= Cardinality(T)
        /\ Cardinality(Asked(g, r)) \in Nat
    <2> HIDE DEF h, T
    <2> QED
      BY <1>3, <1>4, FS_Injection, FS_CardinalityType
  <1>6. r = Head(todo) => first \in S
    <2>1. r = Head(todo) => 1 \in Places(todo, r)
      BY <1>1 DEF Places
    <2> QED
      BY <2>1, AskedMeaning
  <1> HIDE DEF T, S, first, h
  <1>7. IsFiniteSet(Asked(g, r)) /\ Cardinality(Asked(g, r)) <= Cardinality(S)
    BY <1>4, <1>5
  <1>8. r = Head(todo) => Cardinality(Asked(g, r)) + 1 <= Cardinality(S)
    BY <1>4, <1>5, <1>6
  <1> QED
    BY <1>4, <1>5, <1>7, <1>8 DEF S

-----------------------------------------------------------------------------
(* Steps that change one call *)

(* What is said of leases and results depends on the wallet and the latest. *)
LEMMA ResultsKept ==
  ASSUME wallet' = wallet, latest' = latest, torn' = torn
  PROVE  /\ \A p : Fits(p) => Fits(p)'
         /\ \A result : Sound(result) => Sound(result)'
         /\ \A result : Settles(result) => Settles(result)'
  <1>1. \A p : Fits(p) => Fits(p)'
    BY DEF Fits, Since, Intact, Wallet!Owned, Wallet!InWallet
  <1>2. \A result : Sound(result) => Sound(result)'
    BY <1>1 DEF Sound
  <1>3. \A result : Settles(result) => Settles(result)'
    BY DEF Settles, Since, Intact, Wallet!Owned, Wallet!InWallet
  <1> QED
    BY <1>1, <1>2, <1>3

(* What is said of a call depends on it, on the wallet and on the latest.  *)
LEMMA SameCall ==
  ASSUME NEW c \in Calls, calls'[c] = calls[c], wallet' = wallet, latest' = latest,
         torn' = torn
  PROVE  /\ Stage(c) => Stage(c)'
         /\ Honest(c) => Honest(c)'
         /\ Taking(c) => Taking(c)'
  <1>1. Stage(c) => Stage(c)'
    BY DEF Stage
  <1>2. Honest(c) => Honest(c)'
    BY DEF Honest
  <1>3. Taking(c) => Taking(c)'
    BY ResultsKept DEF Taking
  <1> QED
    BY <1>1, <1>2, <1>3

(* So an action that changes one call has to be looked at there, in the    *)
(* count of leases, and where a call has lent a lease.                     *)
LEMMA LocalStep ==
  ASSUME CallsInv, NEW c \in Calls, NEW k \in Call, calls' = [calls EXCEPT ![c] = k],
         UNCHANGED <<wallet, latest, returns, torn>>, holder' \in [Resources -> BOOLEAN],
         Stage(c)', Honest(c)', Lending(c)', Taking(c)',
         \A d \in Calls \ {c} : calls[d].lent # NoLease => k.stage = "free",
         \A r \in Resources : Roomy(r)'
  PROVE  CallsInv'
  <1>1. /\ calls \in [Calls -> Call]
        /\ calls'[c] = k
        /\ \A d \in Calls \ {c} : calls'[d] = calls[d]
    BY DEF CallsInv, CallsTypeOK
  <1>2. CallsTypeOK'
    BY DEF CallsInv, CallsTypeOK
  <1>3. ASSUME NEW d \in Calls
        PROVE  Stage(d)' /\ Honest(d)' /\ Taking(d)'
    <2>1. Stage(d) /\ Honest(d) /\ Taking(d)
      BY DEF CallsInv
    <2> QED
      BY <1>1, <2>1, SameCall
  <1>4. ASSUME NEW d \in Calls
        PROVE  Lending(d)'
    <2>1. CASE d = c
      BY <2>1
    <2>2. CASE d # c
      <3>1. Lending(d) /\ calls'[d] = calls[d] /\ calls'[c].stage = k.stage
        BY <1>1, <2>2 DEF CallsInv
      <3>2. calls[d].lent # NoLease => \A e \in Calls \ {d} : calls'[e].stage = "free"
        BY <1>1, <2>2, <3>1 DEF Lending
      <3> QED
        BY <3>1, <3>2 DEF Lending
    <2> QED
      BY <2>1, <2>2
  <1>5. \A r \in Resources : Rooted(r)' /\ Ranked(r)'
    BY DEF CallsInv, Rooted, Ranked
  <1> QED
    BY <1>2, <1>3, <1>4, <1>5 DEF CallsInv

(* A call that asks for nothing more leaves the others their room. *)
LEMMA RoomKept ==
  ASSUME CallsInv, NEW c \in Calls, wallet' = wallet, torn' = torn,
         \A d \in Calls \ {c} : calls'[d].todo = calls[d].todo,
         calls'[c].todo \in {calls[c].todo, <<>>}
  PROVE  \A r \in Resources : Roomy(r)'
  <1> SUFFICES ASSUME NEW r \in Resources
               PROVE  Roomy(r)'
    OBVIOUS
  <1> DEFINE f == calls
             g == calls'
  <1>1. /\ IsFiniteSet(Asked(f, r))
        /\ wallet[r] # NoLease /\ r \notin torn =>
             wallet[r].proto.sequence[Len(wallet[r].proto.sequence)] + Claims(r) <= MaxUse[r]
    BY DEF CallsInv, Roomy
  <1>2. \A d \in Calls : g[d].todo = f[d].todo \/ g[d].todo = <<>>
    OBVIOUS
  <1> HIDE DEF f, g
  <1>3. /\ IsFiniteSet(Asked(g, r))
        /\ Cardinality(Asked(g, r)) <= Cardinality(Asked(f, r))
        /\ Cardinality(Asked(g, r)) \in Nat /\ Cardinality(Asked(f, r)) \in Nat
    BY <1>1, <1>2, AskedLess
  <1>4. Claims(r) = Cardinality(Asked(f, r)) /\ Claims(r)' = Cardinality(Asked(g, r))
    BY ClaimsCounts DEF f, g, Claims, Asked, Places
  <1>5. wallet[r] # NoLease =>
          /\ wallet[r].proto.sequence[Len(wallet[r].proto.sequence)] \in Nat
    <2>1. CASE wallet[r] # NoLease
      <3>1. wallet[r].proto \in Valid
        BY <2>1 DEF CallsInv, CallsTypeOK, Entries, Lease, Valid
      <3> QED
        BY <3>1, ValidParts, ClockNumbers
    <2> QED
      BY <2>1
  <1>6. MaxUse[r] \in Nat
    BY BoundsAssumption, SeqModAssumption
  <1>7. wallet[r] # NoLease /\ r \notin torn =>
          wallet[r].proto.sequence[Len(wallet[r].proto.sequence)] + Claims(r)' <= MaxUse[r]
    <2> DEFINE last == wallet[r].proto.sequence[Len(wallet[r].proto.sequence)]
               less == Claims(r)'
    <2>1. less \in Nat /\ Claims(r) \in Nat /\ less <= Claims(r)
      BY <1>3, <1>4
    <2>2. wallet[r] # NoLease /\ r \notin torn => last \in Nat /\ last + Claims(r) <= MaxUse[r]
      BY <1>1, <1>5
    <2> HIDE DEF last, less
    <2>3. wallet[r] # NoLease /\ r \notin torn => last + less <= MaxUse[r]
      BY <1>6, <2>1, <2>2
    <2> QED
      BY <2>3 DEF last, less
  <1> QED
    BY <1>3, <1>7 DEF Roomy, f, g

(* A call that fails before it is sent keeps the invariant. *)
LEMMA FailKeeps ==
  ASSUME CallsInv, NEW c \in Calls, Fail(c), UNCHANGED <<wallet, robot, returns, torn>>,
         \A d \in Calls \ {c} : calls[d].lent = NoLease
  PROVE  CallsInv'
  <1> DEFINE k == [Free EXCEPT !.stage = "settled", !.outcome = "failed", !.lent = calls[c].lent]
  <1>1. calls \in [Calls -> Call] /\ calls[c] \in Call
    BY DEF CallsInv, CallsTypeOK
  <1>2. calls' = [calls EXCEPT ![c] = k]
    BY DEF Fail
  <1>3. /\ k.stage = "settled" /\ k.outcome = "failed" /\ k.lent = calls[c].lent
        /\ k.todo = <<>>
    BY DEF Free
  <1>4. k \in Call
    BY <1>1, FreeType DEF Call, Stages, Outcomes
  <1> HIDE DEF k
  <1>5. calls'[c] = k /\ \A d \in Calls \ {c} : calls'[d] = calls[d]
    BY <1>1, <1>2
  <1>6. Stage(c)' /\ Honest(c)' /\ Taking(c)'
    <2>1. Stage(c)'
      BY <1>3, <1>5 DEF Stage
    <2>2. Honest(c)'
      BY <1>3, <1>5 DEF Honest
    <2>3. Taking(c)'
      BY <1>3, <1>5 DEF Taking
    <2> QED
      BY <2>1, <2>2, <2>3
  <1>7. Lending(c)'
    <2>1. Lending(c)
      BY DEF CallsInv
    <2> QED
      BY <1>3, <1>5, <2>1 DEF Lending, robot
  <1>8. \A r \in Resources : Roomy(r)'
    BY <1>3, <1>5, RoomKept
  <1>9. holder' \in [Resources -> BOOLEAN] /\ UNCHANGED <<wallet, latest, returns, torn>>
    BY DEF CallsInv, CallsTypeOK, robot
  <1> QED
    BY <1>2, <1>4, <1>6, <1>7, <1>8, <1>9, LocalStep

(* No lease is lent while another call is under way. *)
LEMMA NothingLent ==
  ASSUME CallsInv, NEW c \in Calls
  PROVE  /\ calls[c].stage # "free" => \A d \in Calls \ {c} : calls[d].lent = NoLease
         /\ \A stub : Apart(stub) => \A d \in Calls : calls[d].lent = NoLease
  <1>1. \A d \in Calls : Lending(d) /\ Stage(d)
    BY DEF CallsInv
  <1>2. \A d \in Calls : calls[d].stage = "free" => calls[d].lent = NoLease
    BY <1>1 DEF Stage, Free
  <1> QED
    BY <1>1, <1>2 DEF Lending, Apart

(* Begin: the places of the leases a call wants are counted. *)
LEMMA BeginKeeps ==
  ASSUME CallsInv, NEW c \in Calls, NEW plan \in Plans, Begin(c, plan)
  PROVE  CallsInv'
  <1> DEFINE k == [Planned(plan) EXCEPT !.todo = plan.wanted]
             rs == plan.wanted
  <1>1. /\ plan.rpc \in Rpcs /\ plan.stub \in Kinds
        /\ plan.stub = Stub(plan.rpc)
        /\ rs \in Seq(Resources)
        /\ plan.stub.lease = "none" => rs = <<>>
        /\ Regular(plan.stub, plan.rpc)
    BY StubType, WantedType, StubsRegular
  <1>2. /\ k.stage = "sending" /\ k.rpc = plan.rpc /\ k.stub = plan.stub /\ k.todo = rs
        /\ k.leases = <<>> /\ k.answer = NoAnswer /\ k.taken = 0 /\ k.outcome = "none"
        /\ k.lent = NoLease
    BY DEF Planned, Free
  <1>3. k \in Call
    BY <1>1, FreeType DEF Planned, Call, Stages
  <1>4. calls' = [calls EXCEPT ![c] = k] /\ calls \in [Calls -> Call]
    BY DEF Begin, CallsInv, CallsTypeOK
  <1> HIDE DEF k, rs
  <1>5. calls'[c] = k /\ \A d \in Calls \ {c} : calls'[d] = calls[d]
    BY <1>3, <1>4
  <1>6. Stage(c)' /\ Honest(c)' /\ Taking(c)' /\ Lending(c)'
    <2>1. Stage(c)'
      BY <1>1, <1>2, <1>5 DEF Stage
    <2>2. Honest(c)'
      BY <1>1, <1>2, <1>5 DEF Honest, NoAnswer
    <2>3. Taking(c)'
      BY <1>2, <1>5 DEF Taking
    <2>4. Lending(c)'
      BY <1>2, <1>5 DEF Lending
    <2> QED
      BY <2>1, <2>2, <2>3, <2>4
  <1>7. \A d \in Calls : calls[d].lent = NoLease
    BY NothingLent DEF Begin
  <1>8. ASSUME NEW r \in Resources
        PROVE  Roomy(r)'
    <2> DEFINE f == calls
               g == calls'
    <2>1. Roomy(r)
      BY DEF CallsInv
    <2>2. f[c].todo = <<>>
      <3>1. Stage(c)
        BY DEF CallsInv
      <3> QED
        BY <3>1 DEF Begin, Stage
    <2>3. g[c].todo = rs /\ \A d \in Calls \ {c} : g[d].todo = f[d].todo
      BY <1>2, <1>5
    <2>4. Claims(r) = Cardinality(Asked(f, r)) /\ Claims(r)' = Cardinality(Asked(g, r))
      BY ClaimsCounts DEF Claims, Asked, Places
    <2>5. IsFiniteSet(Asked(f, r))
      BY <2>1 DEF Roomy
    <2> HIDE DEF f, g
    <2>6. /\ IsFiniteSet(Asked(g, r))
          /\ Cardinality(Asked(g, r)) <= Cardinality(Asked(f, r)) + Occurrences(rs, r)
          /\ Cardinality(Asked(g, r)) \in Nat /\ Cardinality(Asked(f, r)) \in Nat
          /\ Occurrences(rs, r) \in Nat
      BY <1>1, <2>2, <2>3, <2>5, AskedMore DEF rs
    <2>7. ASSUME wallet[r] # NoLease, r \notin torn
          PROVE  wallet[r].proto.sequence[Len(wallet[r].proto.sequence)] + Claims(r)'
                   <= MaxUse[r]
      <3> DEFINE n == wallet[r].proto.sequence[Len(wallet[r].proto.sequence)]
      <3>1. n \in Nat
        <4>1. wallet[r].proto \in Valid
          BY <2>7 DEF CallsInv, CallsTypeOK, Entries, Lease, Valid
        <4> QED
          BY <4>1, ValidParts, ClockNumbers
      <3>2. n + Claims(r) <= MaxUse[r]
        BY <2>1, <2>7 DEF Roomy
      <3>3. Occurrences(rs, r) > 0 => n + Claims(r) + Occurrences(rs, r) <= MaxUse[r]
        BY <2>7 DEF Begin, Room, rs, Wallet!InWallet
      <3>4. MaxUse[r] \in Nat
        BY BoundsAssumption, SeqModAssumption
      <3> HIDE DEF n
      <3>5. n + Claims(r)' <= MaxUse[r]
        BY <2>4, <2>6, <3>1, <3>2, <3>3, <3>4
      <3> QED
        BY <3>5 DEF n
    <2>8. wallet' = wallet /\ torn' = torn
      BY DEF Begin, copies
    <2> QED
      BY <2>6, <2>7, <2>8 DEF Roomy, g
  <1>9. holder' \in [Resources -> BOOLEAN] /\ UNCHANGED <<wallet, latest, returns, torn>>
    BY DEF Begin, CallsInv, CallsTypeOK, robot, copies
  <1> QED
    BY <1>3, <1>4, <1>6, <1>7, <1>8, <1>9, LocalStep

(* So does one that begins with its lease attached. *)
LEMMA BeginAttachedKeeps ==
  ASSUME CallsInv, NEW c \in Calls, NEW plan \in Plans, BeginAttached(c, plan)
  PROVE  CallsInv'
  <1> DEFINE k == [Planned(plan) EXCEPT !.leases = <<wallet[Body].proto>>]
             p == wallet[Body].proto
  <1>1. /\ plan.rpc \in Rpcs /\ plan.stub \in Kinds
        /\ Regular(plan.stub, plan.rpc)
        /\ plan.stub.lease = "none" /\ plan.stub.result # "none"
    BY StubType, StubsRegular DEF BeginAttached, GivenLease
  <1>2. Body \in Resources /\ wallet[Body] # NoLease
    BY CallsAssumption DEF BeginAttached, Wallet!InWallet
  <1>3. p \in Valid
    BY <1>2 DEF CallsInv, CallsTypeOK, Entries, Lease, Valid
  <1>4. p.resource = Body /\ p.sequence[1] <= latest[Body][1]
    BY <1>2 DEF CallsInv, Rooted
  <1>5. Since(p, Body)
    BY DEF Since
  <1>6. calls' = [calls EXCEPT ![c] = k] /\ calls \in [Calls -> Call]
    BY DEF BeginAttached, CallsInv, CallsTypeOK
  <1>7. UNCHANGED <<wallet, latest, holder, returns, torn>>
    BY DEF BeginAttached, robot, copies
  <1> HIDE DEF p
  <1>8. /\ k.stage = "sending" /\ k.rpc = plan.rpc /\ k.stub = plan.stub /\ k.todo = <<>>
        /\ k.leases = <<p>> /\ k.answer = NoAnswer /\ k.taken = 0 /\ k.outcome = "none"
        /\ k.lent = NoLease
    BY DEF Planned, Free, p
  <1>9. k \in Call
    <2>1. <<p>> \in Seq(Valid)
      BY <1>3
    <2> QED
      BY <1>1, <2>1, FreeType DEF Planned, Call, Stages, p
  <1> HIDE DEF k
  <1>10. calls'[c] = k /\ \A d \in Calls \ {c} : calls'[d] = calls[d]
    BY <1>6, <1>9
  <1>11. Stage(c)' /\ Honest(c)' /\ Taking(c)' /\ Lending(c)'
    <2>1. Stage(c)'
      BY <1>1, <1>8, <1>10 DEF Stage
    <2>2. Honest(c)'
      BY <1>1, <1>8, <1>10 DEF Honest
    <2>3. Taking(c)'
      <3>1. \A i \in DOMAIN k.leases : k.leases[i] = p
        BY <1>8
      <3>2. Since(p, Body)'
        BY <1>5, <1>7 DEF Since, Intact, Wallet!Owned, Wallet!InWallet, p
      <3>3. (p.sequence[1] <= latest[Body][1])' 
        BY <1>4, <1>7 DEF p
      <3>4. p' = p
        BY <1>7 DEF p
      <3> QED
        BY <1>4, <1>8, <1>10, <3>1, <3>2, <3>3, <3>4 DEF Taking, Fits
    <2>4. Lending(c)'
      BY <1>8, <1>10 DEF Lending
    <2> QED
      BY <2>1, <2>2, <2>3, <2>4
  <1>12. \A d \in Calls : calls[d].lent = NoLease
    BY NothingLent DEF BeginAttached
  <1>13. \A r \in Resources : Roomy(r)'
    BY <1>7, <1>8, <1>10, RoomKept
  <1>14. holder' \in [Resources -> BOOLEAN]
    BY <1>7 DEF CallsInv, CallsTypeOK
  <1> QED
    BY <1>6, <1>7, <1>9, <1>11, <1>12, <1>13, <1>14, LocalStep

(* BeginInit: the lease is lent, its successor is in the request. *)
LEMMA BeginInitKeeps ==
  ASSUME CallsInv, NEW c \in Calls, NEW r \in Resources, BeginInit(c, r)
  PROVE  CallsInv'
  <1> DEFINE p == Increment(wallet[r].proto)
             k == [Free EXCEPT !.stage = "sending", !.rpc = InitReturn, !.stub = InitStub,
                               !.leases = <<p>>, !.lent = wallet[r]]
  <1>1. /\ wallet[r] # NoLease /\ IsSelfOwned(wallet[r]) /\ Room(r, 1)
        /\ Len(wallet[r].proto.sequence) = 2
        /\ calls[c].stage = "free" /\ \A d \in Calls : calls[d].stage = "free"
    BY WalletReads DEF BeginInit
  <1>2. wallet[r].proto \in Valid /\ wallet[r] \in Entries
    BY <1>1 DEF CallsInv, CallsTypeOK, Entries, Lease, Valid
  <1>3. p \in Valid
    BY <1>2, IncrementType DEF Valid
  <1>4. calls' = [calls EXCEPT ![c] = k] /\ calls \in [Calls -> Call]
    BY DEF BeginInit, CallsInv, CallsTypeOK
  <1>5. UNCHANGED <<wallet, latest, holder, returns, torn>>
    BY DEF BeginInit, robot, copies
  <1> HIDE DEF p
  <1>6. /\ k.stage = "sending" /\ k.rpc = InitReturn /\ k.stub = InitStub /\ k.todo = <<>>
        /\ k.answer = NoAnswer /\ k.taken = 0 /\ k.outcome = "none"
        /\ k.lent = wallet[r]
    BY DEF Free
  <1>7. k \in Call
    <2>1. <<p>> \in Seq(Valid)
      BY <1>3
    <2>2. InitStub \in Kinds
      BY DEF Kinds
    <2> QED
      BY <1>2, <2>1, <2>2, FreeType DEF Call, Stages
  <1> HIDE DEF k
  <1>8. calls'[c] = k /\ \A d \in Calls \ {c} : calls'[d] = calls[d]
    BY <1>4, <1>7
  <1>9. InitStub.lease = "many" /\ InitReturn \in Deaf /\ Regular(InitStub, InitReturn)
    <2>1. InitStub.lease = "many"
      BY DEF InitStub, AutoReturn, ManyLeases, Verdict, Reply
    <2> QED
      BY <2>1, StubsRegular DEF InitReturn, Deaf
  <1>10. Stage(c)' /\ Honest(c)' /\ Taking(c)' /\ Lending(c)'
    <2>1. Stage(c)'
      BY <1>6, <1>8, <1>9 DEF Stage
    <2>2. Honest(c)'
      BY <1>6, <1>8, <1>9 DEF Honest
    <2>3. Taking(c)'
      BY <1>6, <1>8, <1>9 DEF Taking
    <2>4. Lending(c)'
      <3> DEFINE w == wallet[r].proto.sequence
      <3>1. wallet[r].proto.resource = r /\ w[1] <= latest[r][1]
        BY <1>1 DEF CallsInv, Rooted
      <3>2. w[2] + Claims(r) + 1 <= MaxUse[r]
        BY <1>1 DEF Room, Wallet!InWallet
      <3>3. Claims(r) \in Nat
        BY ClaimsCounts, FS_CardinalityType DEF CallsInv, Roomy
      <3>4. w[2] \in Nat
        BY <1>1, <1>2, ValidParts, ClockNumbers
      <3>10. MaxUse[r] \in Nat
        BY BoundsAssumption, SeqModAssumption
      <3>5. w[2] < MaxUse[r]
        BY <3>2, <3>3, <3>4, <3>10
      <3>6. \A d \in Calls \ {c} : calls'[d].stage = "free"
        BY <1>1, <1>8
      <3>7. /\ IsSelfOwned(k.lent) /\ k.lent.proto.resource = r
            /\ k.lent.proto.sequence = w
        BY <1>1, <1>6, <3>1
      <3>8. latest' = latest
        BY <1>5
      <3> HIDE DEF w
      <3>9. Len(w) = 2
        BY <1>1 DEF w
      <3> QED
        BY <1>6, <1>8, <3>1, <3>5, <3>6, <3>7, <3>8, <3>9 DEF Lending, IsSelfOwned
    <2> QED
      BY <2>1, <2>2, <2>3, <2>4
  <1>11. \A d \in Calls : calls[d].lent = NoLease
    <2>1. \A d \in Calls : Stage(d)
      BY DEF CallsInv
    <2> QED
      BY <1>1, <2>1 DEF Stage, Free
  <1>12. \A q \in Resources : Roomy(q)'
    BY <1>5, <1>6, <1>8, RoomKept
  <1>13. holder' \in [Resources -> BOOLEAN]
    BY <1>5 DEF CallsInv, CallsTypeOK
  <1> QED
    BY <1>4, <1>5, <1>7, <1>10, <1>11, <1>12, <1>13, LocalStep

(* The calls that fail before the robot has them, and on their way back. *)
LEMMA FailuresKeep ==
  ASSUME CallsInv, NEW c \in Calls,
         \/ \E plan \in Plans : PrepareFails(c, plan)
         \/ LeaseMissing(c) /\ UNCHANGED <<robot, returns>> /\ calls[c].stage = "sending"
         \/ Cancelled(c) \/ RpcFails(c) \/ BadResponse(c)
  PROVE  CallsInv'
  <1>1. Fail(c) /\ UNCHANGED <<wallet, robot, returns, torn>>
    BY DEF PrepareFails, LeaseMissing, Cancelled, RpcFails, BadResponse, copies
  <1>2. \/ \E stub : Apart(stub)
        \/ calls[c].stage # "free"
    BY DEF PrepareFails, LeaseMissing, Cancelled, RpcFails, BadResponse, Initiated
  <1>3. \A d \in Calls \ {c} : calls[d].lent = NoLease
    BY <1>2, NothingLent
  <1> QED
    BY <1>1, <1>3, FailKeeps

(* Forget and InitFails: the call is free again. *)
LEMMA ForgettingKeeps ==
  ASSUME CallsInv, NEW c \in Calls, calls' = [calls EXCEPT ![c] = Free],
         UNCHANGED <<wallet, robot, returns, torn>>
  PROVE  CallsInv'
  <1>1. calls \in [Calls -> Call]
    BY DEF CallsInv, CallsTypeOK
  <1>2. calls'[c] = Free /\ \A d \in Calls \ {c} : calls'[d] = calls[d]
    BY <1>1
  <1>3. /\ Free.stage = "free" /\ Free.outcome = "none" /\ Free.todo = <<>>
        /\ Free.lent = NoLease
    BY DEF Free
  <1>4. Stage(c)' /\ Honest(c)' /\ Taking(c)' /\ Lending(c)'
    <2>1. Stage(c)'
      BY <1>2, <1>3 DEF Stage
    <2>2. Honest(c)'
      BY <1>2, <1>3 DEF Honest
    <2>3. Taking(c)'
      BY <1>2, <1>3 DEF Taking
    <2>4. Lending(c)'
      BY <1>2, <1>3 DEF Lending
    <2> QED
      BY <2>1, <2>2, <2>3, <2>4
  <1>5. \A r \in Resources : Roomy(r)'
    BY <1>2, <1>3, RoomKept
  <1>6. holder' \in [Resources -> BOOLEAN] /\ UNCHANGED <<wallet, latest, returns, torn>>
    BY DEF CallsInv, CallsTypeOK, robot
  <1> QED
    BY <1>3, <1>4, <1>5, <1>6, FreeType, LocalStep

(* Reject: the answer has no results. *)
LEMMA RejectKeeps ==
  ASSUME CallsInv, NEW c \in Calls, Reject(c)
  PROVE  CallsInv'
  <1> DEFINE k == [calls[c] EXCEPT !.stage = "answered", !.answer.header = FALSE]
  <1>1. /\ calls \in [Calls -> Call] /\ calls[c] \in Call
        /\ calls[c].stage = "sending" /\ calls[c].todo = <<>>
        /\ calls[c].answer = NoAnswer
        /\ Stage(c) /\ Honest(c) /\ Lending(c) /\ Taking(c)
    BY DEF CallsInv, CallsTypeOK, Reject, Initiated, Stage
  <1>2. calls' = [calls EXCEPT ![c] = k]
    BY DEF Reject
  <1>3. UNCHANGED <<wallet, latest, holder, returns, torn>>
    BY DEF Reject, robot, copies
  <1>4. /\ k.stage = "answered" /\ k.rpc = calls[c].rpc /\ k.stub = calls[c].stub
        /\ k.todo = <<>> /\ k.leases = calls[c].leases /\ k.taken = calls[c].taken
        /\ k.outcome = calls[c].outcome /\ k.lent = calls[c].lent
        /\ k.answer = [NoAnswer EXCEPT !.header = FALSE]
    BY <1>1 DEF Call
  <1>5. k.answer.results = <<>> /\ k.answer.header = FALSE
    BY <1>4 DEF NoAnswer
  <1>6. k.answer \in AnswerType
    <2>1. <<>> \in Seq(Told)
      OBVIOUS
    <2> HIDE DEF k
    <2>2. k.answer = [header |-> FALSE, whole |-> NoAnswer.whole, done |-> NoAnswer.done,
                      results |-> <<>>]
      BY <1>4 DEF NoAnswer
    <2>3. NoAnswer.whole \in BOOLEAN /\ NoAnswer.done \in BOOLEAN
      BY DEF NoAnswer
    <2> QED
      BY <2>1, <2>2, <2>3 DEF AnswerType
  <1>7. k \in Call
    BY <1>1, <1>4, <1>6 DEF Call, Stages
  <1> HIDE DEF k
  <1>8. calls'[c] = k /\ \A d \in Calls \ {c} : calls'[d] = calls[d]
    BY <1>1, <1>2
  <1>9. Stage(c)' /\ Honest(c)' /\ Taking(c)' /\ Lending(c)'
    <2>1. Stage(c)'
      BY <1>1, <1>4, <1>8 DEF Stage
    <2>2. Honest(c)'
      BY <1>1, <1>4, <1>5, <1>8 DEF Honest, Stage
    <2>3. Taking(c)'
      <3>1. k.outcome = "none"
        BY <1>1, <1>4 DEF Stage
      <3>2. k.rpc \notin Deaf => \A i \in DOMAIN k.leases : Fits(k.leases[i])
        BY <1>1, <1>4 DEF Taking
      <3>3. DOMAIN k.answer.results = {}
        BY <1>5
      <3> QED
        BY <1>3, <1>8, <3>1, <3>2, <3>3
        DEF Taking, Fits, Since, Intact, Wallet!Owned, Wallet!InWallet
    <2>4. Lending(c)'
      BY <1>1, <1>3, <1>4, <1>8 DEF Lending
    <2> QED
      BY <2>1, <2>2, <2>3, <2>4
  <1>10. \A d \in Calls \ {c} : calls[d].lent = NoLease
    BY <1>1, NothingLent
  <1>11. \A r \in Resources : Roomy(r)'
    BY <1>3, <1>4, <1>8, RoomKept
  <1>12. holder' \in [Resources -> BOOLEAN]
    BY <1>3 DEF CallsInv, CallsTypeOK
  <1> QED
    BY <1>2, <1>3, <1>7, <1>9, <1>10, <1>11, <1>12, LocalStep

(* SettleFuture: a completion that reports success has looked where the    *)
(* answer would have said no.                                              *)
LEMMA SettleKeeps ==
  ASSUME CallsInv, NEW c \in Calls, SettleFuture(c)
  PROVE  CallsInv'
  <1> DEFINE o == IF LeaseRefused(c) THEN "leaseUse"
                  ELSE IF StatusBad(c) THEN "status" ELSE "ok"
             k == [calls[c] EXCEPT !.stage = "settled", !.outcome = o, !.leases = <<>>]
  <1>1. /\ calls \in [Calls -> Call] /\ calls[c] \in Call
        /\ calls[c].stage = "answered" /\ calls[c].answer.header
        /\ calls[c].todo = <<>> /\ calls[c].taken = Len(Passed(c))
        /\ Regular(calls[c].stub, calls[c].rpc)
        /\ Stage(c) /\ Honest(c) /\ Lending(c) /\ Taking(c)
    BY DEF CallsInv, CallsTypeOK, SettleFuture, Accepts, Stage
  <1>2. calls' = [calls EXCEPT ![c] = k]
    BY <1>1 DEF SettleFuture, Settle, Call
  <1>3. UNCHANGED <<wallet, latest, holder, returns, torn>>
    BY DEF SettleFuture, robot, copies
  <1>4. o \in {"leaseUse", "status", "ok"}
    OBVIOUS
  <1>5. o = "ok" => ~LeaseRefused(c) /\ ~StatusBad(c)
    OBVIOUS
  <1> HIDE DEF o
  <1>6. /\ k.stage = "settled" /\ k.rpc = calls[c].rpc /\ k.stub = calls[c].stub
        /\ k.todo = <<>> /\ k.leases = <<>> /\ k.taken = calls[c].taken
        /\ k.outcome = o /\ k.lent = calls[c].lent
        /\ k.answer = calls[c].answer
    BY <1>1 DEF Call
  <1>7. k \in Call
    <2>1. <<>> \in Seq(Valid)
      OBVIOUS
    <2> QED
      BY <1>1, <1>4, <2>1 DEF Call, Stages, Outcomes
  <1> HIDE DEF k
  <1>8. calls'[c] = k /\ \A d \in Calls \ {c} : calls'[d] = calls[d]
    BY <1>1, <1>2
  <1>9. Stage(c)' /\ Honest(c)' /\ Taking(c)' /\ Lending(c)'
    <2>1. Stage(c)'
      BY <1>6, <1>8 DEF Stage
    <2>2. Honest(c)'
      <3>1. ASSUME o = "ok", ~calls[c].answer.done
            PROVE  calls[c].rpc \in Ignoring
        <4>1. calls[c].stub.verdict \notin {"checked", "items"}
          BY <1>5, <3>1 DEF StatusBad
        <4>2. calls[c].stub.verdict # "absent"
          <5>1. SUFFICES ASSUME calls[c].stub.verdict = "absent" PROVE FALSE
            OBVIOUS
          <5>2. /\ calls[c].stub.result # "none"
                /\ \E i \in DOMAIN calls[c].answer.results :
                     calls[c].answer.results[i].status # "OK"
            BY <1>1, <3>1, <5>1 DEF Honest
          <5>3. Passed(c) = calls[c].answer.results
            BY <5>2 DEF Passed
          <5> QED
            BY <1>5, <3>1, <5>2, <5>3 DEF LeaseRefused
        <4> QED
          BY <1>1, <4>1, <4>2 DEF Regular
      <3> QED
        BY <1>6, <1>8, <3>1 DEF Honest
    <2>3. Taking(c)'
      <3>1. SUFFICES ASSUME calls[c].rpc \notin Deaf PROVE Taking(c)'
        BY <1>6, <1>8 DEF Taking
      <3>2. \A i \in DOMAIN calls[c].answer.results : i <= calls[c].taken
        <4>1. CASE calls[c].stub.result = "none"
          <5>1. calls[c].answer.results = <<>>
            BY <1>1, <3>1, <4>1 DEF Honest, Regular
          <5> QED
            BY <5>1
        <4>2. CASE calls[c].stub.result # "none"
          <5>1. Passed(c) = calls[c].answer.results
            BY <4>2 DEF Passed
          <5>2. calls[c].answer.results \in Seq(Told)
            BY <1>1 DEF Call, AnswerType
          <5> QED
            BY <1>1, <5>1, <5>2
        <4> QED
          BY <4>1, <4>2
      <3>3. \A i \in DOMAIN calls[c].answer.results :
              Sound(calls[c].answer.results[i]) /\ Settles(calls[c].answer.results[i])
        BY <1>1, <3>1, <3>2 DEF Taking
      <3>4. wallet' = wallet /\ latest' = latest /\ torn' = torn
        BY <1>3
      <3> QED
        BY <1>6, <1>8, <3>3, <3>4, ResultsKept DEF Taking
    <2>4. Lending(c)'
      BY <1>1, <1>3, <1>6, <1>8 DEF Lending
    <2> QED
      BY <2>1, <2>2, <2>3, <2>4
  <1>10. \A d \in Calls \ {c} : calls[d].lent = NoLease
    BY <1>1, NothingLent
  <1>11. \A r \in Resources : Roomy(r)'
    BY <1>3, <1>6, <1>8, RoomKept
  <1>12. holder' \in [Resources -> BOOLEAN]
    BY <1>3 DEF CallsInv, CallsTypeOK
  <1> QED
    BY <1>2, <1>3, <1>7, <1>9, <1>10, <1>11, <1>12, LocalStep

-----------------------------------------------------------------------------
(* Steps that change the wallet or what the robot knows *)

(* The intact lease of a resource is replaced by one that comes after it,  *)
(* or by one of a later grant than any, or not at all.                     *)
Moves(r) ==
  \/ ~Intact(r)'
  \/ wallet'[r] = wallet[r] /\ r \notin torn
  \/ Intact(r) /\ Before(wallet[r].proto.sequence, wallet'[r].proto.sequence)
  \/ latest[r][1] < wallet'[r].proto.sequence[1]

(* The wallet holds valid leases, whose sequences have a first number. *)
LEMMA EntryClock ==
  /\ CallsTypeOK => \A r \in Resources : wallet[r] # NoLease =>
       /\ wallet[r] \in Lease /\ wallet[r].proto \in Valid
       /\ wallet[r].proto.sequence \in Clock /\ wallet[r].proto.sequence # <<>>
  /\ CallsTypeOK' => \A r \in Resources : wallet'[r] # NoLease =>
       /\ wallet'[r] \in Lease /\ wallet'[r].proto \in Valid
       /\ wallet'[r].proto.sequence \in Clock /\ wallet'[r].proto.sequence # <<>>
  <1>1. \A l \in Entries : l # NoLease =>
          /\ l \in Lease /\ l.proto \in Valid
          /\ l.proto.sequence \in Clock /\ l.proto.sequence # <<>>
    <2> SUFFICES ASSUME NEW l \in Entries, l # NoLease
                 PROVE  /\ l \in Lease /\ l.proto \in Valid
                        /\ l.proto.sequence \in Clock /\ l.proto.sequence # <<>>
      OBVIOUS
    <2>1. l \in Lease /\ l.proto \in Valid
      BY DEF Entries, Lease, Valid
    <2> QED
      BY <2>1, ValidParts
  <1> QED
    BY <1>1 DEF CallsTypeOK

(* A lease that was lent before the one owned is so after every move of    *)
(* the resource.                                                           *)
LEMMA SinceKept ==
  ASSUME CallsTypeOK, CallsTypeOK', NEW r \in Resources, Moves(r),
         NEW p \in Valid, p.sequence[1] <= latest[r][1], Since(p, r)
  PROVE  Since(p, r)'
  <1> SUFFICES ASSUME Intact(r)'
               PROVE  \/ p.sequence = wallet'[r].proto.sequence
                      \/ Before(p.sequence, wallet'[r].proto.sequence)
    BY DEF Since
  <1> DEFINE w == wallet[r].proto.sequence
             v == wallet'[r].proto.sequence
  <1>1. wallet'[r] # NoLease
    BY DEF Intact, Wallet!Owned, Wallet!InWallet
  <1>2. v \in Clock /\ v # <<>> /\ p.sequence \in Clock /\ p.sequence # <<>>
    BY <1>1, EntryClock, ValidParts
  <1>3. CASE wallet'[r] = wallet[r] /\ r \notin torn
    BY <1>3 DEF Since, Intact, Wallet!Owned, Wallet!InWallet
  <1>4. CASE Intact(r) /\ Before(w, v)
    <2>1. w \in Clock
      BY <1>4, EntryClock DEF Intact, Wallet!Owned, Wallet!InWallet
    <2>2. p.sequence = w \/ Before(p.sequence, w)
      BY <1>4 DEF Since
    <2> HIDE DEF w, v
    <2>3. CASE p.sequence = w
      BY <1>4, <2>3 DEF v
    <2>4. CASE Before(p.sequence, w)
      <3>1. Before(p.sequence, v)
        BY <1>2, <1>4, <2>1, <2>4, BeforeIsTransitive
      <3> QED
        BY <3>1 DEF v
    <2> QED
      BY <2>2, <2>3, <2>4
  <1>5. CASE latest[r][1] < v[1]
    <2>1. latest[r][1] \in Nat /\ p.sequence[1] \in Nat
      BY LatestClock, ValidParts
    <2>2. v[1] \in Nat
      <3>1. Len(v) \in Nat \ {0}
        BY <1>2, EmptySeq DEF Clock
      <3> QED
        BY <1>2, <3>1, ClockNumbers
    <2>3. p.sequence[1] < v[1]
      BY <1>5, <2>1, <2>2
    <2> QED
      BY <1>2, <2>3, FirstNumberDecides
  <1> QED
    BY <1>3, <1>4, <1>5 DEF Moves

(* What a result has settled stays settled. *)
LEMMA SettlesKept ==
  ASSUME CallsTypeOK, CallsTypeOK', NEW result,
         result.attempted \in Valid, result.latest \in Valid,
         Moves(result.attempted.resource), Sound(result), Settles(result)
  PROVE  Settles(result)'
  <1> DEFINE r == result.attempted.resource
             w == wallet[r].proto.sequence
             v == wallet'[r].proto.sequence
             p == result.attempted
             q == result.latest
  <1>6. /\ r \in Resources /\ Moves(r)
        /\ p.sequence[1] <= latest[r][1] /\ q.sequence[1] <= latest[r][1]
    BY ValidParts DEF Sound, Fits
  <1> HIDE DEF r
  <1> SUFFICES ASSUME Intact(r)'
               PROVE  /\ result.status = "OLDER" => Since(q, r)'
                      /\ result.status = "REVOKED" => Before(p.sequence, v)
    BY DEF Settles, r
  <1>1. wallet'[r] # NoLease
    BY DEF Intact, Wallet!Owned, Wallet!InWallet
  <1>2. v \in Clock /\ v # <<>> /\ p.sequence \in Clock /\ p.sequence # <<>>
    BY <1>1, <1>6, EntryClock, ValidParts
  <1>3. CASE wallet'[r] = wallet[r] /\ r \notin torn
    BY <1>3 DEF Settles, r, Since, Intact, Wallet!Owned, Wallet!InWallet
  <1>4. CASE Intact(r) /\ Before(w, v)
    <2>1. w \in Clock
      BY <1>4, <1>6, EntryClock DEF Intact, Wallet!Owned, Wallet!InWallet
    <2>2. /\ result.status = "OLDER" => Since(q, r)
          /\ result.status = "REVOKED" => Before(p.sequence, w)
      BY <1>4 DEF Settles, r
    <2>3. result.status = "OLDER" => Since(q, r)'
      BY <1>6, <2>2, SinceKept
    <2>4. result.status = "REVOKED" => Before(p.sequence, v)
      <3> HIDE DEF v, w, p
      <3> QED
        BY <1>2, <1>4, <2>1, <2>2, BeforeIsTransitive
    <2> QED
      BY <2>3, <2>4
  <1>5. CASE latest[r][1] < v[1]
    <2>1. latest[r][1] \in Nat /\ p.sequence[1] \in Nat /\ q.sequence[1] \in Nat
          /\ q.sequence \in Clock /\ q.sequence # <<>>
      BY <1>6, LatestClock, ValidParts
    <2>2. v[1] \in Nat
      <3>1. Len(v) \in Nat \ {0}
        BY <1>2, EmptySeq DEF Clock
      <3> QED
        BY <1>2, <3>1, ClockNumbers
    <2>3. Before(p.sequence, v) /\ Before(q.sequence, v)
      BY <1>2, <1>5, <1>6, <2>1, <2>2, FirstNumberDecides
    <2> QED
      BY <2>3 DEF Since
  <1> QED
    BY <1>3, <1>4, <1>5, <1>6 DEF Moves

(* The robot grants no number twice. *)
Grows == \A r \in Resources : latest[r][1] <= latest'[r][1]

(* The root of the robot's latest lease does not decrease. *)
LEMMA LatestGrows ==
  ASSUME CallsTypeOK, CallsTypeOK', Grows, NEW r \in Resources
  PROVE  /\ latest[r][1] \in Nat /\ latest'[r][1] \in Nat
         /\ \A n \in Nat : n <= latest[r][1] => n <= latest'[r][1]
  <1>1. \A f \in [Resources -> Clock \ {<<>>}] : f[r][1] \in Nat
    <2> SUFFICES ASSUME NEW s \in Clock \ {<<>>}
                 PROVE  s[1] \in Nat
      OBVIOUS
    <2>1. Len(s) \in Nat \ {0}
      BY EmptySeq DEF Clock
    <2> QED
      BY <2>1, ClockNumbers
  <1>2. latest[r][1] \in Nat /\ latest'[r][1] \in Nat
    BY <1>1 DEF CallsTypeOK
  <1> QED
    BY <1>2 DEF Grows

(* A lease that fits what the robot knows goes on to fit it. *)
LEMMA FitsKept ==
  ASSUME CallsTypeOK, CallsTypeOK', Grows, NEW p \in Valid, Moves(p.resource), Fits(p)
  PROVE  Fits(p)'
  <1> DEFINE r == p.resource
  <1>1. r \in Resources /\ p.sequence[1] \in Nat
    BY ValidParts
  <1>2. Since(p, r) /\ p.sequence[1] <= latest[r][1]
    BY DEF Fits
  <1>3. Since(p, r)'
    BY <1>1, <1>2, SinceKept
  <1>4. p.sequence[1] <= latest'[r][1]
    BY <1>1, <1>2, LatestGrows
  <1> QED
    BY <1>3, <1>4 DEF Fits

(* A result that was sound remains so. *)
LEMMA SoundKept ==
  ASSUME CallsTypeOK, CallsTypeOK', Grows, NEW result,
         result.attempted \in Valid, result.latest \in Valid,
         Moves(result.attempted.resource), Sound(result)
  PROVE  Sound(result)'
  <1> DEFINE r == result.attempted.resource
  <1>1. r \in Resources /\ result.latest.sequence[1] \in Nat
    BY ValidParts
  <1>2. Fits(result.attempted)'
    BY FitsKept DEF Sound
  <1>3. result.latest.sequence[1] <= latest'[r][1]
    BY <1>1, LatestGrows DEF Sound
  <1> QED
    BY <1>2, <1>3 DEF Sound

(* The results of a call that are of the right kind. *)
LEMMA ResultParts ==
  ASSUME NEW k \in Call, NEW i \in DOMAIN k.answer.results, Sound(k.answer.results[i])
  PROVE  /\ k.answer.results[i] \in LeaseUseResult
         /\ k.answer.results[i].attempted \in Valid
         /\ k.answer.results[i].latest \in Valid
         /\ k.answer.results[i].attempted.resource \in Resources
  <1>1. k.answer.results \in Seq(Told)
    BY DEF Call, AnswerType
  <1>2. k.answer.results[i] \in LeaseUseResult
    BY <1>1 DEF Told
  <1>3. /\ k.answer.results[i].attempted \in Valid
        /\ k.answer.results[i].latest \in Valid
    BY <1>2 DEF LeaseUseResult, Sound, Valid
  <1> QED
    BY <1>2, <1>3, ValidParts

(* So do all the results of a call that does not move. *)
LEMMA TakingKept ==
  ASSUME CallsInv, CallsTypeOK', Grows, \A r \in Resources : Moves(r),
         NEW c \in Calls, calls'[c] = calls[c]
  PROVE  Taking(c)'
  <1> DEFINE k == calls[c]
             settled == k.outcome \in {"ok", "leaseUse", "status"}
  <1>1. k \in Call /\ Taking(c) /\ CallsTypeOK
    BY DEF CallsInv, CallsTypeOK
  <1>2. ASSUME NEW j \in Call, NEW i \in DOMAIN j.leases, Fits(j.leases[i])
        PROVE  Fits(j.leases[i])'
    <2>1. j.leases[i] \in Valid
      BY DEF Call
    <2> QED
      BY <1>1, <1>2, <2>1, ValidParts, FitsKept
  <1>3. ASSUME NEW j \in Call, NEW i \in DOMAIN j.answer.results, Sound(j.answer.results[i])
        PROVE  /\ Sound(j.answer.results[i])'
               /\ Settles(j.answer.results[i]) => Settles(j.answer.results[i])'
    <2> DEFINE result == j.answer.results[i]
    <2>1. /\ result.attempted \in Valid /\ result.latest \in Valid
          /\ result.attempted.resource \in Resources
      BY <1>3, ResultParts
    <2>2. Sound(result)'
      BY <1>1, <1>3, <2>1, SoundKept
    <2>3. Settles(result) => Settles(result)'
      BY <1>1, <1>3, <2>1, SettlesKept
    <2> QED
      BY <2>2, <2>3
  <1>4. SUFFICES ASSUME NEW j \in Call, j = calls[c]
                 PROVE  Taking(c)'
    BY <1>1
  <1>5. calls'[c] = j
    BY <1>4
  <1>6. j.rpc \notin Deaf =>
    /\ j.stage \in {"sending", "answered"} => \A i \in DOMAIN j.leases : Fits(j.leases[i])'
    /\ j.stage = "answered" \/ j.outcome \in {"ok", "leaseUse", "status"} =>
         \A i \in DOMAIN j.answer.results :
           /\ Sound(j.answer.results[i])'
           /\ j.outcome \in {"ok", "leaseUse", "status"} \/ i <= j.taken =>
                Settles(j.answer.results[i])'
    BY <1>1, <1>2, <1>3, <1>4 DEF Taking
  <1> QED
    BY <1>5, <1>6 DEF Taking

(* A call that goes on. *)
LEMMA LendingKept ==
  ASSUME CallsInv, CallsTypeOK', Grows, NEW c \in Calls,
         calls[c].stage \in {"sending", "answered"},
         calls'[c].lent = calls[c].lent, calls'[c].rpc = calls[c].rpc,
         \A d \in Calls \ {c} : calls'[d] = calls[d]
  PROVE  Lending(c)'
  <1>1. Lending(c) /\ calls[c] \in Call
    BY DEF CallsInv, CallsTypeOK
  <1>2. SUFFICES ASSUME calls[c].lent # NoLease
                 PROVE  Lending(c)'
    BY DEF Lending
  <1> DEFINE l == calls[c].lent
             r == l.proto.resource
  <1>3. /\ IsSelfOwned(l) /\ r \in Resources
        /\ Len(l.proto.sequence) = 2
        /\ l.proto.sequence[2] < MaxUse[r]
        /\ l.proto.sequence[1] <= latest[r][1]
        /\ \A d \in Calls \ {c} : calls[d].stage = "free"
        /\ calls[c].rpc = InitReturn
    BY <1>1, <1>2 DEF Lending
  <1>4. l.proto \in Valid
    BY <1>1, <1>2 DEF Call, Entries, Lease, Valid
  <1>5. l.proto.sequence[1] <= latest'[r][1]
    BY <1>3, <1>4, ValidParts, LatestGrows DEF CallsInv
  <1> HIDE DEF l
  <1>6. calls'[c].lent = l
    BY DEF l
  <1> QED
    BY <1>3, <1>5, <1>6 DEF Lending, IsSelfOwned

(* An action that changes at most the calls C has to be looked at there    *)
(* and at each resource.                                                   *)
LEMMA StepKeeps ==
  ASSUME CallsInv, CallsTypeOK', Grows, \A r \in Resources : Moves(r),
         NEW C \in SUBSET Calls,
         \A d \in Calls \ C : calls'[d] = calls[d],
         \A c \in C : Stage(c)' /\ Honest(c)' /\ Lending(c)' /\ Taking(c)',
         \A c \in C : \A d \in Calls \ {c} :
           calls[d].lent # NoLease => calls'[c].stage = "free",
         \A r \in Resources : Rooted(r)' /\ Ranked(r)' /\ Roomy(r)'
  PROVE  CallsInv'
  <1>1. ASSUME NEW d \in Calls
        PROVE  Stage(d)' /\ Honest(d)' /\ Taking(d)'
    <2>1. CASE d \in C
      BY <2>1
    <2>2. CASE d \notin C
      <3>1. calls'[d] = calls[d] /\ Stage(d) /\ Honest(d)
        BY <2>2 DEF CallsInv
      <3>2. Taking(d)'
        BY <3>1, TakingKept
      <3> QED
        BY <3>1, <3>2 DEF Stage, Honest
    <2> QED
      BY <2>1, <2>2
  <1>2. ASSUME NEW d \in Calls
        PROVE  Lending(d)'
    <2>1. CASE d \in C
      BY <2>1
    <2>2. CASE d \notin C
      <3>1. calls'[d] = calls[d] /\ Lending(d) /\ calls[d] \in Call
        BY <2>2 DEF CallsInv, CallsTypeOK
      <3>2. SUFFICES ASSUME calls[d].lent # NoLease
                     PROVE  Lending(d)'
        BY <3>1 DEF Lending
      <3> DEFINE l == calls[d].lent
                 r == l.proto.resource
      <3>3. /\ IsSelfOwned(l) /\ r \in Resources
            /\ Len(l.proto.sequence) = 2
            /\ l.proto.sequence[2] < MaxUse[r]
            /\ l.proto.sequence[1] <= latest[r][1]
            /\ \A e \in Calls \ {d} : calls[e].stage = "free"
            /\ calls[d].stage \in {"sending", "answered"} => calls[d].rpc = InitReturn
        BY <3>1, <3>2 DEF Lending
      <3>4. l.proto \in Valid
        BY <3>1, <3>2 DEF Call, Entries, Lease, Valid
      <3>5. l.proto.sequence[1] <= latest'[r][1]
        BY <3>3, <3>4, ValidParts, LatestGrows DEF CallsInv
      <3>6. \A e \in Calls \ {d} : calls'[e].stage = "free"
        BY <3>2, <3>3
      <3> HIDE DEF l
      <3>7. calls'[d].lent = l
        BY <3>1 DEF l
      <3> QED
        BY <3>1, <3>3, <3>5, <3>6, <3>7 DEF Lending, IsSelfOwned
    <2> QED
      BY <2>1, <2>2
  <1> QED
    BY <1>1, <1>2 DEF CallsInv

(* A step of one call keeps the invariant if it keeps that call's part and *)
(* the resources'.                                                         *)
LEMMA StepKeepsAtOne ==
  ASSUME CallsInv, CallsTypeOK', Grows, \A r \in Resources : Moves(r),
         NEW c \in Calls, \A d \in Calls \ {c} : calls'[d] = calls[d],
         Stage(c)', Honest(c)', Lending(c)', Taking(c)',
         \A d \in Calls \ {c} : calls[d].lent = NoLease,
         \A r \in Resources : Rooted(r)' /\ Ranked(r)' /\ Roomy(r)'
  PROVE  CallsInv'
  <1>1. PICK C \in SUBSET Calls : C = {c}
    OBVIOUS
  <1>2. /\ \A d \in Calls \ C : calls'[d] = calls[d]
        /\ \A d \in C : Stage(d)' /\ Honest(d)' /\ Lending(d)' /\ Taking(d)'
        /\ \A e \in C : \A d \in Calls \ {e} :
             calls[d].lent # NoLease => calls'[e].stage = "free"
    BY <1>1
  <1> QED
    BY <1>2, StepKeeps

(* A step of none keeps it if it keeps the resources' part. *)
LEMMA StepKeepsAtNone ==
  ASSUME CallsInv, CallsTypeOK', Grows, \A r \in Resources : Moves(r), calls' = calls,
         \A r \in Resources : Rooted(r)' /\ Ranked(r)' /\ Roomy(r)'
  PROVE  CallsInv'
  <1>1. PICK C \in SUBSET Calls : C = {}
    OBVIOUS
  <1>2. /\ \A d \in Calls \ C : calls'[d] = calls[d]
        /\ \A d \in C : FALSE
    BY <1>1
  <1> QED
    BY <1>2, StepKeeps

-----------------------------------------------------------------------------
(* The robot's actions *)

(* A lease of the wallet has a root. *)
LEMMA EntryRoot ==
  ASSUME NEW l \in Entries, l # NoLease
  PROVE  l.proto \in Valid /\ l.proto.sequence[1] \in Nat
  <1>1. l.proto \in Valid
    BY DEF Entries, Lease, Valid
  <1> QED
    BY <1>1, ValidParts

(* What the robot grants or hears of leaves the leases where they were. *)
LEMMA RobotKeepsOrder ==
  ASSUME CallsInv, CallsTypeOK', Grows, UNCHANGED <<wallet, returns, torn>>
  PROVE  \A r \in Resources : Moves(r) /\ Rooted(r)' /\ Ranked(r)'
  <1> SUFFICES ASSUME NEW r \in Resources
               PROVE  Moves(r) /\ Rooted(r)' /\ Ranked(r)'
    OBVIOUS
  <1>1. CallsTypeOK /\ Rooted(r) /\ Ranked(r)
    BY DEF CallsInv
  <1>2. Rooted(r)'
    <2>1. wallet[r] # NoLease => wallet[r].proto.sequence[1] <= latest'[r][1]
      <3> SUFFICES ASSUME wallet[r] # NoLease
                   PROVE  wallet[r].proto.sequence[1] <= latest'[r][1]
        OBVIOUS
      <3>1. wallet[r].proto.sequence[1] \in Nat
        BY <1>1, EntryRoot DEF CallsTypeOK
      <3> QED
        BY <1>1, <3>1, LatestGrows DEF Rooted
    <2>2. returns[r] # NoLease => returns[r].proto.sequence[1] <= latest'[r][1]
      <3> SUFFICES ASSUME returns[r] # NoLease
                   PROVE  returns[r].proto.sequence[1] <= latest'[r][1]
        OBVIOUS
      <3>1. returns[r].proto.sequence[1] \in Nat
        BY <1>1, EntryRoot DEF CallsTypeOK
      <3> QED
        BY <1>1, <3>1, LatestGrows DEF Rooted
    <2> QED
      BY <1>1, <2>1, <2>2 DEF Rooted
  <1>3. Moves(r) /\ Ranked(r)'
    BY <1>1 DEF Moves, Intact, Wallet!Owned, Wallet!InWallet, Ranked
  <1> QED
    BY <1>2, <1>3

(* The grants and the leases that come back. *)
LEMMA RobotKeeps ==
  ASSUME CallsInv,
         \E r \in Resources : OtherTakes(r) \/ Release(r) \/ RobotReturns(r)
  PROVE  CallsInv'
  <1>1. PICK r \in Resources : OtherTakes(r) \/ Release(r) \/ RobotReturns(r)
    OBVIOUS
  <1>2. CallsTypeOK /\ Rooted(r)
    BY DEF CallsInv
  <1>3. latest[r][1] \in Nat /\ latest \in [Resources -> Clock \ {<<>>}]
    BY <1>2, LatestClock DEF CallsTypeOK
  <1>4. UNCHANGED <<wallet, calls, returns, torn>>
    BY <1>1 DEF OtherTakes, Release, RobotReturns, copies
  <1>5. holder' \in [Resources -> BOOLEAN]
    BY <1>1, <1>2 DEF OtherTakes, Release, RobotReturns, CallsTypeOK
  <1>6. \/ latest' = latest
        \/ \E s \in Clock \ {<<>>} :
             latest' = [latest EXCEPT ![r] = s] /\ latest[r][1] <= s[1]
    <2>1. CASE OtherTakes(r)
      <3>1. /\ Grant(r) \in Valid /\ Grant(r).sequence = <<latest[r][1] + 1>>
            /\ latest' = [latest EXCEPT ![r] = Grant(r).sequence]
        BY <1>2, <2>1, GrantType DEF OtherTakes
      <3>2. Grant(r).sequence \in Clock \ {<<>>}
        BY <3>1, ValidParts
      <3>3. latest[r][1] <= Grant(r).sequence[1]
        BY <1>3, <3>1
      <3> QED
        BY <3>1, <3>2, <3>3
    <2>2. CASE Release(r)
      BY <2>2 DEF Release
    <2>3. CASE RobotReturns(r)
      <3>1. /\ returns[r] # NoLease /\ UseVerdict(returns[r].proto) = "OK"
            /\ latest' = [latest EXCEPT ![r] = returns[r].proto.sequence]
        BY <2>3 DEF RobotReturns
      <3>2. returns[r].proto \in Valid /\ returns[r].proto.resource = r
        BY <1>2, <3>1, EntryRoot DEF CallsTypeOK, Rooted
      <3>3. latest[r][1] <= returns[r].proto.sequence[1]
        BY <1>2, <3>1, <3>2, VerdictMeaning
      <3>4. returns[r].proto.sequence \in Clock \ {<<>>}
        BY <3>2, ValidParts
      <3> QED
        BY <3>1, <3>3, <3>4
    <2> QED
      BY <1>1, <2>1, <2>2, <2>3
  <1>7. latest' \in [Resources -> Clock \ {<<>>}]
    BY <1>3, <1>6
  <1>8. Grows
    <2> SUFFICES ASSUME NEW q \in Resources
                 PROVE  latest[q][1] <= latest'[q][1]
      BY DEF Grows
    <2>1. latest[q][1] \in Nat
      BY <1>2, LatestClock
    <2> QED
      BY <1>3, <1>6, <2>1
  <1>9. CallsTypeOK'
    BY <1>2, <1>4, <1>5, <1>7 DEF CallsTypeOK
  <1>10. \A q \in Resources : Moves(q) /\ Rooted(q)' /\ Ranked(q)'
    BY <1>4, <1>8, <1>9, RobotKeepsOrder
  <1>11. \A q \in Resources : Roomy(q)'
    BY <1>4 DEF CallsInv, Roomy, Claims
  <1> QED
    BY <1>4, <1>8, <1>9, <1>10, <1>11, StepKeepsAtNone

(* Serve: a refusal is where the completion of the call looks for it. *)
LEMMA ServeKeeps ==
  ASSUME CallsInv, NEW c \in Calls, Serve(c)
  PROVE  CallsInv'
  <1> DEFINE j == calls[c]
  <1>1. /\ calls \in [Calls -> Call] /\ j \in Call /\ CallsTypeOK
        /\ j.stage = "sending" /\ j.todo = <<>> /\ j.answer = NoAnswer /\ j.taken = 0
        /\ j.outcome = "none" /\ j.leases \in Seq(Valid)
        /\ Regular(j.stub, j.rpc)
        /\ Stage(c) /\ Honest(c) /\ Lending(c) /\ Taking(c)
    BY DEF CallsInv, CallsTypeOK, Serve, Initiated, Stage, Call
  <1> DEFINE refused == \E i \in DOMAIN j.leases : UseVerdict(j.leases[i]) # "OK"
  <1>2. PICK results \in Results(j.leases, j.stub), done \in BOOLEAN, whole \in BOOLEAN :
          /\ refused => ~done
          /\ ~refused /\ j.stub.verdict = "absent" => done
          /\ calls' = [calls EXCEPT ![c].stage = "answered",
                         ![c].answer = [header |-> TRUE, whole |-> whole,
                                        done |-> done, results |-> results]]
    BY DEF Serve
  <1> DEFINE answer == [header |-> TRUE, whole |-> whole, done |-> done, results |-> results]
             k == [j EXCEPT !.stage = "answered", !.answer = answer]
  <1>3. /\ results \in Seq(Told)
        /\ j.leases = <<>> => results = <<>>
        /\ \A i \in DOMAIN results :
             \E h \in DOMAIN j.leases : results[i] = UseResult(j.leases[h], Latest(j.leases))
        /\ refused => \E i \in DOMAIN results : results[i].status # "OK"
    BY <1>1, ResultsType
  <1>4. calls' = [calls EXCEPT ![c] = k]
    BY <1>1, <1>2 DEF Call
  <1>5. /\ k.stage = "answered" /\ k.rpc = j.rpc /\ k.stub = j.stub
        /\ k.todo = <<>> /\ k.leases = j.leases /\ k.taken = 0
        /\ k.outcome = "none" /\ k.lent = j.lent /\ k.answer = answer
    BY <1>1 DEF Call
  <1>6. answer \in AnswerType
    BY <1>3 DEF AnswerType
  <1>7. answer.header /\ answer.done = done /\ answer.results = results
    OBVIOUS
  <1> HIDE DEF answer
  <1>8. k \in Call
    BY <1>1, <1>5, <1>6 DEF Call, Stages
  <1> HIDE DEF k
  <1>9. calls'[c] = k /\ \A d \in Calls \ {c} : calls'[d] = calls[d]
    BY <1>1, <1>4
  <1>10. UNCHANGED <<wallet, holder, returns, torn>>
    BY DEF Serve, copies
  <1>11. latest' = latest \/ latest' = Latest(j.leases)
    BY DEF Serve
  <1>12. /\ latest' \in [Resources -> Clock \ {<<>>}]
         /\ Grows
    <2>1. /\ Latest(j.leases) \in [Resources -> Clock \ {<<>>}]
          /\ \A r \in Resources : latest[r][1] <= Latest(j.leases)[r][1]
      BY <1>1, LatestType
    <2>2. ASSUME NEW r \in Resources
          PROVE  latest[r][1] <= latest[r][1]
      <3>1. latest[r][1] \in Nat
        BY <1>1, LatestClock
      <3> QED
        BY <3>1
    <2> QED
      BY <1>1, <1>11, <2>1, <2>2 DEF Grows, CallsTypeOK
  <1>13. CallsTypeOK'
    BY <1>1, <1>4, <1>8, <1>10, <1>12 DEF CallsTypeOK
  <1>14. \A r \in Resources : Moves(r) /\ Rooted(r)' /\ Ranked(r)'
    BY <1>10, <1>12, <1>13, RobotKeepsOrder
  <1>15. Stage(c)' /\ Honest(c)' /\ Taking(c)' /\ Lending(c)'
    <2>1. Stage(c)'
      BY <1>1, <1>5, <1>9 DEF Stage
    <2>2. Honest(c)'
      <3>1. j.stub.lease = "none" /\ j.stub.result = "none" =>
              j.leases = <<>> /\ results = <<>>
        BY <1>1, <1>3 DEF Honest
      <3>2. ASSUME ~done, j.stub.verdict = "absent"
            PROVE  /\ j.stub.result # "none"
                   /\ \E i \in DOMAIN results : results[i].status # "OK"
        <4>1. refused
          BY <1>2, <3>2
        <4>2. j.leases # <<>>
          BY <4>1
        <4>3. j.stub.result # "none"
          BY <1>1, <3>1, <3>2, <4>2 DEF Regular
        <4> QED
          BY <1>3, <4>1, <4>3
      <3> QED
        BY <1>5, <1>7, <1>9, <3>1, <3>2 DEF Honest
    <2>3. Taking(c)'
      <3>1. SUFFICES ASSUME j.rpc \notin Deaf PROVE Taking(c)'
        BY <1>5, <1>9 DEF Taking
      <3>2. ASSUME NEW p \in Valid, NEW h \in DOMAIN j.leases, p = j.leases[h]
            PROVE  Fits(p)'
        <4>1. Fits(p)
          BY <1>1, <3>1, <3>2 DEF Taking
        <4>2. Moves(p.resource)
          BY <1>14, ValidParts
        <4> QED
          BY <1>1, <1>12, <1>13, <4>1, <4>2, FitsKept
      <3>3. latest' = Latest(j.leases)
        <4>1. j.rpc # InitReturn
          BY <3>1 DEF Deaf, InitReturn
        <4> QED
          BY <4>1 DEF Serve
      <3>4. ASSUME NEW result, NEW i \in DOMAIN results, result = results[i]
            PROVE  Sound(result)'
        <4>1. PICK h \in DOMAIN j.leases : result = UseResult(j.leases[h], Latest(j.leases))
          BY <1>3, <3>4
        <4>2. PICK p \in Valid : p = j.leases[h]
          BY <1>1
        <4>3. PICK known \in [Resources -> Clock \ {<<>>}] : known = Latest(j.leases)
          BY <1>1, LatestType
        <4>4. /\ result.status \in {"OK", "OLDER", "REVOKED"}
              /\ result.attempted = p
              /\ result.latest \in Valid
              /\ result.latest.resource = p.resource
              /\ result.latest.sequence = known[p.resource]
          BY <1>1, <4>1, <4>2, <4>3, UseResultType
        <4>5. Fits(p)'
          BY <3>2, <4>2
        <4>6. latest'[p.resource][1] \in Nat /\ IsValid(p) /\ IsValid(result.latest)
          BY <1>1, <1>12, <1>13, <4>4, ValidParts, LatestGrows
        <4>7. result.latest.sequence[1] <= latest'[p.resource][1]
          BY <3>3, <4>3, <4>4, <4>6
        <4> QED
          BY <4>4, <4>5, <4>6, <4>7 DEF Sound
      <3>5. PICK n \in Call : n = k
        BY <1>8
      <3>6. \A h \in DOMAIN n.leases : Fits(n.leases[h])'
        <4> SUFFICES ASSUME NEW h \in DOMAIN n.leases
                     PROVE  Fits(n.leases[h])'
          OBVIOUS
        <4>1. n.leases[h] \in Valid
          BY DEF Call
        <4>2. h \in DOMAIN j.leases /\ n.leases[h] = j.leases[h]
          BY <1>5, <3>5
        <4> QED
          BY <3>2, <4>1, <4>2
      <3>7. \A i \in DOMAIN n.answer.results : Sound(n.answer.results[i])'
        <4> SUFFICES ASSUME NEW i \in DOMAIN n.answer.results
                     PROVE  Sound(n.answer.results[i])'
          OBVIOUS
        <4>1. i \in DOMAIN results /\ n.answer.results[i] = results[i]
          BY <1>5, <1>7, <3>5
        <4> QED
          BY <3>4, <4>1
      <3>8. \A i \in DOMAIN n.answer.results : ~ (i <= n.taken)
        <4>1. n.answer.results \in Seq(Told) /\ n.taken = 0
          BY <1>5, <3>5 DEF Call, AnswerType
        <4> QED
          BY <4>1
      <3>9. calls'[c] = n /\ n.outcome = "none"
        BY <1>5, <1>9, <3>5
      <3> QED
        BY <3>6, <3>7, <3>8, <3>9 DEF Taking
    <2>4. Lending(c)'
      BY <1>1, <1>5, <1>9, <1>12, <1>13, LendingKept
    <2> QED
      BY <2>1, <2>2, <2>3, <2>4
  <1>16. \A d \in Calls \ {c} : calls[d].lent = NoLease
    BY <1>1, NothingLent
  <1>17. \A r \in Resources : Roomy(r)'
    BY <1>1, <1>5, <1>9, <1>10, RoomKept
  <1> QED
    BY <1>9, <1>12, <1>13, <1>14, <1>15, <1>16, <1>17, StepKeepsAtOne

-----------------------------------------------------------------------------
(* The leases that are derived *)

(* The next lease begins like the lease. *)
LEMMA NextAlike ==
  ASSUME NEW p \in Valid, Len(p.sequence) \in {2, 3}
  PROVE  LET s == p.sequence  t == Increment(p).sequence IN
         /\ Increment(p) \in Valid
         /\ Increment(p).resource = p.resource
         /\ Len(t) = Len(s)
         /\ t[1] = s[1]
         /\ Len(s) = 3 => t[2] = s[2]
  <1> DEFINE s == p.sequence
             n == Len(s)
             v == (s[n] + 1) % SeqMod
             t == [s EXCEPT ![n] = v]
  <1>1. p \in LeaseProto /\ IsValid(p) /\ s \in Seq(SeqNumber) /\ n \in Nat \ {0}
    BY ValidParts DEF Clock
  <1>2. /\ Increment(p) \in Valid
        /\ Increment(p).resource = p.resource
    BY <1>1, IncrementType DEF Valid
  <1>3. Increment(p).sequence = t
    BY <1>1 DEF Increment, LeaseProto
  <1>4. DOMAIN t = DOMAIN s /\ \A i \in DOMAIN s : i # n => t[i] = s[i]
    OBVIOUS
  <1>5. Len(t) = n
    <2>1. s[n] \in SeqNumber
      BY <1>1
    <2>2. v \in SeqNumber
      BY <2>1, SeqModAssumption DEF SeqNumber
    <2> HIDE DEF v
    <2> QED
      BY <1>1, <2>2
  <1>6. 1 \in DOMAIN s /\ 1 # n /\ (n = 3 => 2 \in DOMAIN s)
    <2>1. DOMAIN s = 1 .. n /\ n \in {2, 3}
      BY <1>1
    <2> HIDE DEF s, n
    <2> QED
      BY <2>1
  <1> HIDE DEF s, t
  <1> QED
    BY <1>2, <1>3, <1>4, <1>5, <1>6 DEF s

(* Below the limit the next lease comes after the lease, and begins alike. *)
LEMMA NextLease ==
  ASSUME NEW p \in Valid, Len(p.sequence) \in {2, 3}, ~AtLimit(p)
  PROVE  LET s == p.sequence  t == Increment(p).sequence IN
         /\ Increment(p) \in Valid
         /\ Increment(p).resource = p.resource
         /\ Len(t) = Len(s)
         /\ t[1] = s[1]
         /\ Len(s) = 3 => t[2] = s[2]
         /\ t[Len(t)] = s[Len(s)] + 1
         /\ Before(s, t)
  <1> DEFINE s == p.sequence
             t == Increment(p).sequence
             n == Len(s)
  <1>1. p \in LeaseProto /\ IsValid(p)
    BY ValidParts
  <1>2. /\ Increment(p) \in LeaseProto /\ IsValid(Increment(p))
        /\ Increment(p).resource = p.resource
    BY <1>1, IncrementType
  <1>3. /\ Len(t) = n
        /\ \A i \in 1 .. n - 1 : t[i] = s[i]
        /\ t[n] = s[n] + 1
    BY <1>1, IncrementClock
  <1>4. s[n] \in Nat
    BY <1>1, LastNumber
  <1> HIDE DEF s, t
  <1>5. 1 \in 1 .. n - 1 /\ (n = 3 => 2 \in 1 .. n - 1)
    BY DEF s
  <1>6. Before(s, t)
    <2>1. n \in 1 .. Shorter(s, t)
      BY <1>3, <1>5 DEF Shorter
    <2>2. s[n] < t[n] /\ \A i \in 1 .. n - 1 : s[i] = t[i]
      BY <1>3, <1>4
    <2> QED
      BY <2>1, <2>2 DEF Before
  <1> QED
    BY <1>2, <1>3, <1>5, <1>6 DEF s, t, Valid

(* A sublease begins like the lease it derives from, and ends in zero. *)
LEMMA NextSublease ==
  ASSUME NEW p \in Valid
  PROVE  LET s == p.sequence  t == CreateSublease(p).sequence IN
         /\ CreateSublease(p) \in Valid
         /\ CreateSublease(p).resource = p.resource
         /\ Len(t) = Len(s) + 1
         /\ \A i \in 1 .. Len(s) : t[i] = s[i]
         /\ t[Len(t)] = 0
  <1>1. p \in LeaseProto /\ IsValid(p) /\ p.sequence \in Clock
    BY ValidParts
  <1>2. CreateSublease(p).sequence = Append(p.sequence, 0)
    BY <1>1 DEF CreateSublease, LeaseProto
  <1>3. /\ Len(Append(p.sequence, 0)) = Len(p.sequence) + 1
        /\ Append(p.sequence, 0)[Len(p.sequence) + 1] = 0
    BY <1>1 DEF Clock
  <1> QED
    BY <1>1, <1>2, <1>3, SubleaseType, SubleaseClock DEF Valid

(* Entries of the wallet that were made from messages. *)
LEMMA EntryOfMessage ==
  ASSUME NEW p \in Valid
  PROVE  /\ LeaseOf(p) \in Entries /\ LeaseOf(p) # NoLease
         /\ LeaseOf(p).proto = p /\ IsSelfOwned(LeaseOf(p))
  <1>1. p \in LeaseProto /\ IsValid(p)
    BY ValidParts
  <1>2. LeaseOf(p) \in Lease
    BY <1>1 DEF LeaseOf, Lease, LeaseStatus
  <1> QED
    BY <1>1, <1>2, CallsAssumption DEF Entries, LeaseOf, IsSelfOwned

(* A wallet entry that does not change keeps its room. *)
LEMMA RoomyAs ==
  ASSUME CallsTypeOK', NEW r \in Resources, NEW n \in Nat,
         wallet'[r] # NoLease /\ r \notin torn' =>
           wallet'[r].proto.sequence[Len(wallet'[r].proto.sequence)] + n <= MaxUse[r],
         IsFiniteSet(Asked(calls', r)), Cardinality(Asked(calls', r)) <= n
  PROVE  Roomy(r)'
  <1>1. Claims(r)' = Cardinality(Asked(calls', r)) /\ Claims(r)' \in Nat
    BY FS_CardinalityType DEF Claims, Asked, Places
  <1>2. MaxUse[r] \in Nat
    BY BoundsAssumption, SeqModAssumption
  <1>3. ASSUME wallet'[r] # NoLease, r \notin torn'
        PROVE  wallet'[r].proto.sequence[Len(wallet'[r].proto.sequence)] + Claims(r)' <= MaxUse[r]
    <2> DEFINE m == wallet'[r].proto.sequence[Len(wallet'[r].proto.sequence)]
    <2>1. m \in Nat
      <3>1. wallet'[r].proto \in Valid
        BY <1>3, EntryClock
      <3> QED
        BY <3>1, ValidParts, ClockNumbers
    <2>2. m + n <= MaxUse[r]
      BY <1>3
    <2> HIDE DEF m
    <2>3. m + Claims(r)' <= MaxUse[r]
      BY <1>1, <1>2, <2>1, <2>2
    <2> QED
      BY <2>3 DEF m
  <1> QED
    BY <1>3 DEF Roomy

-----------------------------------------------------------------------------
(* The program's actions *)

(* Acquire: the new lease is of a later grant than any lease or result.    *)
LEMMA AcquireKeeps ==
  ASSUME CallsInv, NEW r \in Resources, Acquire(r)
  PROVE  CallsInv'
  <1> DEFINE g == Grant(r)
             e == LeaseOf(CreateSublease(g))
  <1>1. CallsTypeOK /\ latest[r][1] < MaxRoot[r] /\ latest[r][1] \in Nat
    BY LatestClock DEF CallsInv, Acquire
  <1>2. /\ g \in Valid /\ g.resource = r /\ g.sequence = <<latest[r][1] + 1>>
    BY <1>1, GrantType
  <1>3. /\ latest' = [latest EXCEPT ![r] = g.sequence]
        /\ holder' = [holder EXCEPT ![r] = TRUE]
        /\ torn' = torn \ {r}
        /\ UNCHANGED <<calls, returns>>
    BY DEF Acquire
  <1>4. LeaseOf(g).proto = g /\ IsSelfOwned(LeaseOf(g))
    BY DEF LeaseOf, IsSelfOwned
  <1>5. wallet' = [wallet EXCEPT ![r] = e]
    BY <1>4, WalletAdds DEF Acquire
  <1> DEFINE q == CreateSublease(g)
  <1>6. /\ q \in Valid /\ q.resource = r
        /\ Len(q.sequence) = 2
        /\ q.sequence[1] = latest[r][1] + 1
        /\ q.sequence[2] = 0
    <2>1. Len(g.sequence) = 1 /\ g.sequence[1] = latest[r][1] + 1
      BY <1>2
    <2>2. /\ q \in Valid /\ q.resource = g.resource
          /\ Len(q.sequence) = Len(g.sequence) + 1
          /\ \A i \in 1 .. Len(g.sequence) : q.sequence[i] = g.sequence[i]
          /\ q.sequence[Len(q.sequence)] = 0
      BY <1>2, NextSublease
    <2> HIDE DEF g, q
    <2> QED
      BY <1>2, <2>1, <2>2
  <1>7. e \in Entries /\ e # NoLease /\ e.proto = q
    BY <1>6, EntryOfMessage
  <1>8. g.sequence \in Clock \ {<<>>}
    BY <1>2, ValidParts
  <1> HIDE DEF g, q, e
  <1>9. /\ wallet'[r] = e /\ \A x \in Resources \ {r} : wallet'[x] = wallet[x]
        /\ latest'[r] = g.sequence /\ \A x \in Resources \ {r} : latest'[x] = latest[x]
    BY <1>1, <1>3, <1>5 DEF CallsTypeOK
  <1>10. CallsTypeOK'
    BY <1>1, <1>3, <1>5, <1>7, <1>8 DEF CallsTypeOK
  <1>11. Grows
    <2> SUFFICES ASSUME NEW x \in Resources
                 PROVE  latest[x][1] <= latest'[x][1]
      BY DEF Grows
    <2>1. latest[x][1] \in Nat
      BY <1>1, LatestClock
    <2> QED
      BY <1>2, <1>9, <2>1
  <1>12. ASSUME NEW x \in Resources
         PROVE  Moves(x) /\ Rooted(x)' /\ Ranked(x)'
    <2>1. Rooted(x) /\ Ranked(x)
      BY DEF CallsInv
    <2>2. CASE x # r
      BY <1>3, <1>9, <2>1, <2>2
      DEF Moves, Intact, Wallet!Owned, Wallet!InWallet, Rooted, Ranked
    <2>3. CASE x = r
      <3>1. Moves(r)
        BY <1>1, <1>6, <1>7, <1>9 DEF Moves
      <3>2. returns[r] # NoLease =>
              /\ returns[r].proto.sequence[1] \in Nat
              /\ returns[r].proto.sequence[1] <= latest[r][1]
        BY <1>1, <2>1, <2>3, EntryRoot DEF CallsTypeOK, Rooted
      <3>3. latest'[r][1] = latest[r][1] + 1
        BY <1>2, <1>9
      <3>4. wallet'[r].proto = q /\ returns' = returns
        BY <1>3, <1>7, <1>9
      <3>5. Rooted(r)'
        <4>1. returns[r] # NoLease => returns[r].proto.sequence[1] <= latest'[r][1]
          BY <1>1, <3>2, <3>3
        <4>2. returns[r] # NoLease =>
                returns[r].proto.resource = r /\ Len(returns[r].proto.sequence) = 2
          BY <2>1, <2>3 DEF Rooted
        <4>3. q.sequence[1] <= latest'[r][1]
          BY <1>1, <1>6, <3>3
        <4> QED
          BY <1>6, <3>4, <4>1, <4>2, <4>3 DEF Rooted
      <3>6. Ranked(r)'
        <4>1. returns[r] # NoLease => q.sequence[1] > returns[r].proto.sequence[1]
          BY <1>1, <1>6, <3>2
        <4> QED
          BY <3>4, <4>1 DEF Ranked
      <3> QED
        BY <2>3, <3>1, <3>5, <3>6
    <2> QED
      BY <2>2, <2>3
  <1>13. ASSUME NEW x \in Resources
         PROVE  Roomy(x)'
    <2>1. Roomy(x)
      BY DEF CallsInv
    <2>2. CASE x # r
      BY <1>3, <1>9, <2>1, <2>2 DEF Roomy, Claims
    <2>3. CASE x = r
      <3>1. Asked(calls, r) = {}
        <4> SUFFICES ASSUME NEW y \in Asked(calls, r)
                     PROVE  FALSE
          OBVIOUS
        <4>1. PICK c \in Calls : \E i \in Places(calls[c].todo, r) : y = <<c, i>>
          BY AskedMeaning
        <4>2. Stage(c) /\ ~Concerns(c, r)
          BY DEF CallsInv, Acquire, Quiet
        <4>3. CASE calls[c].stage = "sending"
          BY <4>1, <4>2, <4>3 DEF Concerns, Places
        <4>4. CASE calls[c].stage # "sending"
          BY <4>1, <4>2, <4>4 DEF Stage, Places
        <4> QED
          BY <4>3, <4>4
      <3>2. Asked(calls', r) = {}
        BY <1>3, <3>1
      <3>3. IsFiniteSet(Asked(calls', r)) /\ Cardinality(Asked(calls', r)) <= 0
        BY <3>2, FS_EmptySet
      <3>4. MaxUse[r] \in Nat
        BY BoundsAssumption, SeqModAssumption
      <3>5. wallet'[r].proto.sequence[Len(wallet'[r].proto.sequence)] + 0 <= MaxUse[r]
        BY <1>6, <1>7, <1>9, <3>4
      <3>6. Roomy(r)'
        BY <1>10, <3>3, <3>5, RoomyAs
      <3> QED
        BY <2>3, <3>6
    <2> QED
      BY <2>2, <2>3
  <1> QED
    BY <1>3, <1>10, <1>11, <1>12, <1>13, StepKeepsAtNone

(* EndInit: a sublease of the lent lease is older than its successor, the  *)
(* lease that the robot was given.                                         *)
LEMMA EndInitKeeps ==
  ASSUME CallsInv, NEW c \in Calls, EndInit(c)
  PROVE  CallsInv'
  <1> DEFINE l == calls[c].lent
             p == l.proto
             r == p.resource
             w == CreateSublease(p)
             b == Increment(p)
  <1>1. /\ CallsTypeOK /\ calls \in [Calls -> Call] /\ calls[c] \in Call
        /\ l # NoLease /\ Lending(c)
    BY DEF CallsInv, CallsTypeOK, EndInit
  <1>2. /\ IsSelfOwned(l) /\ r \in Resources
        /\ Len(p.sequence) = 2 /\ p.sequence[2] < MaxUse[r]
        /\ p.sequence[1] <= latest[r][1]
        /\ \A d \in Calls \ {c} : calls[d].stage = "free"
    BY <1>1 DEF Lending
  <1>3. p \in Valid /\ l \in Entries
    BY <1>1 DEF Call, Entries, Lease, Valid
  <1>4. ~AtLimit(p)
    <2>1. p.sequence[2] \in Nat
      BY <1>2, <1>3, ValidParts, ClockNumbers
    <2> QED
      BY <1>2, <2>1, BoundsAssumption, SeqModAssumption DEF AtLimit
  <1>5. /\ w \in Valid /\ w.resource = r
        /\ Len(w.sequence) = 3
        /\ w.sequence[1] = p.sequence[1] /\ w.sequence[2] = p.sequence[2]
        /\ w.sequence[3] = 0
    <2>1. /\ w \in Valid /\ w.resource = r
          /\ Len(w.sequence) = Len(p.sequence) + 1
          /\ \A i \in 1 .. Len(p.sequence) : w.sequence[i] = p.sequence[i]
          /\ w.sequence[Len(w.sequence)] = 0
      BY <1>3, NextSublease
    <2> HIDE DEF p, w, r
    <2> QED
      BY <1>2, <2>1
  <1>6. /\ b \in Valid /\ b.resource = r
        /\ Len(b.sequence) = 2
        /\ b.sequence[1] = p.sequence[1] /\ b.sequence[2] = p.sequence[2] + 1
    <2>1. /\ b \in Valid /\ b.resource = r
          /\ Len(b.sequence) = Len(p.sequence)
          /\ b.sequence[1] = p.sequence[1]
          /\ b.sequence[Len(b.sequence)] = p.sequence[Len(p.sequence)] + 1
      BY <1>2, <1>3, <1>4, NextLease
    <2> HIDE DEF p, b, r
    <2> QED
      BY <1>2, <2>1
  <1>7. /\ wallet' = [wallet EXCEPT ![r] = LeaseOf(w)]
        /\ returns' = [returns EXCEPT ![r] = LeaseOf(b)]
        /\ calls' = [calls EXCEPT ![c] = Free]
        /\ UNCHANGED <<latest, holder, torn>>
    BY <1>2, WalletAdds DEF EndInit, robot, copies
  <1> HIDE DEF w, b
  <1>8. /\ LeaseOf(w) \in Entries /\ LeaseOf(w) # NoLease /\ LeaseOf(w).proto = w
        /\ LeaseOf(b) \in Entries /\ LeaseOf(b) # NoLease /\ LeaseOf(b).proto = b
    BY <1>5, <1>6, EntryOfMessage
  <1>9. \A d \in Calls : calls'[d] = Free
    <2>1. \A d \in Calls \ {c} : calls[d] = Free
      BY <1>2 DEF CallsInv, Stage
    <2> QED
      BY <1>1, <1>7, <2>1
  <1>10. CallsTypeOK'
    BY <1>1, <1>2, <1>7, <1>8, FreeType DEF CallsTypeOK
  <1>11. /\ Free.stage = "free" /\ Free.outcome = "none" /\ Free.todo = <<>>
         /\ Free.lent = NoLease
    BY DEF Free
  <1>12. ASSUME NEW d \in Calls
         PROVE  Stage(d)' /\ Honest(d)' /\ Lending(d)' /\ Taking(d)'
    <2>1. calls'[d] = Free
      BY <1>9
    <2>2. Stage(d)'
      BY <1>11, <2>1 DEF Stage
    <2>3. Honest(d)'
      BY <1>11, <2>1 DEF Honest
    <2>4. Lending(d)' /\ Taking(d)'
      BY <1>11, <2>1 DEF Lending, Taking
    <2> QED
      BY <2>2, <2>3, <2>4
  <1>13. ASSUME NEW x \in Resources
         PROVE  Rooted(x)' /\ Ranked(x)'
    <2>1. Rooted(x) /\ Ranked(x)
      BY DEF CallsInv
    <2>2. CASE x # r
      <3>1. wallet'[x] = wallet[x] /\ returns'[x] = returns[x] /\ latest' = latest
        BY <1>1, <1>7, <2>2 DEF CallsTypeOK
      <3> QED
        BY <2>1, <3>1 DEF Rooted, Ranked
    <2>3. CASE x = r
      <3>1. wallet'[x].proto = w /\ returns'[x].proto = b /\ latest' = latest
        BY <1>1, <1>2, <1>7, <1>8, <2>3 DEF CallsTypeOK
      <3>2. p.sequence[2] \in Nat
        BY <1>2, <1>3, ValidParts, ClockNumbers
      <3> HIDE DEF p
      <3>3. Rooted(x)'
        BY <1>2, <1>5, <1>6, <2>3, <3>1 DEF Rooted
      <3>4. Ranked(x)'
        BY <1>5, <1>6, <3>1, <3>2 DEF Ranked
      <3> QED
        BY <3>3, <3>4
    <2> QED
      BY <2>2, <2>3
  <1>14. ASSUME NEW x \in Resources
         PROVE  Roomy(x)'
    <2>1. Asked(calls', x) = {}
      <3> SUFFICES ASSUME NEW y \in Asked(calls', x)
                   PROVE  FALSE
        OBVIOUS
      <3>1. PICK d \in Calls : \E i \in Places(calls'[d].todo, x) : y = <<d, i>>
        BY AskedMeaning
      <3> QED
        BY <1>9, <1>11, <3>1 DEF Places
    <2>2. IsFiniteSet(Asked(calls', x)) /\ Cardinality(Asked(calls', x)) <= 0
      BY <2>1, FS_EmptySet
    <2>3. MaxUse[x] \in Nat
      BY BoundsAssumption, SeqModAssumption
    <2>4. wallet'[x] # NoLease /\ x \notin torn' =>
            wallet'[x].proto.sequence[Len(wallet'[x].proto.sequence)] + 0 <= MaxUse[x]
      <3>1. CASE x = r
        <4>1. wallet'[x].proto = w
          BY <1>1, <1>2, <1>7, <1>8, <3>1 DEF CallsTypeOK
        <4> QED
          BY <1>5, <2>3, <4>1
      <3>2. CASE x # r
        <4>1. wallet'[x] = wallet[x] /\ torn' = torn
          BY <1>1, <1>7, <3>2 DEF CallsTypeOK
        <4>2. SUFFICES ASSUME wallet[x] # NoLease, x \notin torn
                       PROVE  wallet[x].proto.sequence[Len(wallet[x].proto.sequence)] + 0
                                <= MaxUse[x]
          BY <4>1
        <4> DEFINE m == wallet[x].proto.sequence[Len(wallet[x].proto.sequence)]
        <4>3. m + Claims(x) <= MaxUse[x] /\ Claims(x) \in Nat
          BY <4>2, ClaimsCounts, FS_CardinalityType DEF CallsInv, Roomy
        <4>4. m \in Nat
          BY <1>1, <4>2, EntryClock, ValidParts, ClockNumbers
        <4> HIDE DEF m
        <4>5. m + 0 <= MaxUse[x]
          BY <2>3, <4>3, <4>4
        <4> QED
          BY <4>5 DEF m
      <3> QED
        BY <3>1, <3>2
    <2> QED
      BY <1>10, <2>2, <2>4, RoomyAs
  <1> QED
    BY <1>10, <1>12, <1>13, <1>14 DEF CallsInv

(* Attach: the clock has room for the lease, which is the wallet's newest. *)
LEMMA AttachKeeps ==
  ASSUME CallsInv, CopiesInv, NEW c \in Calls, Attach(c),
         calls[c].stage = "sending", calls[c].todo # <<>>, UNCHANGED <<robot, returns>>,
         NEW r \in Resources, r = Head(calls[c].todo)
  PROVE  CallsInv'
  <1> DEFINE j == calls[c]
             l == held[c]
             p == l.proto
             q == Increment(p)
             e == LeaseOf(q)
             k == [j EXCEPT !.todo = Tail(@), !.leases = Append(@, q)]
  <1>1. /\ calls \in [Calls -> Call] /\ j \in Call /\ CallsTypeOK
        /\ j.todo \in Seq(Resources) /\ j.leases \in Seq(Valid)
        /\ j.answer = NoAnswer /\ j.taken = 0 /\ j.outcome = "none"
        /\ j.rpc \in Rpcs \cup {InitReturn} /\ Regular(j.stub, j.rpc)
        /\ Stage(c) /\ Honest(c) /\ Lending(c) /\ Taking(c)
    BY DEF CallsInv, CallsTypeOK, Stage, Call
  <1>2. /\ wallet' = [wallet EXCEPT ![r] = e]
        /\ \/ wallet[r] = l /\ torn' = torn
           \/ torn' = torn \cup {r} /\ wallet[r] # l
    BY StoreMeaning DEF Attach
  <1>3. r \in Resources /\ Tail(j.todo) \in Seq(Resources)
    BY <1>1
  <1>4. Rooted(r) /\ Ranked(r) /\ Roomy(r) /\ Holding(c)
    BY <1>3 DEF CallsInv, CopiesInv
  <1>23. l \in Entries /\ l # NoLease
    BY DEF CopiesInv, CopiesTypeOK, Attach
  <1>5. /\ p \in Valid /\ p.resource = r /\ Len(p.sequence) \in {2, 3}
        /\ p.sequence[1] <= latest[r][1]
        /\ Outranked(l, r)
        /\ IsSelfOwned(l)
    BY <1>3, <1>4, <1>23, EntryRoot DEF Holding, Bears
  <1>22. /\ \A x \in Resources \ {r} : x \in torn' <=> x \in torn
         /\ r \notin torn' => wallet[r] = l /\ Intact(r)
    BY <1>2, <1>5, <1>23, WalletReads DEF Intact
  <1> DEFINE s == p.sequence
             t == q.sequence
             n == s[Len(s)]
  <1>6. calls'[c].todo = Tail(j.todo) /\ \A d \in Calls \ {c} : calls'[d] = calls[d]
    BY <1>1 DEF Attach, Call
  <1>7. ASSUME NEW x \in Resources
        PROVE  /\ IsFiniteSet(Asked(calls', x))
               /\ Cardinality(Asked(calls', x)) <= Claims(x)
               /\ x = r => Cardinality(Asked(calls', x)) + 1 <= Claims(x)
               /\ Cardinality(Asked(calls', x)) \in Nat /\ Claims(x) \in Nat
    <2> DEFINE f == calls
               g == calls'
    <2>1. IsFiniteSet(Asked(f, x)) /\ Claims(x) = Cardinality(Asked(f, x))
      BY ClaimsCounts DEF CallsInv, Roomy
    <2>2. \A d \in Calls : f[d].todo \in Seq(Resources)
      BY <1>1 DEF Call
    <2>3. /\ f[c].todo # <<>> /\ g[c].todo = Tail(f[c].todo) /\ r = Head(f[c].todo)
          /\ \A d \in Calls \ {c} : g[d].todo = f[d].todo
      BY <1>6
    <2> HIDE DEF f, g
    <2>4. /\ IsFiniteSet(Asked(g, x))
          /\ Cardinality(Asked(g, x)) <= Cardinality(Asked(f, x))
          /\ x = Head(f[c].todo) => Cardinality(Asked(g, x)) + 1 <= Cardinality(Asked(f, x))
          /\ Cardinality(Asked(g, x)) \in Nat /\ Cardinality(Asked(f, x)) \in Nat
      BY <2>1, <2>2, <2>3, AskedNext
    <2> QED
      BY <2>1, <2>3, <2>4 DEF g
  <1>8. n \in Nat
    <2>1. p \in LeaseProto /\ IsValid(p)
      BY <1>5, ValidParts
    <2> HIDE DEF p
    <2> QED
      BY <2>1, LastNumber, SeqModAssumption DEF SeqNumber
  <1>9. ASSUME r \notin torn'
        PROVE  n + Claims(r) <= MaxUse[r] /\ ~AtLimit(p)
    <2>1. n + Claims(r) <= MaxUse[r]
      BY <1>4, <1>9, <1>22, <1>23 DEF Roomy, Intact
    <2>2. MaxUse[r] \in 0 .. SeqMod - 1
      BY BoundsAssumption
    <2> HIDE DEF n
    <2>3. Claims(r) \in Nat /\ Claims(r) >= 1
      <3>1. /\ Cardinality(Asked(calls', r)) \in Nat /\ Claims(r) \in Nat
            /\ Cardinality(Asked(calls', r)) + 1 <= Claims(r)
        BY <1>3, <1>7
      <3> QED
        BY <3>1
    <2>4. n < MaxUse[r]
      BY <1>8, <2>1, <2>2, <2>3, SeqModAssumption
    <2>5. n # SeqMod - 1
      BY <1>8, <2>2, <2>4, SeqModAssumption
    <2> QED
      BY <2>1, <2>5 DEF AtLimit, n
  <1>10. /\ q \in Valid /\ q.resource = r
         /\ Len(t) = Len(s) /\ t[1] = s[1]
         /\ Len(s) = 3 => t[2] = s[2]
    BY <1>5, NextAlike
  <1>24. r \notin torn' => t[Len(t)] = n + 1 /\ Before(s, t)
    BY <1>5, <1>9, NextLease
  <1>11. e \in Entries /\ e # NoLease /\ e.proto = q
    BY <1>10, EntryOfMessage
  <1> HIDE DEF e
  <1>12. /\ wallet'[r] = e /\ \A x \in Resources \ {r} : wallet'[x] = wallet[x]
         /\ UNCHANGED <<latest, holder, returns>>
    BY <1>1, <1>2, <1>3 DEF CallsTypeOK, robot
  <1>13. calls' = [calls EXCEPT ![c] = k]
    BY <1>1 DEF Attach, Call, LeaseOf
  <1> HIDE DEF q
  <1>14. /\ k.stage = "sending" /\ k.rpc = j.rpc /\ k.stub = j.stub
         /\ k.todo = Tail(j.todo) /\ k.leases = Append(j.leases, q) /\ k.taken = 0
         /\ k.outcome = "none" /\ k.lent = j.lent /\ k.answer = NoAnswer
    BY <1>1 DEF Call
  <1>15. k \in Call
    <2>1. Append(j.leases, q) \in Seq(Valid)
      <3>1. j.leases \in Seq(Valid) /\ q \in Valid
        BY <1>1, <1>10
      <3> HIDE DEF j, k
      <3> QED
        BY <3>1
    <2> QED
      BY <1>1, <1>3, <1>14, <2>1 DEF Call, Stages
  <1> HIDE DEF k
  <1>16. calls'[c] = k
    BY <1>1, <1>13
  <1>17. CallsTypeOK'
    BY <1>1, <1>2, <1>3, <1>11, <1>12, <1>13, <1>15 DEF CallsTypeOK
  <1>18. Grows
    <2> SUFFICES ASSUME NEW x \in Resources
                 PROVE  latest[x][1] <= latest'[x][1]
      BY DEF Grows
    <2>1. latest[x][1] \in Nat
      BY <1>1, LatestClock
    <2> QED
      BY <1>12, <2>1
  <1>19. ASSUME NEW x \in Resources
         PROVE  Moves(x) /\ Rooted(x)' /\ Ranked(x)' /\ Roomy(x)'
    <2>1. Rooted(x) /\ Ranked(x) /\ Roomy(x)
      BY DEF CallsInv
    <2>2. CASE x # r
      <3>1. wallet'[x] = wallet[x]
        BY <1>12, <2>2
      <3>2. Moves(x) /\ Rooted(x)' /\ Ranked(x)'
        BY <1>12, <1>22, <2>1, <2>2, <3>1
        DEF Moves, Intact, Wallet!Owned, Wallet!InWallet, Rooted, Ranked
      <3>3. wallet'[x] # NoLease /\ x \notin torn' =>
              wallet'[x].proto.sequence[Len(wallet'[x].proto.sequence)] + Claims(x)
                <= MaxUse[x]
        BY <1>22, <2>1, <2>2, <3>1 DEF Roomy
      <3>4. Roomy(x)'
        BY <1>7, <1>17, <3>3, RoomyAs
      <3> QED
        BY <3>2, <3>4
    <2>3. CASE x = r
      <3>1. Moves(r)
        BY <1>11, <1>12, <1>22, <1>24 DEF Moves, Intact
      <3>2. wallet'[r].proto = q /\ wallet'[r] # NoLease
        BY <1>11, <1>12
      <3>3. Rooted(r)'
        BY <1>4, <1>5, <1>10, <1>12, <3>2 DEF Rooted
      <3>4. Ranked(r)'
        BY <1>5, <1>10, <1>12, <3>2 DEF Ranked, Outranked
      <3> DEFINE m == Cardinality(Asked(calls', r))
      <3>5. m \in Nat /\ m + 1 <= Claims(r) /\ Claims(r) \in Nat
        BY <1>3, <1>7
      <3>6. r \notin torn' => t[Len(t)] + m <= MaxUse[r]
        <4>1. r \notin torn' => t[Len(t)] = n + 1 /\ n \in Nat /\ n + Claims(r) <= MaxUse[r]
          BY <1>8, <1>9, <1>24
        <4>2. MaxUse[r] \in Nat
          BY BoundsAssumption, SeqModAssumption
        <4> HIDE DEF m, n, s, t, p
        <4> QED
          BY <3>5, <4>1, <4>2
      <3>7. wallet'[r] # NoLease /\ r \notin torn' =>
              wallet'[r].proto.sequence[Len(wallet'[r].proto.sequence)] + m <= MaxUse[r]
        BY <3>2, <3>6
      <3>8. IsFiniteSet(Asked(calls', r)) /\ m <= m
        BY <1>3, <1>7
      <3>9. Roomy(r)'
        BY <1>3, <1>17, <3>5, <3>7, <3>8, RoomyAs
      <3> QED
        BY <2>3, <3>1, <3>3, <3>4, <3>9
    <2> QED
      BY <2>2, <2>3
  <1>20. Stage(c)' /\ Honest(c)' /\ Taking(c)' /\ Lending(c)'
    <2>1. Stage(c)'
      BY <1>1, <1>14, <1>16 DEF Stage
    <2>2. Honest(c)'
      BY <1>1, <1>14, <1>16 DEF Honest, NoAnswer
    <2>3. Taking(c)'
      <3>1. SUFFICES ASSUME j.rpc \notin Deaf PROVE Taking(c)'
        BY <1>14, <1>16 DEF Taking
      <3>2. PICK m \in Call : m = k
        BY <1>15
      <3>3. PICK new \in Valid : new = q
        BY <1>10
      <3>4. Fits(new)'
        <4>1. wallet'[r].proto.sequence = new.sequence /\ new.resource = r
          BY <1>10, <1>11, <1>12, <3>3
        <4>2. new.sequence[1] <= latest'[r][1]
          BY <1>5, <1>10, <1>12, <3>3
        <4>3. Since(new, r)'
          BY <4>1 DEF Since
        <4> QED
          BY <4>1, <4>2, <4>3 DEF Fits
      <3>5. \A i \in DOMAIN m.leases : Fits(m.leases[i])'
        <4> SUFFICES ASSUME NEW i \in DOMAIN m.leases
                     PROVE  Fits(m.leases[i])'
          OBVIOUS
        <4>1. PICK had \in Seq(Valid) : had = j.leases
          BY <1>1
        <4>2. m.leases = Append(had, new)
          BY <1>14, <3>2, <3>3, <4>1
        <4>3. CASE i = Len(had) + 1
          BY <3>4, <4>2, <4>3
        <4>4. CASE i # Len(had) + 1
          <5>1. i \in DOMAIN had /\ m.leases[i] = had[i] /\ had[i] \in Valid
            BY <4>2, <4>4
          <5>2. Fits(had[i])
            BY <1>1, <3>1, <4>1, <5>1 DEF Taking
          <5>3. Moves(had[i].resource)
            BY <1>19, <5>1, ValidParts
          <5> QED
            BY <1>1, <1>17, <1>18, <5>1, <5>2, <5>3, FitsKept
        <4> QED
          BY <4>3, <4>4
      <3>6. calls'[c] = m /\ m.outcome = "none" /\ m.stage = "sending"
        BY <1>14, <1>16, <3>2
      <3> QED
        BY <3>5, <3>6 DEF Taking
    <2>4. Lending(c)'
      BY <1>6, <1>14, <1>16, <1>17, <1>18, LendingKept
    <2> QED
      BY <2>1, <2>2, <2>3, <2>4
  <1>21. \A d \in Calls \ {c} : calls[d].lent = NoLease
    BY NothingLent
  <1> QED
    BY <1>6, <1>17, <1>18, <1>19, <1>20, <1>21, StepKeepsAtOne

(* What an answer does to a lease: at most, it is no longer owned. *)
LEMMA UpdateParts ==
  ASSUME NEW l \in Entries, l # NoLease, NEW result
  PROVE  LET u == UpdateFromLeaseUseResult(l, result) IN
         /\ u \in Entries /\ u # NoLease /\ u.proto = l.proto
         /\ u = l \/ ~IsSelfOwned(u)
  <1> DEFINE u == UpdateFromLeaseUseResult(l, result)
  <1>1. l \in Lease /\ IsValid(l.proto)
    BY DEF Entries
  <1>2. u \in Lease /\ u.proto = l.proto
    BY <1>1, UpdateType
  <1>3. u = l \/ ~IsSelfOwned(u)
    BY <1>1 DEF UpdateFromLeaseUseResult, IsSelfOwned, Lease
  <1> QED
    BY <1>1, <1>2, <1>3, CallsAssumption DEF Entries

(* An owned lease stays so if it has caught up with the robot's latest, or *)
(* if it is not the one whose use was refused nor a sublease of it.        *)
LEMMA UpdateMeaning ==
  ASSUME NEW l \in Entries, l # NoLease, IsSelfOwned(l), NEW result,
         result.status \in {"OK", "OLDER", "REVOKED"},
         result.attempted \in Valid, result.attempted.resource = l.proto.resource,
         result.latest \in Valid, result.latest.resource = l.proto.resource
  PROVE  UpdateFromLeaseUseResult(l, result) = l <=>
           /\ result.status = "OLDER" =>
                \/ result.latest.sequence = l.proto.sequence
                \/ Before(result.latest.sequence, l.proto.sequence)
           /\ result.status = "REVOKED" =>
                Compare(l.proto, result.attempted) \notin {"SAME", "SUB_LEASE"}
  <1>1. l \in Lease /\ l.proto \in Valid /\ l.status = "SELF_OWNER"
    BY DEF Entries, Valid, Lease, IsSelfOwned
  <1>2. SupersedesOlderResult(l.proto, result) <=>
          \/ result.latest.sequence = l.proto.sequence
          \/ Before(result.latest.sequence, l.proto.sequence)
    <2>1. IsValid(result.latest)
      BY ValidParts
    <2>2. /\ Compare(l.proto, result.latest) = "NEWER" <=>
               Before(result.latest.sequence, l.proto.sequence)
          /\ Compare(l.proto, result.latest) = "SAME" <=>
               l.proto.sequence = result.latest.sequence
      BY <1>1, OlderMeansBefore
    <2> QED
      BY <2>1, <2>2 DEF SupersedesOlderResult
  <1>3. \A s : s # "SELF_OWNER" => [l EXCEPT !.status = s] # l
    BY <1>1 DEF Lease
  <1>4. CASE result.status = "OLDER"
    BY <1>2, <1>3, <1>4 DEF UpdateFromLeaseUseResult
  <1>5. CASE result.status = "REVOKED"
    BY <1>3, <1>5 DEF UpdateFromLeaseUseResult, ConcernedByRevocation
  <1>6. CASE result.status = "OK"
    BY <1>6 DEF UpdateFromLeaseUseResult
  <1> QED
    BY <1>4, <1>5, <1>6

(* What taking a result in does to the wallet: nothing where it has lost   *)
(* the lease; otherwise what the result makes of the copy replaces it.     *)
Takes(result) ==
  LET r == result.attempted.resource IN
  \/ wallet[r] = NoLease /\ UNCHANGED <<wallet, torn>>
  \/ \E l \in Entries \ {NoLease} :
       /\ r \in Resources /\ l.proto.resource = r
       /\ Len(l.proto.sequence) \in {2, 3}
       /\ l.proto.sequence[1] <= latest[r][1]
       /\ Outranked(l, r)
       /\ wallet' = [wallet EXCEPT ![r] = UpdateFromLeaseUseResult(l, result)]
       /\ \/ l = wallet[r] /\ torn' = torn
          \/ torn' = torn \cup {r}

(* The wallet after a result that was sound: it is settled. *)
LEMMA TakenIsSettled ==
  ASSUME CallsTypeOK, NEW result, result.attempted \in Valid, result.latest \in Valid,
         Sound(result), Rooted(result.attempted.resource),
         UNCHANGED latest, Takes(result)
  PROVE  Settles(result)'
  <1>1. PICK r \in Resources : r = result.attempted.resource
    BY ValidParts
  <1> SUFFICES ASSUME Intact(r)'
               PROVE  /\ result.status = "OLDER" => Since(result.latest, r)'
                      /\ result.status = "REVOKED" =>
                           Before(result.attempted.sequence, wallet'[r].proto.sequence)
    BY <1>1 DEF Settles
  <1>2. wallet'[r] # NoLease /\ IsSelfOwned(wallet'[r]) /\ r \notin torn'
    BY DEF Intact, Wallet!Owned, Wallet!InWallet, Wallet!IsSelfOwned, IsSelfOwned
  <1>3. PICK l \in Entries \ {NoLease} :
          /\ l = wallet[r] /\ torn' = torn
          /\ wallet' = [wallet EXCEPT ![r] = UpdateFromLeaseUseResult(l, result)]
    BY <1>1, <1>2 DEF Takes
  <1>5. wallet'[r] = UpdateFromLeaseUseResult(l, result)
    BY <1>3 DEF CallsTypeOK
  <1>6. wallet'[r] = l /\ IsSelfOwned(l) /\ l # NoLease
    BY <1>2, <1>3, <1>5, UpdateParts
  <1>7. l.proto \in Valid /\ l.proto.resource = r
    BY <1>1, <1>3, <1>6, EntryRoot DEF Rooted
  <1>8. /\ result.status \in {"OK", "OLDER", "REVOKED"}
        /\ result.latest.resource = r
        /\ Fits(result.attempted)
    BY <1>1 DEF Sound
  <1>9. /\ result.status = "OLDER" =>
             \/ result.latest.sequence = l.proto.sequence
             \/ Before(result.latest.sequence, l.proto.sequence)
        /\ result.status = "REVOKED" =>
             Compare(l.proto, result.attempted) \notin {"SAME", "SUB_LEASE"}
    <2>1. UpdateFromLeaseUseResult(l, result) = l
      BY <1>5, <1>6
    <2>2. /\ result.attempted.resource = l.proto.resource
          /\ result.latest.resource = l.proto.resource
      BY <1>1, <1>7, <1>8
    <2> QED
      BY <1>6, <1>8, <2>1, <2>2, UpdateMeaning
  <1>10. result.status = "OLDER" => Since(result.latest, r)'
    BY <1>6, <1>9 DEF Since
  <1>11. ASSUME result.status = "REVOKED"
         PROVE  Before(result.attempted.sequence, wallet'[r].proto.sequence)
    <2>1. Intact(r)
      BY <1>2, <1>3, <1>6, WalletReads DEF Intact
    <2>2. \/ result.attempted.sequence = l.proto.sequence
          \/ Before(result.attempted.sequence, l.proto.sequence)
      BY <1>1, <1>3, <1>8, <2>1 DEF Fits, Since
    <2>3. result.attempted.sequence # l.proto.sequence
      BY <1>1, <1>7, <1>9, <1>11, OlderMeansBefore
    <2> QED
      BY <1>6, <2>2, <2>3
  <1> QED
    BY <1>10, <1>11

(* A result changes the wallet as an answer does, or not at all. *)
LEMMA TakingMoves ==
  ASSUME CallsInv, NEW result, UNCHANGED <<latest, returns>>, Takes(result)
  PROVE  /\ wallet' \in [Resources -> Entries]
         /\ \A r \in Resources : Moves(r) /\ Rooted(r)' /\ Ranked(r)'
         /\ \A r \in Resources : wallet'[r] # NoLease /\ r \notin torn' =>
              wallet[r] # NoLease /\ r \notin torn /\ wallet'[r].proto = wallet[r].proto
  <1>1. wallet \in [Resources -> Entries]
    BY DEF CallsInv, CallsTypeOK
  <1>2. ASSUME NEW r \in Resources, wallet'[r] = wallet[r], r \in torn' <=> r \in torn
        PROVE  Moves(r) /\ Rooted(r)' /\ Ranked(r)'
    <2>1. Rooted(r) /\ Ranked(r)
      BY DEF CallsInv
    <2> QED
      BY <1>2, <2>1 DEF Moves, Intact, Wallet!Owned, Wallet!InWallet, Rooted, Ranked
  <1>3. CASE UNCHANGED <<wallet, torn>>
    BY <1>1, <1>2, <1>3
  <1>4. CASE ~UNCHANGED <<wallet, torn>>
    <2>1. PICK r \in Resources : r = result.attempted.resource
      BY <1>4 DEF Takes
    <2>2. PICK l \in Entries \ {NoLease} :
            /\ l.proto.resource = r
            /\ Len(l.proto.sequence) \in {2, 3}
            /\ l.proto.sequence[1] <= latest[r][1]
            /\ Outranked(l, r)
            /\ wallet' = [wallet EXCEPT ![r] = UpdateFromLeaseUseResult(l, result)]
            /\ \/ l = wallet[r] /\ torn' = torn
               \/ torn' = torn \cup {r}
      BY <1>4, <2>1 DEF Takes
    <2>3. PICK u \in Entries \ {NoLease} :
            /\ u = UpdateFromLeaseUseResult(l, result)
            /\ u.proto = l.proto
            /\ u = l \/ ~IsSelfOwned(u)
      BY <2>2, UpdateParts
    <2>4. /\ wallet' = [wallet EXCEPT ![r] = u]
          /\ wallet'[r] = u /\ \A x \in Resources \ {r} : wallet'[x] = wallet[x]
      BY <1>1, <2>2, <2>3
    <2>5. wallet' \in [Resources -> Entries]
      BY <1>1, <2>4
    <2>6. ASSUME NEW x \in Resources, x # r
          PROVE  wallet'[x] = wallet[x] /\ (x \in torn' <=> x \in torn)
      BY <2>2, <2>4, <2>6
    <2>7. Rooted(r) /\ Ranked(r)
      BY DEF CallsInv
    <2>8. Moves(r)
      <3>1. CASE r \in torn'
        BY <3>1 DEF Moves, Intact
      <3>2. CASE r \notin torn' /\ ~IsSelfOwned(u)
        BY <2>4, <3>2
        DEF Moves, Intact, Wallet!Owned, Wallet!IsSelfOwned, IsSelfOwned
      <3>3. CASE r \notin torn' /\ u = l
        BY <2>2, <2>4, <3>3 DEF Moves
      <3> QED
        BY <2>3, <3>1, <3>2, <3>3
    <2>9. Rooted(r)'
      BY <2>2, <2>3, <2>4, <2>7 DEF Rooted
    <2>10. Ranked(r)'
      BY <2>2, <2>3, <2>4 DEF Ranked, Outranked
    <2>11. ASSUME NEW x \in Resources
           PROVE  /\ Moves(x) /\ Rooted(x)' /\ Ranked(x)'
                  /\ wallet'[x] # NoLease /\ x \notin torn' =>
                       wallet[x] # NoLease /\ x \notin torn
                         /\ wallet'[x].proto = wallet[x].proto
      <3>1. CASE x # r
        BY <1>2, <2>6, <3>1
      <3>2. CASE x = r
        BY <2>2, <2>3, <2>4, <2>8, <2>9, <2>10, <3>2
      <3> QED
        BY <3>1, <3>2
    <2> QED
      BY <2>5, <2>11
  <1> QED
    BY <1>3, <1>4

(* The next of the results is settled, the others stay so. *)
LEMMA TakingKeeps ==
  ASSUME CallsInv, NEW c \in Calls, TakesNext(c), Takes(NextResult(c)),
         calls' = [calls EXCEPT ![c].taken = @ + 1]
  PROVE  CallsInv'
  <1> DEFINE j == calls[c]
             i == j.taken + 1
             k == [j EXCEPT !.taken = i]
  <1>1. /\ calls \in [Calls -> Call] /\ j \in Call /\ CallsTypeOK
        /\ j.stage = "answered" /\ j.outcome = "none" /\ j.taken \in Nat
        /\ j.answer.results \in Seq(Told)
        /\ Stage(c) /\ Honest(c) /\ Lending(c) /\ Taking(c)
    BY DEF CallsInv, CallsTypeOK, TakesNext, Accepts, Stage, Call, AnswerType
  <1>2. Passed(c) = j.answer.results /\ i \in 1 .. Len(j.answer.results)
    <2>1. i <= Len(Passed(c)) /\ Len(Passed(c)) \in Nat
      <3>1. Passed(c) = <<>> \/ Passed(c) = j.answer.results
        BY DEF Passed
      <3>2. Len(Passed(c)) \in Nat
        BY <1>1, <3>1
      <3> QED
        BY <1>1, <3>2 DEF TakesNext
    <2>2. Passed(c) # <<>>
      <3>1. i \in Nat /\ i > 0
        BY <1>1
      <3> HIDE DEF i
      <3> QED
        BY <2>1, <3>1
    <2>3. Passed(c) = j.answer.results
      BY <2>2 DEF Passed
    <2> QED
      BY <1>1, <2>1, <2>3
  <1>3. PICK result \in LeaseUseResult : result = j.answer.results[i]
    BY <1>1, <1>2 DEF Told
  <1>4. /\ calls' = [calls EXCEPT ![c] = k]
        /\ UNCHANGED <<latest, holder, returns>>
        /\ Takes(result)
    BY <1>1, <1>2, <1>3 DEF TakesNext, NextResult, robot, Call
  <1>5. /\ k.stage = "answered" /\ k.rpc = j.rpc /\ k.stub = j.stub
        /\ k.todo = j.todo /\ k.leases = j.leases /\ k.taken = i
        /\ k.outcome = "none" /\ k.lent = j.lent /\ k.answer = j.answer
    BY <1>1 DEF Call
  <1>6. i \in Nat
    BY <1>1
  <1> HIDE DEF i
  <1>7. k \in Call
    BY <1>1, <1>5, <1>6 DEF Call
  <1> HIDE DEF k
  <1>8. calls'[c] = k /\ \A d \in Calls \ {c} : calls'[d] = calls[d]
    BY <1>1, <1>4
  <1>9. /\ wallet' \in [Resources -> Entries]
        /\ \A r \in Resources : Moves(r) /\ Rooted(r)' /\ Ranked(r)'
        /\ \A r \in Resources : wallet'[r] # NoLease /\ r \notin torn' =>
             wallet[r] # NoLease /\ r \notin torn /\ wallet'[r].proto = wallet[r].proto
    BY <1>4, TakingMoves
  <1>10. CallsTypeOK'
    BY <1>1, <1>4, <1>7, <1>9 DEF CallsTypeOK
  <1>11. Grows
    <2> SUFFICES ASSUME NEW r \in Resources
                 PROVE  latest[r][1] <= latest'[r][1]
      BY DEF Grows
    <2>1. latest[r][1] \in Nat
      BY <1>1, LatestClock
    <2> QED
      BY <1>4, <2>1
  <1>12. ASSUME NEW r \in Resources
         PROVE  Roomy(r)'
    <2>1. \A d \in Calls : calls'[d].todo = calls[d].todo
      BY <1>5, <1>8
    <2>2. Asked(calls', r) = Asked(calls, r)
      BY <2>1, AskedSame
    <2>4. Claims(r)' = Claims(r)
      BY <2>2 DEF Asked, Places, Claims
    <2>3. Roomy(r)
      BY DEF CallsInv
    <2> QED
      BY <1>9, <2>2, <2>3, <2>4 DEF Roomy
  <1>13. Stage(c)' /\ Honest(c)' /\ Lending(c)' /\ Taking(c)'
    <2>1. Stage(c)'
      BY <1>1, <1>5, <1>8 DEF Stage
    <2>2. Honest(c)'
      BY <1>1, <1>5, <1>8 DEF Honest
    <2>3. Lending(c)'
      BY <1>1, <1>5, <1>8, <1>10, <1>11, LendingKept
    <2>4. Taking(c)'
      <3>1. SUFFICES ASSUME j.rpc \notin Deaf PROVE Taking(c)'
        BY <1>5, <1>8 DEF Taking
      <3>2. PICK n \in Call : n = k
        BY <1>7
      <3>3. ASSUME NEW h \in DOMAIN n.leases
            PROVE  Fits(n.leases[h])'
        <4>1. n.leases[h] \in Valid
          BY DEF Call
        <4>2. Fits(n.leases[h])
          BY <1>1, <1>5, <3>1, <3>2 DEF Taking
        <4>3. Moves(n.leases[h].resource)
          BY <1>9, <4>1, ValidParts
        <4> QED
          BY <1>1, <1>10, <1>11, <4>1, <4>2, <4>3, FitsKept
      <3>4. ASSUME NEW h \in DOMAIN n.answer.results
            PROVE  /\ Sound(n.answer.results[h])'
                   /\ h <= n.taken => Settles(n.answer.results[h])'
        <4>1. PICK x : x = n.answer.results[h]
          OBVIOUS
        <4>2. Sound(x) /\ (h <= j.taken => Settles(x))
          BY <1>1, <1>5, <3>1, <3>2, <4>1 DEF Taking
        <4>3. x.attempted \in Valid /\ x.latest \in Valid /\ x.attempted.resource \in Resources
          BY <4>1, <4>2, ResultParts
        <4>4. Moves(x.attempted.resource)
          BY <1>9, <4>3
        <4>5. Sound(x)'
          BY <1>1, <1>10, <1>11, <4>2, <4>3, <4>4, SoundKept
        <4>6. CASE h <= j.taken
          BY <1>1, <1>10, <4>1, <4>2, <4>3, <4>4, <4>5, <4>6, SettlesKept
        <4>7. CASE h = i
          <5>1. x = result
            BY <1>3, <1>5, <3>2, <4>1, <4>7
          <5>2. Rooted(x.attempted.resource)
            BY <4>3 DEF CallsInv
          <5>3. Settles(x)'
            BY <1>1, <1>4, <4>2, <4>3, <5>1, <5>2, TakenIsSettled
          <5> QED
            BY <4>1, <4>5, <5>3
        <4>8. h <= n.taken => h <= j.taken \/ h = i
          <5>1. h \in Nat
            BY DEF Call, AnswerType
          <5> QED
            BY <1>1, <1>5, <3>2, <5>1 DEF i
        <4> QED
          BY <4>1, <4>5, <4>6, <4>7, <4>8
      <3>5. calls'[c] = n /\ n.outcome = "none"
        BY <1>5, <1>8, <3>2
      <3> QED
        BY <3>3, <3>4, <3>5 DEF Taking
    <2> QED
      BY <2>1, <2>2, <2>3, <2>4
  <1>14. \A d \in Calls \ {c} : calls[d].lent = NoLease
    BY <1>1, NothingLent
  <1> QED
    BY <1>8, <1>9, <1>10, <1>11, <1>12, <1>13, <1>14, StepKeepsAtOne

(* What was made of the copy that the call holds is stored. *)
LEMMA TakeResultKeeps ==
  ASSUME CallsInv, CopiesInv, NEW c \in Calls, TakeResult(c)
  PROVE  CallsInv'
  <1> DEFINE result == NextResult(c)
             r == result.attempted.resource
             l == held[c]
  <1>1. /\ TakesNext(c)
        /\ calls' = [calls EXCEPT ![c].taken = @ + 1]
    BY DEF TakeResult
  <1>2. l \in Entries \ {NoLease} /\ Holding(c)
    BY DEF CopiesInv, CopiesTypeOK, TakeResult
  <1>3. calls[c].stage = "answered"
    BY <1>1 DEF TakesNext, Accepts
  <1>4. /\ r \in Resources /\ l.proto.resource = r
        /\ Len(l.proto.sequence) \in {2, 3}
        /\ l.proto.sequence[1] <= latest[r][1]
        /\ Outranked(l, r)
    BY <1>2, <1>3 DEF Holding, Bears
  <1>5. /\ wallet' = [wallet EXCEPT ![r] = UpdateFromLeaseUseResult(l, result)]
        /\ \/ l = wallet[r] /\ torn' = torn
           \/ torn' = torn \cup {r}
    BY StoreMeaning DEF TakeResult
  <1>6. Takes(NextResult(c))
    BY <1>2, <1>4, <1>5 DEF Takes
  <1> QED
    BY <1>1, <1>6, TakingKeeps

-----------------------------------------------------------------------------
(* The copies that calls hold *)

(* The root of the robot's latest lease only grows. *)
LEMMA StepGrows ==
  ASSUME CallsInv,
         \/ UNCHANGED latest
         \/ \E c \in Calls : Serve(c)
         \/ \E r \in Resources : Acquire(r) \/ OtherTakes(r) \/ RobotReturns(r)
  PROVE  Grows
  <1>1. CallsTypeOK /\ latest \in [Resources -> Clock \ {<<>>}]
    BY DEF CallsInv, CallsTypeOK
  <1>2. \A r \in Resources : latest[r][1] \in Nat /\ latest[r][1] <= latest[r][1]
    BY <1>1, LatestClock
  <1>3. CASE UNCHANGED latest
    BY <1>2, <1>3 DEF Grows
  <1>4. CASE \E c \in Calls : Serve(c)
    <2>1. PICK c \in Calls : Serve(c)
      BY <1>4
    <2>2. PICK leases \in Seq(Valid) : leases = calls[c].leases
      BY <1>1 DEF CallsTypeOK, Call
    <2>3. latest' = latest \/ latest' = Latest(leases)
      BY <2>1, <2>2 DEF Serve
    <2>4. \A r \in Resources : latest[r][1] <= Latest(leases)[r][1]
      BY <1>1, LatestType
    <2> QED
      BY <1>2, <2>3, <2>4 DEF Grows
  <1>5. CASE \E r \in Resources : Acquire(r) \/ OtherTakes(r)
    <2>1. PICK r \in Resources :
            latest[r][1] < MaxRoot[r] /\ latest' = [latest EXCEPT ![r] = Grant(r).sequence]
      BY <1>5 DEF Acquire, OtherTakes
    <2>2. Grant(r).sequence = <<latest[r][1] + 1>>
      BY <1>1, <2>1, GrantType
    <2>3. latest[r][1] <= Grant(r).sequence[1]
      BY <1>2, <2>2
    <2> QED
      BY <1>1, <1>2, <2>1, <2>3 DEF Grows
  <1>6. CASE \E r \in Resources : RobotReturns(r)
    <2>1. PICK r \in Resources : RobotReturns(r)
      BY <1>6
    <2>2. /\ returns[r] # NoLease /\ UseVerdict(returns[r].proto) = "OK"
          /\ latest' = [latest EXCEPT ![r] = returns[r].proto.sequence]
      BY <2>1 DEF RobotReturns
    <2>3. returns[r].proto \in Valid /\ returns[r].proto.resource = r
      BY <1>1, <2>2, EntryRoot DEF CallsInv, CallsTypeOK, Rooted
    <2>4. latest[r][1] <= returns[r].proto.sequence[1]
      BY <1>1, <2>2, <2>3, VerdictMeaning
    <2> QED
      BY <1>1, <1>2, <2>2, <2>4 DEF Grows
  <1> QED
    BY <1>3, <1>4, <1>5, <1>6

(* A call that does not move keeps its copy. *)
LEMMA CopyKept ==
  ASSUME CallsTypeOK, CallsTypeOK', Grows, UNCHANGED returns, NEW d \in Calls,
         held[d] \in Entries, held'[d] = held[d], calls'[d] = calls[d], Holding(d)
  PROVE  Holding(d)'
  <1> SUFFICES ASSUME held[d] # NoLease
               PROVE  Holding(d)'
    BY DEF Holding
  <1> DEFINE l == held[d]
             r == l.proto.resource
  <1>1. /\ Bears(d) /\ r \in Resources
        /\ Len(l.proto.sequence) \in {2, 3}
        /\ l.proto.sequence[1] <= latest[r][1]
        /\ Outranked(l, r)
    BY DEF Holding
  <1>2. l.proto.sequence[1] \in Nat
    BY EntryRoot
  <1>3. l.proto.sequence[1] <= latest'[r][1]
    BY <1>1, <1>2, LatestGrows
  <1>4. Bears(d)'
    BY <1>1 DEF Bears, Passed, NextResult, IsSelfOwned
  <1>5. (held[d].proto.sequence[1] <= latest[held[d].proto.resource][1])'
    BY <1>3
  <1>6. Outranked(held[d], held[d].proto.resource)'
    BY <1>1 DEF Outranked
  <1> QED
    BY <1>1, <1>4, <1>5, <1>6 DEF Holding

(* An action that moves one call has to be looked at there. *)
LEMMA CopiesStep ==
  ASSUME CallsInv, CallsInv', CopiesInv, Grows, UNCHANGED returns, CopiesTypeOK',
         NEW c \in Calls, Holding(c)',
         \A d \in Calls \ {c} : calls'[d] = calls[d] /\ held'[d] = held[d]
  PROVE  CopiesInv'
  <1>1. ASSUME NEW d \in Calls
        PROVE  Holding(d)'
    <2>1. CASE d = c
      BY <2>1
    <2>2. CASE d # c
      <3>1. held[d] \in Entries /\ Holding(d) /\ CallsTypeOK /\ CallsTypeOK'
        BY DEF CopiesInv, CopiesTypeOK, CallsInv
      <3> QED
        BY <2>2, <3>1, CopyKept
    <2> QED
      BY <2>1, <2>2
  <1> QED
    BY <1>1 DEF CopiesInv

(* So an action of a call that has no copy, and takes none, keeps the      *)
(* copies.                                                                 *)
LEMMA NoCopyStep ==
  ASSUME CallsInv, CallsInv', CopiesInv, Grows, UNCHANGED <<returns, held, torn>>,
         NEW c \in Calls, held[c] = NoLease \/ ~Bears(c), NEW k,
         calls' = [calls EXCEPT ![c] = k]
  PROVE  CopiesInv'
  <1>1. held[c] = NoLease
    BY DEF CopiesInv, Holding
  <1>2. Holding(c)'
    BY <1>1 DEF Holding
  <1>3. CopiesTypeOK'
    BY DEF CopiesInv, CopiesTypeOK
  <1>4. \A d \in Calls \ {c} : calls'[d] = calls[d] /\ held'[d] = held[d]
    BY DEF CallsInv, CallsTypeOK
  <1> QED
    BY <1>2, <1>3, <1>4, CopiesStep

(* The entry that is copied satisfies what is said of a copy. *)
LEMMA CopyStep ==
  ASSUME CallsInv, CallsInv', CopiesInv, Grows, UNCHANGED <<returns, calls>>,
         NEW c \in Calls, NEW r \in Resources, Copy(c, r), wallet[r] # NoLease, UNCHANGED latest,
         wallet[r].proto.resource = r => Bears(c)'
  PROVE  CopiesInv'
  <1>1. /\ held \in [Calls -> Entries] /\ held' = [held EXCEPT ![c] = wallet[r]]
        /\ wallet[r] \in Entries /\ UNCHANGED <<wallet, torn>>
    BY DEF CopiesInv, CopiesTypeOK, CallsInv, CallsTypeOK, Copy
  <1>2. CopiesTypeOK'
    BY <1>1 DEF CopiesInv, CopiesTypeOK
  <1>3. held'[c] = wallet[r] /\ \A d \in Calls \ {c} : held'[d] = held[d]
    BY <1>1
  <1>4. /\ wallet[r].proto.resource = r
        /\ Len(wallet[r].proto.sequence) \in {2, 3}
        /\ wallet[r].proto.sequence[1] <= latest[r][1]
        /\ Outranked(wallet[r], r)
    BY DEF CallsInv, Rooted, Ranked, Outranked
  <1>5. Bears(c)'
    BY <1>4
  <1>6. Outranked(held[c], held[c].proto.resource)'
    BY <1>3, <1>4 DEF Outranked
  <1>7. Holding(c)'
    BY <1>3, <1>4, <1>5, <1>6 DEF Holding
  <1> QED
    BY <1>2, <1>3, <1>7, CopiesStep

(* Once what was made of it is stored the copy is given up. *)
LEMMA StoreStep ==
  ASSUME CallsInv, CallsInv', CopiesInv, Grows, UNCHANGED returns,
         NEW c \in Calls, NEW r \in Resources, NEW l, Store(c, r, l),
         \A d \in Calls \ {c} : calls'[d] = calls[d]
  PROVE  CopiesInv'
  <1>1. /\ held \in [Calls -> Entries] /\ held' = [held EXCEPT ![c] = NoLease]
        /\ torn' = torn \/ torn' = torn \cup {r}
        /\ torn \in SUBSET Resources
    BY StoreMeaning DEF CopiesInv, CopiesTypeOK
  <1>2. NoLease \in Entries
    BY DEF Entries
  <1>3. CopiesTypeOK'
    BY <1>1, <1>2 DEF CopiesTypeOK
  <1>4. held'[c] = NoLease /\ \A d \in Calls \ {c} : held'[d] = held[d]
    BY <1>1
  <1>5. Holding(c)'
    BY <1>4 DEF Holding
  <1> QED
    BY <1>3, <1>4, <1>5, CopiesStep

(* The pump: the next of the results tells of a resource. *)
LEMMA NextResultType ==
  ASSUME CallsInv, NEW c \in Calls, TakesNext(c)
  PROVE  /\ NextResult(c).attempted.resource \in Resources
         /\ Len(Passed(c)) > calls[c].taken
  <1>1. /\ calls[c].answer.results \in Seq(Told) /\ calls[c].taken \in Nat
    BY DEF CallsInv, CallsTypeOK, Call, AnswerType
  <1>2. Passed(c) \in Seq(Told) /\ Len(Passed(c)) \in Nat
    BY <1>1 DEF Passed
  <1>3. calls[c].taken < Len(Passed(c))
    BY DEF TakesNext
  <1>4. PICK results \in Seq(Told), n \in Nat : results = Passed(c) /\ n = calls[c].taken
    BY <1>1, <1>2
  <1>5. n + 1 \in DOMAIN results
    BY <1>3, <1>4
  <1>6. NextResult(c) \in Told
    BY <1>4, <1>5 DEF NextResult
  <1> QED
    BY <1>1, <1>2, <1>3, <1>6 DEF Told, LeaseUseResult, LeaseProto, IsValid

(* Threads that run a service call, and the pump. *)
LEMMA CallCopies ==
  ASSUME CallsInv, CallsInv', CopiesInv, NEW c \in Calls,
         \/ Start(c) \/ Forget(c)
         \/ ProcessRequest(c) \/ Cancelled(c)
         \/ InitFails(c)
         \/ Serve(c) \/ Reject(c)
         \/ Pump(c)
  PROVE  CopiesInv'
  <1>1. Grows
    <2>1. UNCHANGED latest \/ Serve(c)
      BY DEF Start, Begin, BeginAttached, PrepareFails, BeginInit, Forget, ProcessRequest,
             Cancelled, InitFails, Reject, Pump, RpcFails, BadResponse, SettleFuture,
             TakeRead, TakeResult, TakesNext, robot
    <2> QED
      BY <2>1, StepGrows
  <1>2. CASE Start(c)
    <2>1. calls[c].stage = "free" /\ UNCHANGED <<returns, held, torn>>
      BY <1>2 DEF Start, Begin, BeginAttached, PrepareFails, BeginInit, copies
    <2>2. \E k : calls' = [calls EXCEPT ![c] = k]
      BY <1>2 DEF Start, Begin, BeginAttached, PrepareFails, BeginInit, Fail
    <2> QED
      BY <1>1, <2>1, <2>2, NoCopyStep DEF Bears
  <1>3. CASE Forget(c) \/ InitFails(c)
    <2>1. /\ calls[c].stage = "settled" /\ UNCHANGED <<returns, held, torn>>
          /\ calls' = [calls EXCEPT ![c] = Free]
      BY <1>3 DEF Forget, InitFails, copies
    <2> QED
      BY <1>1, <2>1, NoCopyStep DEF Bears
  <1>4. CASE ProcessRequest(c)
    <2>1. /\ calls[c].stage = "sending" /\ calls[c].todo # <<>>
          /\ UNCHANGED <<latest, returns>>
      BY <1>4 DEF ProcessRequest, robot
    <2>2. calls[c].todo \in Seq(Resources)
      BY DEF CallsInv, CallsTypeOK, Call
    <2>3. PICK r \in Resources : r = Head(calls[c].todo)
      BY <2>1, <2>2
    <2>4. CASE AttachRead(c)
      <3>1. /\ Copy(c, r) /\ UNCHANGED calls
            /\ wallet[r] # NoLease /\ IsSelfOwned(wallet[r])
        BY <2>3, <2>4, WalletReads DEF AttachRead
      <3>2. held'[c] = wallet[r]
        BY <3>1 DEF Copy, CopiesInv, CopiesTypeOK
      <3>3. wallet[r].proto.resource = r => Bears(c)'
        BY <2>1, <2>3, <3>1, <3>2 DEF Bears, IsSelfOwned
      <3> QED
        BY <1>1, <2>1, <3>1, <3>3, CopyStep
    <2>5. CASE Attach(c)
      <3>1. PICK l : Store(c, r, l)
        BY <2>3, <2>5 DEF Attach
      <3>2. \A d \in Calls \ {c} : calls'[d] = calls[d]
        BY <2>5 DEF Attach, CallsInv, CallsTypeOK
      <3> QED
        BY <1>1, <2>1, <3>1, <3>2, StoreStep
    <2>6. CASE LeaseMissing(c)
      <3>1. \E k : calls' = [calls EXCEPT ![c] = k]
        BY <2>6 DEF LeaseMissing, Fail
      <3>2. held[c] = NoLease /\ UNCHANGED <<held, torn>>
        BY <2>6 DEF LeaseMissing, copies
      <3> QED
        BY <1>1, <2>1, <3>1, <3>2, NoCopyStep
    <2> QED
      BY <1>4, <2>4, <2>5, <2>6 DEF ProcessRequest
  <1>5. CASE Cancelled(c) \/ Serve(c) \/ Reject(c)
    <2>1. /\ calls[c].stage = "sending" /\ calls[c].todo = <<>>
          /\ UNCHANGED <<returns, held, torn>>
      BY <1>5 DEF Cancelled, Serve, Reject, Initiated, copies
    <2>2. \E k : calls' = [calls EXCEPT ![c] = k]
      <3>1. CASE Cancelled(c) \/ Reject(c)
        BY <3>1 DEF Cancelled, Reject, Fail
      <3>2. CASE Serve(c)
        <4>1. PICK answer : calls' = [calls EXCEPT ![c].stage = "answered", ![c].answer = answer]
          BY <3>2 DEF Serve
        <4>2. calls' = [calls EXCEPT ![c] =
                          [calls[c] EXCEPT !.stage = "answered", !.answer = answer]]
          BY <4>1 DEF CallsInv, CallsTypeOK, Call
        <4> QED
          BY <4>2
      <3> QED
        BY <1>5, <3>1, <3>2
    <2> QED
      BY <1>1, <2>1, <2>2, NoCopyStep DEF Bears
  <1>6. CASE Pump(c)
    <2>1. CASE RpcFails(c) \/ BadResponse(c)
      <3>1. held[c] = NoLease \/ ~Bears(c)
        BY <2>1 DEF RpcFails, BadResponse, Initiated, Completing, Accepts, Bears
      <3>2. UNCHANGED <<returns, held, torn>> /\ \E k : calls' = [calls EXCEPT ![c] = k]
        BY <2>1 DEF RpcFails, BadResponse, Fail, copies
      <3> QED
        BY <1>1, <3>1, <3>2, NoCopyStep
    <2>2. CASE SettleFuture(c)
      <3>1. ~Bears(c)
        <4>1. calls[c].stage = "answered" /\ calls[c].taken = Len(Passed(c))
          BY <2>2 DEF SettleFuture, Accepts
        <4>2. calls[c].taken \in Nat
          BY DEF CallsInv, CallsTypeOK, Call
        <4> QED
          BY <4>1, <4>2 DEF Bears
      <3>2. UNCHANGED <<returns, held, torn>>
        BY <2>2 DEF SettleFuture, copies
      <3>3. PICK outcome : Settle(c, outcome)
        BY <2>2 DEF SettleFuture
      <3>4. calls' = [calls EXCEPT ![c] = [calls[c] EXCEPT !.stage = "settled",
                                             !.outcome = outcome, !.leases = <<>>]]
        BY <3>3 DEF Settle, CallsInv, CallsTypeOK, Call
      <3> QED
        BY <1>1, <3>1, <3>2, <3>4, NoCopyStep
    <2>3. CASE TakeRead(c)
      <3>1. PICK r \in Resources : r = NextResult(c).attempted.resource
        BY <2>3, NextResultType DEF TakeRead
      <3>2. /\ Copy(c, r) /\ wallet[r] # NoLease /\ UNCHANGED <<calls, latest, returns>>
        BY <2>3, <3>1, WalletReads DEF TakeRead, TakesNext, robot
      <3>3. held'[c] = wallet[r]
        BY <3>2 DEF Copy, CopiesInv, CopiesTypeOK
      <3>4. /\ calls[c].stage = "answered" /\ calls[c].answer.header /\ calls[c].answer.whole
            /\ Len(Passed(c)) > calls[c].taken
        BY <2>3, NextResultType DEF TakeRead, TakesNext, Accepts
      <3>5. wallet[r].proto.resource = r => Bears(c)'
        BY <3>1, <3>2, <3>3, <3>4 DEF Bears, Passed, NextResult
      <3> QED
        BY <1>1, <3>2, <3>5, CopyStep
    <2>4. CASE TakeResult(c)
      <3>1. PICK r \in Resources : r = NextResult(c).attempted.resource
        BY <2>4, NextResultType DEF TakeResult
      <3>2. PICK l : Store(c, r, l)
        BY <2>4, <3>1 DEF TakeResult
      <3>3. UNCHANGED returns /\ \A d \in Calls \ {c} : calls'[d] = calls[d]
        BY <2>4 DEF TakeResult, TakesNext, CallsInv, CallsTypeOK
      <3> QED
        BY <1>1, <3>2, <3>3, StoreStep
    <2> QED
      BY <1>6, <2>1, <2>2, <2>3, <2>4 DEF Pump
  <1> QED
    BY <1>2, <1>3, <1>4, <1>5, <1>6

(* EndInit: nobody has a copy. *)
LEMMA EndInitCopies ==
  ASSUME CallsInv, CopiesInv, NEW c \in Calls, EndInit(c)
  PROVE  CopiesInv'
  <1>1. /\ calls[c].stage = "settled" /\ calls[c].lent # NoLease
        /\ UNCHANGED <<held, torn>>
    BY DEF EndInit, copies
  <1>2. \A d \in Calls : calls[d].stage \in {"free", "settled"}
    BY <1>1 DEF CallsInv, Lending
  <1>3. \A d \in Calls : held[d] = NoLease
    BY <1>2 DEF CopiesInv, Holding, Bears
  <1> QED
    BY <1>1, <1>3 DEF CopiesInv, CopiesTypeOK, Holding

(* What the robot does, and what it grants the program. *)
LEMMA RobotCopies ==
  ASSUME CallsInv, CallsInv', CopiesInv,
         \/ \E r \in Resources : Acquire(r) \/ OtherTakes(r) \/ Release(r) \/ RobotReturns(r)
         \/ UNCHANGED vars
  PROVE  CopiesInv'
  <1>1. UNCHANGED <<calls, held, returns>> /\ (torn' = torn \/ \E r \in Resources : torn' = torn \ {r})
    BY DEF Acquire, OtherTakes, Release, RobotReturns, copies, vars
  <1>2. CopiesTypeOK'
    BY <1>1 DEF CopiesInv, CopiesTypeOK
  <1>3. Grows
    BY StepGrows DEF Release, vars
  <1>4. ASSUME NEW d \in Calls
        PROVE  Holding(d)'
    <2>1. held[d] \in Entries /\ Holding(d) /\ CallsTypeOK /\ CallsTypeOK'
      BY DEF CopiesInv, CopiesTypeOK, CallsInv
    <2> QED
      BY <1>1, <1>3, <2>1, CopyKept
  <1> QED
    BY <1>2, <1>4 DEF CopiesInv

-----------------------------------------------------------------------------
(* The invariant holds *)

(* No call has been made and the wallet is empty. *)
LEMMA InitHolds ==
  ASSUME Init
  PROVE  CallsInv /\ CopiesInv
  <1>1. \A c \in Calls : calls[c] = Free
    BY DEF Init
  <1>2. /\ Free.stage = "free" /\ Free.outcome = "none" /\ Free.todo = <<>>
        /\ Free.lent = NoLease
    BY DEF Free
  <1>3. CallsTypeOK
    <2>1. <<0>> \in Clock \ {<<>>}
      BY SeqModAssumption DEF Clock, SeqNumber
    <2> QED
      BY <2>1, FreeType DEF Init, CallsTypeOK, Entries
  <1>4. ASSUME NEW c \in Calls
        PROVE  Stage(c) /\ Honest(c) /\ Lending(c) /\ Taking(c)
    <2>1. Stage(c)
      BY <1>1, <1>2 DEF Stage
    <2>2. Honest(c)
      BY <1>1, <1>2 DEF Honest
    <2>3. Lending(c) /\ Taking(c)
      BY <1>1, <1>2 DEF Lending, Taking
    <2> QED
      BY <2>1, <2>2, <2>3
  <1>5. ASSUME NEW r \in Resources
        PROVE  Rooted(r) /\ Ranked(r) /\ Roomy(r)
    <2>1. wallet[r] = NoLease /\ returns[r] = NoLease
      BY DEF Init
    <2>2. Asked(calls, r) = {}
      <3>1. \A x : x \notin Asked(calls, r)
        BY <1>1, <1>2, AskedMeaning DEF Places
      <3> QED
        BY <3>1
    <2> QED
      BY <2>1, <2>2, FS_EmptySet DEF Rooted, Ranked, Roomy
  <1>6. CopiesInv
    BY DEF Init, CopiesInv, CopiesTypeOK, Holding, Entries
  <1> QED
    BY <1>3, <1>4, <1>5, <1>6 DEF CallsInv

(* To copy an entry, and where nothing changes, the invariant remains. *)
LEMMA StutterKeeps ==
  ASSUME CallsInv, UNCHANGED <<wallet, calls, latest, holder, returns, torn>>
  PROVE  CallsInv'
  <1>1. CallsTypeOK'
    BY DEF CallsInv, CallsTypeOK
  <1>2. Grows
    BY StepGrows
  <1>3. \A r \in Resources : Moves(r) /\ Rooted(r)' /\ Ranked(r)'
    BY <1>1, <1>2, RobotKeepsOrder
  <1>4. \A r \in Resources : Roomy(r)'
    BY DEF CallsInv, Roomy, Claims
  <1> QED
    BY <1>1, <1>2, <1>3, <1>4, StepKeepsAtNone

(* Threads that run a service call, and the pump. *)
LEMMA CallKeeps ==
  ASSUME CallsInv, CopiesInv, NEW c \in Calls,
         \/ Start(c) \/ Forget(c)
         \/ ProcessRequest(c) \/ Cancelled(c)
         \/ EndInit(c) \/ InitFails(c)
         \/ Serve(c) \/ Reject(c)
         \/ Pump(c)
  PROVE  CallsInv'
  <1>1. CASE Start(c)
    <2>1. CASE \E plan \in Plans :
                 Begin(c, plan) \/ BeginAttached(c, plan) \/ PrepareFails(c, plan)
      BY <2>1, BeginKeeps, BeginAttachedKeeps, FailuresKeep
    <2>2. CASE \E r \in Resources : BeginInit(c, r)
      BY <2>2, BeginInitKeeps
    <2> QED
      BY <1>1, <2>1, <2>2 DEF Start
  <1>2. CASE Forget(c)
    BY <1>2, ForgettingKeeps DEF Forget, copies
  <1>3. CASE ProcessRequest(c)
    <2>1. calls[c].stage = "sending" /\ calls[c].todo # <<>> /\ UNCHANGED <<robot, returns>>
      BY <1>3 DEF ProcessRequest
    <2>2. CASE Attach(c)
      <3>1. calls[c].todo \in Seq(Resources)
        BY DEF CallsInv, CallsTypeOK, Call
      <3>2. PICK r \in Resources : r = Head(calls[c].todo)
        BY <2>1, <3>1
      <3> QED
        BY <2>1, <2>2, <3>2, AttachKeeps
    <2>3. CASE LeaseMissing(c)
      BY <2>1, <2>3, FailuresKeep
    <2>4. CASE AttachRead(c)
      BY <2>1, <2>4, StutterKeeps DEF AttachRead, Copy, robot
    <2> QED
      BY <1>3, <2>2, <2>3, <2>4 DEF ProcessRequest
  <1>4. CASE Cancelled(c)
    BY <1>4, FailuresKeep
  <1>5. CASE EndInit(c)
    BY <1>5, EndInitKeeps
  <1>6. CASE InitFails(c)
    BY <1>6, ForgettingKeeps DEF InitFails, copies
  <1>7. CASE Serve(c)
    BY <1>7, ServeKeeps
  <1>8. CASE Reject(c)
    BY <1>8, RejectKeeps
  <1>9. CASE Pump(c)
    <2>1. CASE RpcFails(c) \/ BadResponse(c)
      BY <2>1, FailuresKeep
    <2>2. CASE TakeResult(c)
      BY <2>2, TakeResultKeeps
    <2>3. CASE SettleFuture(c)
      BY <2>3, SettleKeeps
    <2>4. CASE TakeRead(c)
      BY <2>4, StutterKeeps DEF TakeRead, TakesNext, Copy, robot
    <2> QED
      BY <1>9, <2>1, <2>2, <2>3, <2>4 DEF Pump
  <1> QED
    BY <1>1, <1>2, <1>3, <1>4, <1>5, <1>6, <1>7, <1>8, <1>9

(* Every step keeps the invariant. *)
LEMMA NextKeeps ==
  ASSUME CallsInv, CopiesInv, [Next]_vars
  PROVE  CallsInv' /\ CopiesInv'
  <1>1. CASE Program
    <2>1. CASE \E r \in Resources : Acquire(r)
      BY <2>1, AcquireKeeps, RobotCopies
    <2>2. CASE \E c \in Calls : EndInit(c)
      BY <2>2, CallKeeps, EndInitCopies
    <2>3. CASE \E c \in Calls : Start(c) \/ Forget(c) \/ ProcessRequest(c) \/ Cancelled(c)
                               \/ InitFails(c)
      BY <2>3, CallKeeps, CallCopies
    <2> QED
      BY <1>1, <2>1, <2>2, <2>3 DEF Program
  <1>2. CASE Robot
    <2>1. CASE \E c \in Calls : Serve(c) \/ Reject(c)
      BY <2>1, CallKeeps, CallCopies
    <2>2. CASE \E r \in Resources : OtherTakes(r) \/ Release(r) \/ RobotReturns(r)
      BY <2>2, RobotKeeps, RobotCopies
    <2> QED
      BY <1>2, <2>1, <2>2 DEF Robot
  <1>3. CASE \E c \in Calls : Pump(c)
    BY <1>3, CallKeeps, CallCopies
  <1>4. CASE UNCHANGED vars
    BY <1>4, StutterKeeps, RobotCopies DEF vars
  <1> QED
    BY <1>1, <1>2, <1>3, <1>4 DEF Next

(* The invariant holds of every behaviour. *)
LEMMA CallsInvHolds == Spec => [](CallsInv /\ CopiesInv)
  <1>1. Init => CallsInv /\ CopiesInv
    BY InitHolds
  <1>2. CallsInv /\ CopiesInv /\ [Next]_vars => (CallsInv /\ CopiesInv)'
    BY NextKeeps
  <1> QED
    BY <1>1, <1>2, PTL DEF Spec

-----------------------------------------------------------------------------
(* The calls, the wallet and the robot keep to their types: no request     *)
(* carries a lease that is not valid, whatever leases were derived, lent   *)
(* or lost before (lease_processors.h:68, auto_return_client.cpp:42).      *)
THEOREM CallsTypes == Spec => [](CallsTypeOK /\ CopiesTypeOK)
  <1>1. CallsInv /\ CopiesInv => CallsTypeOK /\ CopiesTypeOK
    BY DEF CallsInv, CopiesInv
  <1> QED
    BY <1>1, CallsInvHolds, PTL

(* A call of any of the clients that reports success was carried out by    *)
(* the robot with every lease it carried accepted, the calls that ignore   *)
(* their status excepted (service_client.h:705, lease_processors.h:118).   *)
THEOREM CallsOkMeansDone == Spec => []OkMeansDone
  <1>1. CallsInv => OkMeansDone
    BY DEF CallsInv, Honest, OkMeansDone
  <1> QED
    BY <1>1, CallsInvHolds, PTL

(* The lease that auto return was configured with stays newer than any the *)
(* program can use until it acquires anew: however many commands advance   *)
(* the sublease it kept (auto_return_client.h:69, lease_wallet.cpp:62).    *)
THEOREM CallsReturnOutranks == Spec => []ReturnOutranks
  <1>1. ASSUME CallsInv, NEW r \in Resources, returns[r] # NoLease, wallet[r] # NoLease
        PROVE  \/ Compare(wallet[r].proto, returns[r].proto) = "OLDER"
               \/ wallet[r].proto.sequence[1] > returns[r].proto.sequence[1]
    <2> DEFINE p == wallet[r].proto
               q == returns[r].proto
               w == p.sequence
               back == q.sequence
    <2>1. Rooted(r) /\ Ranked(r) /\ wallet[r] \in Entries /\ returns[r] \in Entries
      BY <1>1 DEF CallsInv, CallsTypeOK
    <2>2. p \in Valid /\ q \in Valid /\ p.resource = q.resource /\ Len(back) = 2
      BY <1>1, <2>1, EntryRoot DEF Rooted
    <2>3. \/ w[1] > back[1]
          \/ w[1] = back[1] /\ Len(w) = 3 /\ w[2] < back[2]
      BY <1>1, <2>1 DEF Ranked
    <2> HIDE DEF w, back
    <2>4. ASSUME w[1] = back[1], Len(w) = 3, w[2] < back[2]
          PROVE  Before(w, back)
      <3>1. 2 \in 1 .. Shorter(w, back)
        BY <2>2, <2>4 DEF Shorter
      <3>2. \A i \in 1 .. 2 - 1 : w[i] = back[i]
        BY <2>4
      <3> QED
        BY <2>4, <3>1, <3>2 DEF Before
    <2>5. Before(w, back) => Compare(p, q) = "OLDER"
      BY <2>2, OlderMeansBefore DEF w, back
    <2> QED
      BY <2>3, <2>4, <2>5 DEF w, back
  <1>2. CallsInv => ReturnOutranks
    BY <1>1, WalletReads DEF ReturnOutranks
  <1> QED
    BY <1>2, CallsInvHolds, PTL

(* What the robot said of a lease stays known: whatever calls, failures    *)
(* and completions came in between, and however the two halves of the      *)
(* wallet's operations interleaved, a lease that the wallet has as owned   *)
(* is one that no result of a settled call speaks against, unless since it *)
(* was acquired some operation has stored what it made of an entry that    *)
(* had changed (lease_processors.h:100, lease.cpp:199,                     *)
(* lease_wallet.cpp:139, 155).                                             *)
THEOREM CallsResultsTakenIn == Spec => []ResultsTakenIn
  <1>1. ASSUME CallsInv, NEW c \in Calls,
               calls[c].outcome \in {"ok", "leaseUse", "status"}, calls[c].rpc \notin Deaf,
               NEW i \in DOMAIN calls[c].answer.results,
               Intact(calls[c].answer.results[i].attempted.resource)
        PROVE  UpdateFromLeaseUseResult(
                 wallet[calls[c].answer.results[i].attempted.resource],
                 calls[c].answer.results[i]) =
               wallet[calls[c].answer.results[i].attempted.resource]
    <2>1. PICK result : result = calls[c].answer.results[i]
      OBVIOUS
    <2>2. Sound(result) /\ Settles(result)
      BY <1>1, <2>1 DEF CallsInv, Taking
    <2>3. calls[c] \in Call
      BY <1>1 DEF CallsInv, CallsTypeOK
    <2>4. result.attempted \in Valid /\ result.latest \in Valid
          /\ result.attempted.resource \in Resources
      BY <1>1, <2>1, <2>2, <2>3, ResultParts
    <2>5. PICK r \in Resources : r = result.attempted.resource
      BY <2>4
    <2>6. wallet[r] \in Entries /\ Rooted(r) /\ Intact(r) /\ Wallet!Owned(r)
      BY <1>1, <2>1, <2>5 DEF CallsInv, CallsTypeOK, Intact
    <2>7. PICK l \in Entries : l = wallet[r]
      BY <2>6
    <2>8. l # NoLease /\ IsSelfOwned(l)
      BY <2>6, <2>7, WalletReads
    <2>9. l.proto \in Valid /\ l.proto.resource = r
      BY <2>6, <2>7, <2>8, EntryRoot DEF Rooted
    <2>10. /\ result.status \in {"OK", "OLDER", "REVOKED"}
           /\ result.latest.resource = r
      BY <2>2, <2>5 DEF Sound
    <2>11. result.status = "OLDER" =>
             \/ result.latest.sequence = l.proto.sequence
             \/ Before(result.latest.sequence, l.proto.sequence)
      BY <2>2, <2>5, <2>6, <2>7 DEF Settles, Since
    <2>12. result.status = "REVOKED" =>
             Compare(l.proto, result.attempted) \notin {"SAME", "SUB_LEASE"}
      <3> SUFFICES ASSUME result.status = "REVOKED"
                   PROVE  Compare(l.proto, result.attempted) \notin {"SAME", "SUB_LEASE"}
        OBVIOUS
      <3>1. Before(result.attempted.sequence, l.proto.sequence)
        BY <2>2, <2>5, <2>6, <2>7 DEF Settles
      <3>2. Compare(l.proto, result.attempted) = "NEWER"
        BY <2>4, <2>5, <2>9, <3>1, OlderMeansBefore
      <3> QED
        BY <3>2
    <2>13. UpdateFromLeaseUseResult(l, result) = l
      BY <2>4, <2>5, <2>8, <2>9, <2>10, <2>11, <2>12, UpdateMeaning
    <2> QED
      BY <2>1, <2>5, <2>7, <2>13
  <1>2. CallsInv => ResultsTakenIn
    BY <1>1 DEF ResultsTakenIn, Answered, Forgotten, Intact
  <1> QED
    BY <1>2, CallsInvHolds, PTL
=============================================================================
