----------------------------- MODULE ClientStubs -----------------------------
(***************************************************************************)
(* What sets the calls of the service clients apart.  Every method Foo of  *)
(* a client under src/cpp/bosdyn/client/ is written alike: FooAsync may    *)
(* attach leases to the request and initiates a call of some kind, Foo     *)
(* waits for its future, and OnFooComplete settles the future with what    *)
(* the checks of the response came to.  A table per client records, call   *)
(* by call, which of the variants its three methods are:                   *)
(*   kind     the Initiate... method that is used (module StreamCalls)     *)
(*   lease    the leases that are attached if the request has none: none,  *)
(*            one (in each message of a stream of requests), or many       *)
(*   result   the lease use results the completion gives to the wallet     *)
(*   verdict  the response's own status: absent from it, checked as such   *)
(*            or item by item, or ignored by the completion                *)
(*   prepares can FooAsync settle the future before it attaches leases?    *)
(* Overloads that fill in a request for another are the same call.         *)
(***************************************************************************)
(* Tables of different calls, as one. *)
Together(tables) ==
  [call \in UNION {DOMAIN t : t \in tables} |->
     (CHOOSE t \in tables : call \in DOMAIN t)[call]]

Reply == [kind |-> "unary", lease |-> "none", result |-> "none",
          verdict |-> "absent", prepares |-> FALSE]

Verdict == [Reply EXCEPT !.verdict = "checked"]
Items   == [Reply EXCEPT !.verdict = "items"]
Trusted == [Reply EXCEPT !.verdict = "ignored"]

OneLease(s)   == [s EXCEPT !.lease = "one", !.result = "one"]
ManyLeases(s) == [s EXCEPT !.lease = "many", !.result = "many"]
Over(kind, s) == [s EXCEPT !.kind = kind]
Prepared(s)   == [s EXCEPT !.prepares = TRUE]

All(s, calls) == [c \in calls |-> s]

-----------------------------------------------------------------------------
(* The body: leases, power, commands, docking, manipulation *)

(* RetainLease sends the lease the program put into the request. *)
LeaseCalls == [ListLeases |-> Reply, RetainLease |-> [Verdict EXCEPT !.result = "one"]]

Power ==
  [PowerCommand |-> OneLease(Verdict), PowerCommandFeedback |-> Reply,
   FanPowerCommand |-> OneLease(Verdict)]

PowerFeedback ==
  [FanPowerCommandFeedback |-> Reply, ResetSafetyStop |-> OneLease(Verdict)]

(* A command with an end time needs a clock identifier before it is sent. *)
RobotCommand == [RobotCommand |-> Prepared(OneLease(Verdict))]

RobotCommandFeedback ==
  [RobotCommandFeedback |-> Reply, ClearBehaviorFault |-> OneLease(Verdict)]

Docking ==
  [GetDockingConfig |-> Reply, GetDockingState |-> Reply,
   DockingCommand |-> OneLease(Verdict)]

DockingFeedback == [DockingCommandFeedback |-> Reply]

Manipulation ==
  [ManipulationApi |-> OneLease(Reply), ManipulationApiFeedback |-> Reply,
   OverrideGrasp |-> Reply]

InverseKinematics == [InverseKinematics |-> Verdict]

Estop ==
  Together({All(Verdict, {"RegisterEstopEndpoint", "DeregisterEstopEndpoint",
                          "SetEstopConfig"}),
            [GetEstopConfig |-> Reply]})

EstopStatus == [GetEstopStatus |-> Reply, EstopCheckIn |-> Verdict]

(* ConfigureResponse has no lease use results. *)
AutoReturn ==
  [Configure |-> [ManyLeases(Verdict) EXCEPT !.result = "none"],
   GetConfiguration |-> Reply, Start |-> Trusted]

Keepalive == [ModifyPolicy |-> Verdict, GetStatus |-> Reply, CheckIn |-> Trusted]

-----------------------------------------------------------------------------
(* Navigation: maps, recording, missions, autowalk *)

GraphNavNavigation ==
  [SetLocalization |-> Verdict, NavigateRoute |-> ManyLeases(Verdict),
   NavigateTo |-> ManyLeases(Verdict)]

GraphNavState ==
  [NavigationFeedback |-> Reply, GetLocalizationState |-> Reply,
   ClearGraph |-> OneLease(Verdict)]

GraphNavGraph ==
  [DownloadGraph |-> Reply, DownloadGraphStreaming |-> Over("responses", Reply),
   UploadGraph |-> OneLease(Verdict)]

GraphNavSnapshots ==
  [UploadWaypointSnapshot |-> Prepared(Over("requests", OneLease(Verdict))),
   UploadEdgeSnapshot |-> Prepared(Over("requests", OneLease(Reply)))]

GraphNavUploads ==
  [UploadSnapshots |-> Prepared(Over("requests", OneLease(Trusted))),
   DownloadWaypointSnapshot |-> Over("responses", Verdict)]

(* The lease of UploadGraphStreaming is attached before the request is cut *)
(* into chunks; its completion is that of a call without leases.           *)
GraphNavStreams ==
  [DownloadEdgeSnapshot |-> Over("responses", Verdict),
   UploadGraphStreaming |->
     Over("wrapped", [OneLease(Verdict) EXCEPT !.result = "none"])]

Recording == All(OneLease(Verdict), {"StartRecording", "StopRecording", "CreateWaypoint"})

RecordingEdges ==
  [SetRecordingEnvironment |-> OneLease(Reply), CreateEdge |-> OneLease(Trusted),
   GetRecordStatus |-> Reply]

MissionLoad ==
  [LoadMission |-> ManyLeases(Verdict),
   LoadMissionAsChunks |-> Over("chunks", ManyLeases(Verdict)),
   LoadMissionAsChunks2 |-> Over("chunksBothWays", ManyLeases(Verdict))]

MissionPlay ==
  [PauseMission |-> OneLease(Verdict), PlayMission |-> ManyLeases(Verdict),
   RestartMission |-> ManyLeases(Verdict)]

MissionInfo ==
  [GetState |-> Reply, GetInfo |-> Reply, GetInfoAsChunks |-> Over("responses", Reply)]

MissionQuestions ==
  [GetMission |-> Reply, GetMissionAsChunks |-> Over("responses", Reply),
   AnswerQuestion |-> Trusted]

Autowalk ==
  [CompileAutowalk |-> Over("chunksBothWays", Verdict),
   LoadAutowalk |-> Over("chunksBothWays", ManyLeases(Verdict))]

-----------------------------------------------------------------------------
(* Registration, authentication, faults, logs, information *)

DirectoryRegistration ==
  All(Verdict, {"RegisterService", "UnregisterService", "UpdateService"})

Directory == [ListServiceEntries |-> Reply, GetServiceEntry |-> Verdict]

PayloadRegistration == All(Verdict, {"RegisterPayload", "UpdatePayloadVersion"})

(* GetPayloadAuthToken fails if the client has no stub. *)
PayloadTokens ==
  [GetPayloadAuthToken |-> Prepared(Verdict), UpdatePayloadAttached |-> Verdict]

Payload == [ListPayloads |-> Reply]

Auth == [GetAuthToken |-> Verdict]

License == All(Reply, {"GetLicenseInfo", "GetFeatureEnabled"})

Fault == All(Verdict, {"TriggerServiceFault", "ClearServiceFault"})

LogStatusCalls ==
  {"GetLogStatus", "GetActiveLogStatuses", "StartExperimentLog", "StartRetroLog",
   "UpdateExperimentLog", "TerminateLog"}

LogStatus == All(Verdict, LogStatusCalls)

RobotId == [GetRobotId |-> Reply]

RobotState ==
  All(Reply, {"GetRobotState", "GetRobotMetrics", "GetRobotHardwareConfiguration",
              "GetRobotLinkModel"})

TimeSyncClient == [TimeSyncUpdate |-> Reply]

-----------------------------------------------------------------------------
(* Data and perception *)

DataAcquisition ==
  [AcquireData |-> Verdict, GetStatus |-> Reply, GetServiceInfo |-> Reply]

DataAcquisitionLive == [CancelAcquisition |-> Verdict, GetLiveData |-> Reply]

StoreLists ==
  All(Reply, {"ListCaptureActions", "ListStoredData", "StoreData", "ListStoredImages"})

StoreData ==
  All(Reply, {"StoreImage", "ListStoredMetadata", "StoreMetadata", "ListStoredAlertData"})

StoreQueries ==
  Together({All(Reply, {"StoreAlertData", "QueryMaxCaptureId"}),
            [QueryStoredCaptures |-> Over("responses", Reply)]})

DataBufferTexts == {"RecordTextMessages", "RecordOperatorComments", "RecordDataBlobs"}

DataBufferSignals == {"RecordSignalTicks", "RecordEvents"}

DataBuffer ==
  Together({All(Items, DataBufferTexts \cup DataBufferSignals),
            [RegisterSignalSchema |-> Reply]})

Image == [ListImageSources |-> Reply, GetImage |-> Items]

PointCloud == [ListPointCloudSources |-> Reply, GetPointCloud |-> Items]

LocalGrid == [GetLocalGridTypes |-> Reply, GetLocalGrids |-> Items]

WorldObjects == [ListWorldObjects |-> Reply, MutateWorldObjects |-> Verdict]

NetworkCompute == All(Verdict, {"NetworkCompute", "ListAvailableModels"})

GripperCamera ==
  All(Reply, {"SetGripperCameraParams", "GetGripperCameraParams",
              "SetGripperCameraCalib", "GetGripperCameraCalib"})

-----------------------------------------------------------------------------
(* The camera payload, whose responses have no status of their own *)

Sounds  == All(Reply, {"PlaySound", "DeleteSound", "ListSounds"})
Volume  == All(Reply, {"SetVolume", "GetVolume", "SetAudioCaptureChannel"})
Capture == All(Reply, {"GetAudioCaptureChannel", "SetAudioCaptureGain",
                       "GetAudioCaptureGain"})

Screens  == All(Reply, {"SetScreen", "SetIrColormap"})
Overlays == All(Reply, {"SetIrMeterOverlay", "GetIrMeterOverlay"})
Views    == All(Reply, {"GetIrColormap", "GetScreen", "ListScreens",
                        "GetVisibleCameras"})

Health == All(Reply, {"ClearBITEvents", "GetBITStatus", "GetTemperature"})

SystemLog == [GetSystemLog |-> Over("responses", Reply)]

Lighting == All(Reply, {"GetLEDBrightness", "SetLEDBrightness"})

MediaLog      == All(Reply, {"Store", "GetStatus"})
MediaLogTags  == All(Reply, {"Tag", "EnableDebug"})
MediaLogFiles == All(Reply, {"ListCameras", "Delete"})

Network == All(Reply, {"SetICEConfiguration", "GetICEConfiguration"})

CameraPower      == All(Reply, {"GetPowerStatus", "SetPowerStatus"})
CameraPowerCycle == All(Reply, {"CyclePower"})

PtzQueries == All(Reply, {"ListPtz", "GetPtzPosition", "GetPtzVelocity"})
PtzMoves   == All(Reply, {"SetPtzPosition", "SetPtzVelocity", "InitializeLens"})
PtzFocus   == All(Reply, {"GetPtzFocusState", "SetPtzFocusState"})

StreamQuality == All(Reply, {"GetStreamParams", "SetStreamParams"})
Congestion    == All(Reply, {"EnableCongestionControl"})

Version == All(Reply, {"GetSoftwareVersion"})

-----------------------------------------------------------------------------
SpotCam ==
  Together({Sounds, Volume, Capture, Screens, Overlays, Views, Health, SystemLog,
            Lighting, MediaLog, MediaLogTags, MediaLogFiles, Network, CameraPower,
            CameraPowerCycle, PtzQueries, PtzMoves, PtzFocus, StreamQuality,
            Congestion, Version})

Sensors ==
  Together({Image, PointCloud, LocalGrid, WorldObjects, NetworkCompute,
            GripperCamera, RobotState, RobotId, TimeSyncClient, License})

BodyCalls ==
  Together({LeaseCalls, Power, PowerFeedback, RobotCommand, RobotCommandFeedback,
            Docking, DockingFeedback, Manipulation, InverseKinematics, Estop,
            EstopStatus})

GraphNav ==
  Together({GraphNavNavigation, GraphNavState, GraphNavGraph, GraphNavSnapshots,
            GraphNavUploads, GraphNavStreams, Recording, RecordingEdges})

Mission ==
  Together({MissionLoad, MissionPlay, MissionInfo, MissionQuestions, Autowalk})

Services ==
  Together({DirectoryRegistration, Directory, PayloadRegistration, PayloadTokens,
            Payload, Auth, Fault, LogStatus})

Data ==
  Together({DataAcquisition, DataAcquisitionLive, StoreLists, StoreData,
            StoreQueries, DataBuffer})

(* Client and call to the variants of the call. *)
Stubs ==
  [body |-> BodyCalls, autoReturn |-> AutoReturn, keepalive |-> Keepalive,
   graphNav |-> GraphNav, mission |-> Mission, services |-> Services,
   data |-> Data, sensors |-> Sensors, spotCam |-> SpotCam]

Rpcs == UNION {{<<client, call>> : call \in DOMAIN Stubs[client]} : client \in DOMAIN Stubs}

Stub(rpc) == Stubs[rpc[1]][rpc[2]]
=============================================================================
