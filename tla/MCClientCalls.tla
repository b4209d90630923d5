---------------------------- MODULE MCClientCalls ----------------------------
(* A call is made of each variant that the module tells apart. *)
EXTENDS ClientCalls, TLC

MCEpochs == {0}

CONSTANT arm

MCLists == {<<arm, Body>>}

MCMaxUse == [r \in Resources |-> IF r = Body THEN 2 ELSE 1]

MCMaxRoot == [r \in Resources |-> IF r = Body THEN 2 ELSE 1]

Leasing ==
  {<<"body", "RetainLease">>, <<"graphNav", "UploadEdgeSnapshot">>,
   <<"mission", "PlayMission">>, <<"graphNav", "UploadGraphStreaming">>,
   <<"autoReturn", "Configure">>}

Plain ==
  {<<"body", "GetEstopConfig">>, <<"body", "InverseKinematics">>,
   <<"keepalive", "CheckIn">>, <<"services", "GetPayloadAuthToken">>,
   <<"graphNav", "DownloadGraphStreaming">>, <<"mission", "GetInfoAsChunks">>,
   <<"graphNav", "DownloadEdgeSnapshot">>, <<"mission", "AnswerQuestion">>}

MCChosen == Leasing \cup Plain

InParts(s) == s.kind \in {"responses", "chunksBothWays"}

Checks(s) == s.verdict \in {"checked", "items"}

(* What a call with leases does to them does not depend on its verdict, and *)
(* one message is a stream of one.                                          *)
Shape(s) ==
  LET plain == s.lease = "none" /\ s.result = "none"
  IN <<s.lease, s.result, plain /\ InParts(s), plain /\ Checks(s)>>

ASSUME ChosenForAll ==
  \A p \in Rpcs : \E q \in MCChosen : Shape(Stub(p)) = Shape(Stub(q))

CallSymmetry == Permutations(Calls)
=============================================================================
