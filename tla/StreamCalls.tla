----------------------------- MODULE StreamCalls -----------------------------
(***************************************************************************)
(* One streaming call, from its initiation to its callback: the three call *)
(* classes of src/cpp/bosdyn/client/service_client/message_pump.h that     *)
(* stream, the functions of service_client.h that initiate them, and the   *)
(* completions that join what was received.  MessagePump has the threads   *)
(* around a call; here it is taken event by event.                         *)
(*                                                                         *)
(* At any time at most one gRPC operation of the call is under way.  Its   *)
(* end is an event with a success flag, and what the flag means depends on *)
(* the step the call is at.                                                *)
(***************************************************************************)
EXTENDS DataChunks

CONSTANTS Lengths,  \* of the messages that are sent and answered
          Window    \* messages that fit between client and robot, per direction

ASSUME LengthsAssumption == Lengths \subseteq Nat \ {0}
ASSUME WindowAssumption == Window \in Nat \ {0}

VARIABLES call,       \* its kind, the messages to exchange, the robot's verdict
          requests,   \* m_requests
          next,       \* m_next_request_to_write, counted from 0
          responses,  \* m_responses
          out,        \* the request handed to Write
          last,       \* m_last_response
          step,       \* m_next_step
          status,     \* m_call_status
          op,         \* the gRPC operation under way
          event,      \* the event in the completion queue
          result,     \* what has become of the future
          delivered,  \* the message the program has received
          up, down,   \* messages on their way to the robot and back
          half,       \* has the client declared the end of its requests?
          ended,      \* how the robot, or the deadline, ended the call
          heard,      \* the requests the robot has read
          said        \* how many answers the robot has sent

startVars == <<requests, step, status, result>>
eventVars == <<next, out, responses, delivered>>
callVars == <<startVars, eventVars, last>>
robotVars == <<heard, said>>
wireVars == <<up, down, half, ended>>
vars == <<call, callVars, op, event, wireVars, robotVars>>

(* The initiating functions, by what they put on the stream. *)
Kinds == {"requests", "chunks", "wrapped", "responses", "chunksBothWays"}
Operations == {"start", "write", "writesDone", "read", "finish"}
Step == {"none", "WriteRequest", "CallWritesDone", "CallFinish", "StartRead",
         "ContinueReadOrCallFinish", "CallCallback"}
CallStatus == {"NotStarted", "Called", "Cancelled", "Completed"}
Settled == {"refused", "cancelled", "OK", "error"}
Ended == {"no", "OK", "error", "expired"}

WritesRequests == call.kind # "responses"
ReadsResponses == call.kind \in {"responses", "chunksBothWays"}

Bytes(n) == [i \in 1 .. n |-> i]

(* Leads a message that has gone through the request processors. *)
Header == 0
NoMessage == [header |-> FALSE, data |-> <<>>, total_size |-> 0]

Streamed(chunks, header) ==
  [i \in DOMAIN chunks |-> [header |-> header, data |-> chunks[i].data,
                             total_size |-> chunks[i].total_size]]

(* The messages of the robot's answer, if it streams one. *)
Answer == IF ReadsResponses
          THEN Streamed(StringToDataChunks(Bytes(call.answer)), TRUE) ELSE <<>>

-----------------------------------------------------------------------------
(* Initiating a call.  The processors may refuse a request, and the pump   *)
(* refuses every call once it is shut down.                                *)

Refused ==
  /\ result' = "refused"
  /\ UNCHANGED <<call, requests, step, status, eventVars, last, op, event,
                 wireVars, robotVars>>

(* Start *)
Started(messages, first) ==
  /\ requests' = messages
  /\ step' = first
  /\ status' = "Called"
  /\ result' = "waiting"
  /\ op' = "start"
  /\ half' = (messages = <<>>)
  /\ UNCHANGED <<call, eventVars, last, event, up, down, ended, robotVars>>

Initiating(kind) == call.kind = kind /\ result = "none"

(* The caller has made the requests and every one of them is processed. *)
InitiateRequestStreamAsyncCall ==
  /\ Initiating("requests")
  /\ \/ Refused
     \/ Started(Streamed(StringToDataChunks(Bytes(call.message)), TRUE), "WriteRequest")

Processed(n) == <<Header>> \o Bytes(n)

(* The request is processed, then split. *)
InitiateRequestStreamAsyncCallWithChunking ==
  /\ Initiating("chunks")
  /\ \/ Refused
     \/ Started(Streamed(StringToDataChunks(Processed(call.message)), FALSE), "WriteRequest")

(* As above, and every wrapper of a chunk is processed too. *)
InitiateRequestStreamAsyncCallWithWrappedChunking ==
  /\ Initiating("wrapped")
  /\ \/ Refused
     \/ Started(Streamed(StringToDataChunks(Processed(call.message)), TRUE), "WriteRequest")

InitiateResponseStreamAsyncCall ==
  /\ Initiating("responses")
  /\ Refused \/ Started(<<>>, "StartRead")

InitiateRequestResponseStreamAsyncCallWithChunking ==
  /\ Initiating("chunksBothWays")
  /\ \/ Refused
     \/ Started(Streamed(StringToDataChunks(Processed(call.message)), FALSE), "WriteRequest")

Initiate ==
  \/ InitiateRequestStreamAsyncCall
  \/ InitiateRequestStreamAsyncCallWithChunking
  \/ InitiateRequestStreamAsyncCallWithWrappedChunking
  \/ InitiateResponseStreamAsyncCall
  \/ InitiateRequestResponseStreamAsyncCallWithChunking

-----------------------------------------------------------------------------
(* gRPC and the robot *)

Raise(success) ==
  /\ op' = "none"
  /\ event' = IF success THEN "ok" ELSE "failed"
  /\ UNCHANGED <<call, startVars, eventVars, robotVars>>

(* A call that has ended may still look alive to the transport. *)
MayFail(success) == success \/ ended # "no"

StartEnds ==
  /\ op = "start"
  /\ \E success \in BOOLEAN : MayFail(success) /\ Raise(success)
  /\ UNCHANGED <<last, wireVars>>

WriteEnds ==
  /\ op = "write"
  /\ \/ /\ ended = "no" /\ Len(up) < Window
        /\ up' = Append(up, out)
        /\ Raise(TRUE)
     \/ /\ ended # "no"
        /\ \E success \in BOOLEAN : Raise(success)
        /\ UNCHANGED up
  /\ UNCHANGED <<last, down, half, ended>>

WritesDoneEnds ==
  /\ op = "writesDone"
  /\ half' = TRUE
  /\ \E success \in BOOLEAN : MayFail(success) /\ Raise(success)
  /\ UNCHANGED <<last, up, down, ended>>

(* After the robot's last message, or the deadline, a read fails. *)
ReadEnds ==
  /\ op = "read"
  /\ \/ /\ down # <<>>
        /\ last' = Head(down)
        /\ down' = Tail(down)
        /\ Raise(TRUE)
     \/ /\ \/ ended = "expired"
           \/ ended # "no" /\ down = <<>>
        /\ Raise(FALSE)
        /\ UNCHANGED <<last, down>>
  /\ UNCHANGED <<up, half, ended>>

FinishEnds ==
  /\ op = "finish"
  /\ ended # "no"
  /\ Raise(TRUE)
  /\ UNCHANGED <<last, wireVars>>

OperationEnds ==
  StartEnds \/ WriteEnds \/ WritesDoneEnds \/ ReadEnds \/ FinishEnds

(* An eager robot answers each request before it reads the next one; the   *)
(* others answer when they have read everything.                           *)
ReadEverything == half /\ up = <<>>
OwesAnswer ==
  /\ said < Len(Answer)
  /\ ReadEverything \/ (call.eager /\ said < Len(heard))

RobotHears ==
  /\ ended = "no" /\ up # <<>> /\ ~OwesAnswer
  /\ heard' = Append(heard, Head(up))
  /\ up' = Tail(up)
  /\ UNCHANGED <<call, callVars, op, event, down, half, ended, said>>

RobotAnswers ==
  /\ ended = "no" /\ OwesAnswer /\ Len(down) < Window
  /\ down' = Append(down, Answer[said + 1])
  /\ said' = said + 1
  /\ UNCHANGED <<call, callVars, op, event, up, half, ended, heard>>

(* It ends a call well only when all is heard and said, and with an error  *)
(* at any time, as the deadline does.                                      *)
RobotEndsCall ==
  /\ ended = "no" /\ ReadEverything /\ said = Len(Answer)
  /\ ended' = "OK"
  /\ UNCHANGED <<call, callVars, op, event, up, down, half, robotVars>>

RobotFails ==
  /\ status # "NotStarted" /\ ended = "no"
  /\ ended' = "error"
  /\ UNCHANGED <<call, callVars, op, event, up, down, half, robotVars>>

DeadlineExpires ==
  /\ status # "NotStarted" /\ ended = "no"
  /\ ended' = "expired"
  /\ UNCHANGED <<call, callVars, op, event, up, down, half, robotVars>>

-----------------------------------------------------------------------------
(* OnCompletionQueueEvent: what the pump does with an event *)

Goes(operation, nextStep) == op' = operation /\ step' = nextStep

(* Mutant: every request but the last is written. *)
WritesDoneEarly(success) ==
  /\ step = "WriteRequest"
  /\ IF success
     THEN /\ out' = requests[next + 1]
          /\ next' = next + 1
          /\ Goes("write", IF next' >= Len(requests) - 1
                           THEN "CallWritesDone" ELSE "WriteRequest")
     ELSE /\ Goes("finish", "CallCallback")
          /\ UNCHANGED <<out, next>>
  /\ UNCHANGED <<responses, status, result, delivered>>

(* Mutant: a request that has been written is not counted. *)
WriteFirstAgain(success) ==
  /\ step = "WriteRequest"
  /\ IF success
     THEN /\ out' = requests[1]
          /\ next' = next + 1
          /\ Goes("write", IF next' = Len(requests)
                           THEN "CallWritesDone" ELSE "WriteRequest")
     ELSE /\ Goes("finish", "CallCallback")
          /\ UNCHANGED <<out, next>>
  /\ UNCHANGED <<responses, status, result, delivered>>

WriteRequest(success) ==
  /\ step = "WriteRequest"
  /\ IF success
     THEN /\ out' = requests[next + 1]
          /\ next' = next + 1
          /\ Goes("write", IF next' = Len(requests)
                           THEN "CallWritesDone" ELSE "WriteRequest")
     ELSE /\ Goes("finish", "CallCallback")
          /\ UNCHANGED <<out, next>>
  /\ UNCHANGED <<responses, status, result, delivered>>

(* Mutant: the call is finished with the robot still awaiting requests. *)
FinishAtOnce(following) ==
  /\ step = "CallWritesDone"
  /\ Goes("finish", "CallCallback")
  /\ UNCHANGED <<next, out, responses, status, result, delivered>>

(* Whether the last write has succeeded is not looked at. *)
CallWritesDone(following) ==
  /\ step = "CallWritesDone"
  /\ Goes("writesDone", following)
  /\ UNCHANGED <<next, out, responses, status, result, delivered>>

CallFinish ==
  /\ step = "CallFinish"
  /\ Goes("finish", "CallCallback")
  /\ UNCHANGED <<next, out, responses, status, result, delivered>>

StartRead(success) ==
  /\ step = "StartRead"
  /\ IF success THEN Goes("read", "ContinueReadOrCallFinish")
                ELSE Goes("finish", "CallCallback")
  /\ UNCHANGED <<next, out, responses, status, result, delivered>>

ContinueReadOrCallFinish(success) ==
  /\ step = "ContinueReadOrCallFinish"
  /\ IF success
     THEN responses' = Append(responses, last) /\ Goes("read", step)
     ELSE UNCHANGED responses /\ Goes("finish", "CallCallback")
  /\ UNCHANGED <<next, out, status, result, delivered>>

Sets(verdict, message) == result' = verdict /\ delivered' = message

(* A completion that checks the call's status and the status in every      *)
(* response before it joins them (OnDownloadWaypointSnapshotComplete).     *)
CheckThenJoin ==
  LET joined == StringFromDataChunks(responses) IN
  IF \/ ended # "OK"
     \/ responses # <<>> /\ ~call.accepted
     \/ responses = <<>>
     \/ ~joined.good
  THEN Sets("error", <<>>)
  ELSE Sets("OK", joined.message)

(* A completion that joins first and checks the message it gets            *)
(* (OnCompileAutowalkComplete).  No chunks give the default message.       *)
JoinThenCheck ==
  LET joined == StringFromDataChunks(responses) IN
  IF \/ ~joined.good
     \/ ended # "OK"
     \/ joined.message = <<>> \/ ~call.accepted
  THEN Sets("error", <<>>)
  ELSE Sets("OK", joined.message)

(* The completion of a stream of requests with one response. *)
CheckResponse ==
  IF ended = "OK" /\ call.accepted THEN Sets("OK", <<>>) ELSE Sets("error", <<>>)

CallCallback(Completion) ==
  /\ step = "CallCallback"
  /\ Completion
  /\ status' = "Completed"
  /\ Goes("none", "none")
  /\ UNCHANGED <<next, out, responses>>

OnRequestStreamEvent(success) ==
  \/ WriteRequest(success)
  \/ CallWritesDone("CallFinish")
  \/ CallFinish
  \/ CallCallback(CheckResponse)

OnResponseStreamEvent(success) ==
  \/ StartRead(success)
  \/ ContinueReadOrCallFinish(success)
  \/ CallCallback(CheckThenJoin)

(* Here the first read does not depend on how WritesDone has ended. *)
OnRequestResponseStreamEvent(success) ==
  \/ WriteRequest(success)
  \/ CallWritesDone("StartRead")
  \/ StartRead(TRUE)
  \/ ContinueReadOrCallFinish(success)
  \/ CallCallback(JoinThenCheck)

OnCompletionQueueEvent ==
  LET success == event = "ok" IN
  /\ event # "none" /\ event' = "none"
  /\ \/ /\ status = "Cancelled"
        /\ Goes("none", "none")
        /\ UNCHANGED <<next, out, responses, status, result, delivered>>
     \/ /\ status = "Called"
        /\ \/ ~ReadsResponses /\ OnRequestStreamEvent(success)
           \/ ~WritesRequests /\ OnResponseStreamEvent(success)
           \/ ReadsResponses /\ WritesRequests /\ OnRequestResponseStreamEvent(success)
  /\ UNCHANGED <<call, requests, last, wireVars, robotVars>>

(* CancelHelper, for a call that has been started. *)
Cancel ==
  /\ status = "Called"
  /\ status' = "Cancelled"
  /\ result' = "cancelled"
  /\ UNCHANGED <<call, requests, step, eventVars, last, op, event, wireVars, robotVars>>

-----------------------------------------------------------------------------
Init ==
  /\ call \in [kind : Kinds, message : Lengths, answer : Lengths,
               accepted : BOOLEAN, eager : BOOLEAN]
  /\ requests = <<>> /\ next = 0 /\ out = NoMessage
  /\ responses = <<>> /\ last = NoMessage
  /\ step = "none" /\ status = "NotStarted"
  /\ op = "none" /\ event = "none"
  /\ result = "none" /\ delivered = <<>>
  /\ up = <<>> /\ down = <<>> /\ half = FALSE /\ ended = "no"
  /\ heard = <<>> /\ said = 0

Robot == RobotHears \/ RobotAnswers \/ RobotEndsCall \/ RobotFails

Rest == result \in Settled /\ op = "none" /\ UNCHANGED vars

Next ==
  \/ Initiate \/ OperationEnds \/ OnCompletionQueueEvent \/ Cancel
  \/ Robot \/ DeadlineExpires \/ Rest

Spec == Init /\ [][Next]_vars

(* The transport and the pump go on, and the robot serves the call to its  *)
(* end.  That calls have deadlines is not used.                            *)
Fairness ==
  /\ WF_vars(OperationEnds) /\ WF_vars(OnCompletionQueueEvent)
  /\ WF_vars(RobotHears) /\ WF_vars(RobotAnswers) /\ WF_vars(RobotEndsCall)

FairSpec == Spec /\ Fairness

-----------------------------------------------------------------------------
TypeOK ==
  /\ call \in [kind : Kinds, message : Lengths, answer : Lengths,
               accepted : BOOLEAN, eager : BOOLEAN]
  /\ next \in 0 .. Len(requests) /\ said \in 0 .. Len(Answer)
  /\ step \in Step /\ status \in CallStatus
  /\ op \in Operations \cup {"none"} /\ event \in {"none", "ok", "failed"}
  /\ result \in Settled \cup {"none", "waiting"}
  /\ Len(up) <= Window /\ Len(down) <= Window
  /\ half \in BOOLEAN /\ ended \in Ended

(* What the robot has read and what is on its way to it are the first      *)
(* requests, each once and in order, whatever events fail                  *)
(* (message_pump.h:230).                                                   *)
WrittenInOrder ==
  LET sent == heard \o up IN
  /\ Len(sent) <= Len(requests)
  /\ \A i \in 1 .. Len(sent) : sent[i] = requests[i]

(* A future that says OK says that the whole exchange took place: the robot *)
(* can put together the request as the processors left it, it has accepted *)
(* it, and the program has the whole answer (message_pump.h:205,           *)
(* service_client.h:243, data_chunking.cpp:56).                            *)
OkMeansComplete ==
  result = "OK" =>
    /\ call.accepted
    /\ WritesRequests =>
         /\ StringFromDataChunks(heard) =
              [good |-> TRUE, message |-> IF call.kind = "requests"
                                          THEN Bytes(call.message)
                                          ELSE Processed(call.message)]
         /\ call.kind \in {"requests", "wrapped"} =>
              \A i \in 1 .. Len(heard) : heard[i].header
    /\ ReadsResponses => delivered = Bytes(call.answer)

(* What has become of the call as the one who waits for it sees it. *)
Life == CASE result = "waiting"        -> "underway"
          [] result \in {"OK", "error"} -> "answered"
          [] OTHER                     -> result

Async == INSTANCE AsyncCalls
           WITH Calls <- {"call"}, life <- [c \in {"call"} |-> Life],
                down <- FALSE, caught <- {}

(* A call that streams keeps what the future of every call promises: it is *)
(* settled once, by the callback or by the cancellation, however many      *)
(* events come in between and after it (message_pump.h:65,                 *)
(* message_pump.h:244).                                                    *)
ImplementsAsync == Async!Spec

(* A call ends without the help of its deadline: robot and client never    *)
(* wait for each other.  The client reads nothing until it has written     *)
(* everything, so the answers of a robot that answers as it reads must fit *)
(* on the wire (message_pump.h:507).                                       *)
EndsByItself ==
  status = "Called" /\ (call.eager => Len(Answer) <= Window) ~> result \in Settled
=============================================================================
