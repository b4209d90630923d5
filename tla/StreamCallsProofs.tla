-------------------------- MODULE StreamCallsProofs --------------------------
(***************************************************************************)
(* What is written on a stream and what is read from it, for messages and  *)
(* chunks of any size and any number of messages on the wire.              *)
(***************************************************************************)
EXTENDS StreamCalls, SequenceTheorems, WellFoundedInduction, TLAPS

Messages == {requests[i] : i \in DOMAIN requests}

(* What the robot has got or will get. *)
Sent == heard \o up

Sequences == requests \in Seq(Messages) /\ heard \in Seq(Messages) /\ up \in Seq(Messages)

InOrder ==
  /\ next \in Nat /\ next <= Len(requests)
  /\ Len(Sent) <= next
  /\ \A i \in 1 .. Len(Sent) : Sent[i] = requests[i]

(* A write that has not ended is of the request counted last; while the    *)
(* call goes on, every write counted before has taken place.               *)
Counted ==
  /\ op = "write" => next > 0 /\ out = requests[next]
  /\ ended = "no" => Len(Sent) = IF op = "write" THEN next - 1 ELSE next
  /\ step = "WriteRequest" => next < Len(requests)

(* One operation or one event, and neither before the call is initiated.   *)
OneAtATime ==
  /\ event # "none" => op = "none"
  /\ call.message \in Nat
  /\ result = "none" =>
       /\ next = 0 /\ heard = <<>> /\ up = <<>>
       /\ event = "none" /\ op = "none" /\ status = "NotStarted"

StreamInv == Sequences /\ InOrder /\ Counted /\ OneAtATime

-----------------------------------------------------------------------------
(* Sequences *)

(* A message is split into at least one chunk. *)
LEMMA ChunksNotEmpty ==
  ASSUME NEW buffer, Len(buffer) \in Nat
  PROVE  \E n \in Nat \ {0} : DOMAIN StringToDataChunks(buffer) = 1 .. n
  <1> DEFINE full == Len(buffer) \div ChunkSize
  <1>1. full \in Nat
    BY ChunkSizeAssumption
  <1>2. DOMAIN StringToDataChunks(buffer) = 1 .. full + 1
    BY Zenon DEF StringToDataChunks
  <1> HIDE DEF full
  <1>3. full + 1 \in Nat \ {0}
    BY <1>1
  <1> QED
    BY <1>2, <1>3

(* What is put on a stream is a sequence of its messages. *)
LEMMA StreamedIsSeq ==
  ASSUME NEW chunks, NEW n \in Nat, DOMAIN chunks = 1 .. n, NEW header,
         NEW s, s = Streamed(chunks, header)
  PROVE  /\ s \in Seq({s[i] : i \in DOMAIN s})
         /\ Len(s) = n
  <1>1. DOMAIN s = 1 .. n
    BY DEF Streamed
  <1>2. s = [i \in 1 .. n |-> s[i]]
    BY <1>1 DEF Streamed
  <1>3. s \in [1 .. n -> {s[i] : i \in DOMAIN s}]
    BY <1>1, <1>2
  <1>4. s \in Seq({s[i] : i \in DOMAIN s})
    BY <1>3, SeqDef
  <1> QED
    BY <1>1, <1>4, LenProperties

(* A message that is read leaves the wire for the messages heard. *)
LEMMA MoveHead ==
  ASSUME NEW S, NEW s \in Seq(S), NEW t \in Seq(S), t # <<>>
  PROVE  /\ Append(s, Head(t)) \in Seq(S) /\ Tail(t) \in Seq(S)
         /\ Append(s, Head(t)) \o Tail(t) = s \o t
  <1>1. /\ Head(t) \in S /\ Tail(t) \in Seq(S)
        /\ Append(s, Head(t)) \in Seq(S)
        /\ Len(Append(s, Head(t))) = Len(s) + 1
        /\ Len(Tail(t)) = Len(t) - 1
        /\ Len(t) > 0 /\ Len(t) \in Nat /\ Len(s) \in Nat
    BY EmptySeq, LenProperties, HeadTailProperties, AppendProperties
  <1>2. Len(Append(s, Head(t)) \o Tail(t)) = Len(s \o t)
    BY <1>1, ConcatProperties
  <1>3. ASSUME NEW i \in 1 .. Len(s \o t)
        PROVE  (Append(s, Head(t)) \o Tail(t))[i] = (s \o t)[i]
    BY <1>1, ConcatProperties, AppendProperties, HeadTailProperties
  <1> QED
    BY <1>1, <1>2, <1>3, ConcatProperties, SeqEqual

(* A message that arrives is the last of those sent. *)
LEMMA SendOne ==
  ASSUME NEW S, NEW s \in Seq(S), NEW t \in Seq(S), NEW e \in S
  PROVE  /\ Append(t, e) \in Seq(S)
         /\ Len(s \o Append(t, e)) = Len(s \o t) + 1
         /\ \A i \in 1 .. Len(s \o Append(t, e)) :
              (s \o Append(t, e))[i] = IF i <= Len(s \o t) THEN (s \o t)[i] ELSE e
  <1>1. /\ Append(t, e) \in Seq(S)
        /\ Len(Append(t, e)) = Len(t) + 1
        /\ Append(t, e)[Len(t) + 1] = e
        /\ \A i \in 1 .. Len(t) : Append(t, e)[i] = t[i]
        /\ Len(s) \in Nat /\ Len(t) \in Nat
    BY LenProperties, AppendProperties
  <1>2. /\ Len(s \o t) = Len(s) + Len(t)
        /\ \A i \in 1 .. Len(s) + Len(t) :
             (s \o t)[i] = IF i <= Len(s) THEN s[i] ELSE t[i - Len(s)]
    BY ConcatProperties
  <1> DEFINE u == Append(t, e)
  <1> HIDE DEF u
  <1>3. u \in Seq(S)
    BY <1>1 DEF u
  <1>4. /\ Len(s \o u) = Len(s) + Len(u)
        /\ \A i \in 1 .. Len(s) + Len(u) :
             (s \o u)[i] = IF i <= Len(s) THEN s[i] ELSE u[i - Len(s)]
    BY <1>3, ConcatProperties
  <1>5. Len(u) = Len(t) + 1 /\ u[Len(t) + 1] = e /\ \A i \in 1 .. Len(t) : u[i] = t[i]
    BY <1>1 DEF u
  <1>6. ASSUME NEW i \in 1 .. Len(s \o u)
        PROVE  (s \o u)[i] = IF i <= Len(s \o t) THEN (s \o t)[i] ELSE e
    <2>1. i \in 1 .. Len(s) + Len(u) /\ Len(s \o t) = Len(s) + Len(t)
      BY <1>2, <1>4
    <2>2. CASE i <= Len(s)
      BY <1>1, <1>2, <1>4, <1>5, <2>1, <2>2
    <2>3. CASE i > Len(s) /\ i <= Len(s) + Len(t)
      BY <1>1, <1>2, <1>4, <1>5, <2>1, <2>3
    <2>4. CASE i > Len(s) + Len(t)
      <3>1. i - Len(s) = Len(t) + 1
        BY <1>1, <1>5, <2>1, <2>4
      <3> QED
        BY <1>1, <1>4, <1>5, <2>1, <2>4, <3>1
    <2> QED
      BY <1>1, <2>1, <2>2, <2>3, <2>4
  <1> QED
    BY <1>1, <1>2, <1>3, <1>4, <1>5, <1>6 DEF u

-----------------------------------------------------------------------------
(* A call that is not made satisfies it. *)
LEMMA InitStreamInv == Init => StreamInv
  <1> SUFFICES ASSUME Init
               PROVE  StreamInv
    OBVIOUS
  <1>1. requests = <<>> /\ heard = <<>> /\ up = <<>> /\ next = 0
    BY DEF Init
  <1>2. Sequences
    BY <1>1, EmptySeq DEF Sequences
  <1>3. Len(Sent) = 0 /\ Len(requests) = 0
    BY <1>1, <1>2, EmptySeq, ConcatProperties DEF Sent, Sequences
  <1>4. call.message \in Nat
    BY LengthsAssumption DEF Init
  <1>5. op = "none" /\ step = "none" /\ event = "none" /\ status = "NotStarted"
    BY DEF Init
  <1>6. InOrder /\ Counted /\ OneAtATime
    BY <1>1, <1>3, <1>4, <1>5 DEF InOrder, Counted, OneAtATime
  <1> QED
    BY <1>2, <1>6 DEF StreamInv

(* What is sent stays as it was. *)
Stands == UNCHANGED <<requests, heard, up>>

(* What leaves the call and its wire to the robot alone keeps the          *)
(* sequences.                                                              *)
LEMMA StandsKeeps ==
  ASSUME StreamInv, Stands
  PROVE  Sequences' /\ Sent' = Sent /\ Messages' = Messages /\ Len(Sent) \in Nat
                    /\ Len(requests) \in Nat
  <1>1. Sequences' /\ Sent' = Sent /\ Messages' = Messages
    BY DEF Stands, StreamInv, Sequences, Sent, Messages
  <1>2. Len(Sent) \in Nat /\ Len(requests) \in Nat
    BY LenProperties, ConcatProperties DEF StreamInv, Sequences, Sent
  <1> QED
    BY <1>1, <1>2

-----------------------------------------------------------------------------
(* The call begins with a sequence of requests, none of them sent. *)
LEMMA StartedInv ==
  ASSUME StreamInv, NEW messages, NEW first, Started(messages, first), result = "none",
         messages \in Seq({messages[i] : i \in DOMAIN messages}),
         first = "WriteRequest" => Len(messages) > 0
  PROVE  StreamInv'
  <1>1. /\ requests' = messages /\ next' = 0 /\ heard' = <<>> /\ up' = <<>>
        /\ op' = "start" /\ event' = "none" /\ result' = "waiting" /\ step' = first
        /\ call' = call /\ call.message \in Nat
    BY DEF StreamInv, OneAtATime, Started, eventVars, robotVars
  <1>2. Sequences'
    BY <1>1, EmptySeq DEF Sequences, Messages
  <1>3. Len(Sent') = 0 /\ Len(messages) \in Nat
    BY <1>1, <1>2, EmptySeq, ConcatProperties, LenProperties DEF Sent, Sequences
  <1> QED
    BY <1>1, <1>2, <1>3 DEF StreamInv, InOrder, Counted, OneAtATime

(* To initiate a call satisfies it. *)
LEMMA InitiateInv == StreamInv /\ Initiate => StreamInv'
  <1> SUFFICES ASSUME StreamInv, Initiate
               PROVE  StreamInv'
    OBVIOUS
  <1>1. CASE Refused
    <2>1. Stands
      BY <1>1 DEF Refused, Stands, wireVars, robotVars
    <2> QED
      BY <1>1, <2>1, StandsKeeps
         DEF Refused, eventVars, wireVars, StreamInv, InOrder, Counted, OneAtATime
  <1>2. ASSUME NEW buffer, Len(buffer) \in Nat, NEW header, result = "none",
               Started(Streamed(StringToDataChunks(buffer), header), "WriteRequest")
        PROVE  StreamInv'
    <2>1. PICK n \in Nat \ {0} : DOMAIN StringToDataChunks(buffer) = 1 .. n
      BY <1>2, ChunksNotEmpty
    <2> DEFINE messages == Streamed(StringToDataChunks(buffer), header)
    <2>2. /\ messages \in Seq({messages[i] : i \in DOMAIN messages})
          /\ Len(messages) = n
      BY <2>1, StreamedIsSeq
    <2> QED
      BY <1>2, <2>1, <2>2, StartedInv
  <1>3. ASSUME result = "none", Started(<<>>, "StartRead")
        PROVE  StreamInv'
    <2>1. <<>> \in Seq({<<>>[i] : i \in DOMAIN <<>>})
      BY EmptySeq
    <2> QED
      BY <1>3, <2>1, StartedInv
  <1>4. result = "none" /\ Len(Bytes(call.message)) \in Nat
                         /\ Len(Processed(call.message)) \in Nat
    <2>1. call.message \in Nat
      BY DEF StreamInv, OneAtATime
    <2>2. Bytes(call.message) \in Seq(Nat)
      BY <2>1, SeqDef DEF Bytes
    <2>3. Processed(call.message) \in Seq(Nat)
      BY <2>2, ConcatProperties DEF Processed, Header
    <2> QED
      BY <2>2, <2>3, LenProperties
         DEF Initiate, Initiating, InitiateRequestStreamAsyncCall,
             InitiateRequestStreamAsyncCallWithChunking,
             InitiateRequestStreamAsyncCallWithWrappedChunking,
             InitiateResponseStreamAsyncCall,
             InitiateRequestResponseStreamAsyncCallWithChunking
  <1> QED
    BY <1>1, <1>2, <1>3, <1>4
       DEF Initiate, InitiateRequestStreamAsyncCall,
           InitiateRequestStreamAsyncCallWithChunking,
           InitiateRequestStreamAsyncCallWithWrappedChunking,
           InitiateResponseStreamAsyncCall,
           InitiateRequestResponseStreamAsyncCallWithChunking

-----------------------------------------------------------------------------
(* A write that ends puts the request that was counted on the wire. *)
LEMMA WriteEndsInv == StreamInv /\ WriteEnds => StreamInv'
  <1> SUFFICES ASSUME StreamInv, WriteEnds
               PROVE  StreamInv'
    OBVIOUS
  <1>1. CASE ended = "no" /\ up' = Append(up, out)
    <2>1. /\ op = "write" /\ op' = "none" /\ ended' = "no" /\ result # "none"
          /\ UNCHANGED <<call, requests, step, status, result, next, out, heard>>
      BY <1>1 DEF WriteEnds, Raise, startVars, eventVars, robotVars, StreamInv, OneAtATime
    <2>2. /\ next > 0 /\ out = requests[next] /\ next <= Len(requests) /\ next \in Nat
          /\ Len(Sent) = next - 1
      BY <1>1, <2>1 DEF StreamInv, InOrder, Counted
    <2>3. /\ requests \in Seq(Messages) /\ Len(requests) \in Nat
          /\ heard \in Seq(Messages) /\ up \in Seq(Messages)
          /\ out \in Messages /\ Messages' = Messages
      BY <2>1, <2>2, ElementOfSeq, LenProperties DEF StreamInv, Sequences, Messages
    <2>4. /\ up' \in Seq(Messages)
          /\ Len(Sent') = next
          /\ \A i \in 1 .. Len(Sent') : Sent'[i] = IF i <= next - 1 THEN Sent[i] ELSE out
      <3> HIDE DEF Messages
      <3> QED
        BY <1>1, <2>1, <2>2, <2>3, SendOne DEF Sent
    <2>5. Sequences'
      BY <2>1, <2>3, <2>4 DEF Sequences
    <2>6. InOrder'
      BY <2>1, <2>2, <2>3, <2>4 DEF StreamInv, InOrder
    <2> QED
      BY <2>1, <2>2, <2>4, <2>5, <2>6 DEF StreamInv, Counted, OneAtATime
  <1>2. CASE ended # "no" /\ UNCHANGED up
    <2>1. Stands
      BY <1>2 DEF WriteEnds, Raise, startVars, robotVars, Stands
    <2> QED
      BY <1>2, <2>1, StandsKeeps
         DEF WriteEnds, Raise, startVars, eventVars, StreamInv, InOrder, Counted, OneAtATime
  <1> QED
    BY <1>1, <1>2 DEF WriteEnds

(* The other operations leave what was sent alone. *)
LEMMA OperationEndsInv == StreamInv /\ OperationEnds => StreamInv'
  <1> SUFFICES ASSUME StreamInv, OperationEnds, ~WriteEnds
               PROVE  StreamInv'
    BY WriteEndsInv
  <1>1. /\ op \notin {"write", "none"} /\ op' = "none"
        /\ UNCHANGED <<call, requests, step, status, result, next, out, heard, up, ended>>
    BY DEF OperationEnds, StartEnds, WritesDoneEnds, ReadEnds, FinishEnds, Raise,
           startVars, eventVars, wireVars, robotVars
  <1> QED
    BY <1>1, StandsKeeps DEF Stands, StreamInv, InOrder, Counted, OneAtATime

(* The robot takes the requests off the wire in order. *)
LEMMA RobotHearsInv == StreamInv /\ RobotHears => StreamInv'
  <1> SUFFICES ASSUME StreamInv, RobotHears
               PROVE  StreamInv'
    OBVIOUS
  <1>1. /\ up # <<>> /\ heard' = Append(heard, Head(up)) /\ up' = Tail(up)
        /\ UNCHANGED <<call, requests, step, status, result, next, out, op, event, ended>>
    BY DEF RobotHears, callVars, startVars, eventVars
  <1>2. /\ requests \in Seq(Messages) /\ heard \in Seq(Messages) /\ up \in Seq(Messages)
        /\ Messages' = Messages
    BY <1>1 DEF StreamInv, Sequences, Messages
  <1>3. Sequences' /\ Sent' = Sent
    <2> HIDE DEF Messages
    <2> QED
      BY <1>1, <1>2, MoveHead DEF Sequences, Sent
  <1>4. result # "none"
    BY <1>1 DEF StreamInv, OneAtATime
  <1> QED
    BY <1>1, <1>3, <1>4 DEF StreamInv, InOrder, Counted, OneAtATime

-----------------------------------------------------------------------------
(* Only a request that has not been written yet is written next. *)
LEMMA OnCompletionQueueEventInv == StreamInv /\ OnCompletionQueueEvent => StreamInv'
  <1> SUFFICES ASSUME StreamInv, OnCompletionQueueEvent
               PROVE  StreamInv'
    OBVIOUS
  <1>1. /\ event # "none" /\ op = "none" /\ event' = "none" /\ result # "none"
        /\ Stands /\ UNCHANGED <<call, ended>>
    BY DEF OnCompletionQueueEvent, StreamInv, OneAtATime, Stands, wireVars, robotVars
  <1>2. result' # "none"
    BY <1>1 DEF OnCompletionQueueEvent, OnRequestStreamEvent, OnResponseStreamEvent,
                OnRequestResponseStreamEvent, WriteRequest, CallWritesDone, CallFinish,
                StartRead, ContinueReadOrCallFinish, CallCallback, CheckResponse,
                CheckThenJoin, JoinThenCheck, Sets
  <1>3. \/ /\ step = "WriteRequest" /\ next' = next + 1 /\ out' = requests[next + 1]
           /\ op' = "write"
           /\ step' = IF next' = Len(requests) THEN "CallWritesDone" ELSE "WriteRequest"
        \/ UNCHANGED <<next, out>> /\ op' # "write" /\ step' # "WriteRequest"
    BY <1>1 DEF OnCompletionQueueEvent, OnRequestStreamEvent, OnResponseStreamEvent,
                OnRequestResponseStreamEvent, WriteRequest, CallWritesDone, CallFinish,
                StartRead, ContinueReadOrCallFinish, CallCallback, Goes
  <1> QED
    BY <1>1, <1>2, <1>3, StandsKeeps
       DEF Stands, StreamInv, InOrder, Counted, OneAtATime

(* The rest of the robot, the deadline and a cancellation do not write.    *)
LEMMA OthersInv ==
  ASSUME StreamInv,
         RobotAnswers \/ RobotEndsCall \/ RobotFails \/ DeadlineExpires \/ Cancel \/
           UNCHANGED vars
  PROVE  StreamInv'
  <1>1. /\ Stands /\ UNCHANGED <<call, step, next, out, op, event>>
        /\ ended' = ended \/ ended' # "no"
        /\ UNCHANGED <<result, status>> \/ result' # "none"
    BY DEF RobotAnswers, RobotEndsCall, RobotFails, DeadlineExpires, Cancel, vars, Stands,
           callVars, startVars, eventVars, wireVars, robotVars, StreamInv, OneAtATime
  <1> QED
    BY <1>1, StandsKeeps DEF Stands, StreamInv, InOrder, Counted, OneAtATime

(* The invariant holds of every behaviour. *)
LEMMA StreamInvariant == Spec => []StreamInv
  <1>1. StreamInv /\ [Next]_vars => StreamInv'
    BY InitiateInv, OperationEndsInv, RobotHearsInv, OnCompletionQueueEventInv, OthersInv
       DEF Next, Robot, Rest
  <1> QED
    BY <1>1, InitStreamInv, PTL DEF Spec

-----------------------------------------------------------------------------
(* The robot gets the requests in order and each once, whatever operations *)
(* fail and however they interleave with its answers (message_pump.h:230). *)
THEOREM StreamWrittenInOrder == Spec => []WrittenInOrder
  <1>1. StreamInv => WrittenInOrder
    <2> SUFFICES ASSUME StreamInv
                 PROVE  WrittenInOrder
      OBVIOUS
    <2>1. Len(Sent) \in Nat /\ Len(requests) \in Nat
      BY LenProperties, ConcatProperties DEF StreamInv, Sequences, Sent
    <2> QED
      BY <2>1 DEF StreamInv, InOrder, WrittenInOrder, Sent
  <1> QED
    BY <1>1, StreamInvariant, PTL

-----------------------------------------------------------------------------
(* Joining what was split *)

(* Every nonempty set of natural numbers has a least one. *)
LEMMA LeastNatural ==
  ASSUME NEW T, T \subseteq Nat, T # {}
  PROVE  \E x \in T : \A y \in T : x <= y
  <1> DEFINE R == {ss \in Nat \X Nat : ss[1] < ss[2]}
  <1>1. IsWellFoundedOn(R, Nat)
    BY NatLessThanWellFounded DEF OpToRel
  <1> HIDE DEF R
  <1>2. PICK x \in T : \A y \in T : <<y, x>> \notin R
    BY <1>1, WFMin
  <1>3. \A y \in T : ~ (y < x)
    BY <1>2 DEF R
  <1> QED
    BY <1>3

(* Where a chunk ends. *)
EndOf(i, length) == IF i <= length \div ChunkSize THEN i * ChunkSize ELSE length

(* A chunk ends where the next begins, and the last with the message. *)
LEMMA EndsInOrder ==
  ASSUME NEW length \in Nat, NEW i \in 1 .. length \div ChunkSize + 1
  PROVE  /\ EndOf(i - 1, length) = (i - 1) * ChunkSize
         /\ EndOf(i - 1, length) \in Nat
         /\ EndOf(i, length) \in Nat
         /\ EndOf(i - 1, length) <= EndOf(i, length)
         /\ EndOf(i, length) <= length
  <1> DEFINE full == length \div ChunkSize
  <1>1. /\ full \in Nat /\ ChunkSize \in Nat /\ ChunkSize > 0
    BY ChunkSizeAssumption
  <1>2. full * ChunkSize <= length
    BY ChunkSizeAssumption
  <1> HIDE DEF full
  <1>3. \A j \in Nat : j <= full => j * ChunkSize \in Nat /\ j * ChunkSize <= full * ChunkSize
    BY <1>1, <1>2
  <1>4. i - 1 \in Nat /\ i \in Nat /\ i - 1 <= full
    BY <1>1 DEF full
  <1>5. (i - 1) * ChunkSize <= i * ChunkSize /\ i * ChunkSize \in Nat
    BY <1>1, <1>4
  <1> QED
    BY <1>1, <1>2, <1>3, <1>4, <1>5 DEF full, EndOf
(* Chunks that hold a message's bytes from end to end. *)
PartsOf(buffer, chunks) ==
  /\ DOMAIN chunks = 1 .. Len(buffer) \div ChunkSize + 1
  /\ \A i \in DOMAIN chunks :
       /\ chunks[i].data = SubSeq(buffer, EndOf(i - 1, Len(buffer)) + 1, EndOf(i, Len(buffer)))
       /\ chunks[i].total_size = Len(buffer)

(* The parts of a buffer, appended, are the buffer. *)
LEMMA AppendedIsWhole ==
  ASSUME NEW S, NEW buffer \in Seq(S), NEW chunks, Len(chunks) \in Nat, PartsOf(buffer, chunks),
         DOMAIN chunks = 1 .. Len(chunks)
  PROVE  Appended(chunks) = buffer
  <1> DEFINE n == Len(chunks)
             size == Len(buffer)
             Joins(g) == g = [i \in 0 .. n |-> IF i = 0 THEN <<>> ELSE g[i - 1] \o chunks[i].data]
             whole == [i \in 0 .. n |-> SubSeq(buffer, 1, EndOf(i, size))]
             upTo[i \in 0 .. n] == IF i = 0 THEN <<>> ELSE upTo[i - 1] \o chunks[i].data
  <1>1. /\ n \in Nat /\ size \in Nat /\ size \div ChunkSize \in Nat
        /\ n = size \div ChunkSize + 1
    BY LenProperties, ChunkSizeAssumption DEF PartsOf
  <1> HIDE DEF n, size
  <1>2. whole[0] = <<>>
    <2>1. EndOf(0, size) = 0
      BY <1>1, ChunkSizeAssumption DEF EndOf
    <2> QED
      BY <1>1, <2>1, SubSeqEmpty
  <1>3. ASSUME NEW i \in 1 .. n
        PROVE  whole[i] = whole[i - 1] \o chunks[i].data
    <2>1. /\ i - 1 \in 0 .. n /\ i \in 0 .. n
          /\ EndOf(i - 1, size) \in 0 .. size
          /\ EndOf(i, size) \in EndOf(i - 1, size) .. size
      BY <1>1, EndsInOrder
    <2>2. chunks[i].data = SubSeq(buffer, EndOf(i - 1, size) + 1, EndOf(i, size))
      BY DEF PartsOf, n, size
    <2>3. SubSeq(buffer, 1, EndOf(i - 1, size)) \o chunks[i].data
            = SubSeq(buffer, 1, EndOf(i, size))
      <3>1. /\ 1 \in 1 .. size + 1 /\ EndOf(i - 1, size) \in 1 - 1 .. size
        BY <1>1, <2>1
      <3> QED
        BY <2>1, <2>2, <3>1, ConcatAdjacentSubSeq DEF size
    <2> QED
      BY <2>1, <2>3
  <1>4. Joins(whole)
    <2>1. \A i \in 0 .. n : whole[i] = IF i = 0 THEN <<>> ELSE whole[i - 1] \o chunks[i].data
      <3> HIDE DEF whole
      <3>1. ASSUME NEW i \in 0 .. n
            PROVE  whole[i] = IF i = 0 THEN <<>> ELSE whole[i - 1] \o chunks[i].data
        <4>1. i = 0 \/ i \in 1 .. n
          BY <1>1
        <4> QED
          BY <4>1, <1>1, <1>2, <1>3
      <3> QED
        BY <3>1
    <2> QED
      BY <2>1
  <1>5. Joins(upTo)
    <2>1. upTo = CHOOSE g : Joins(g)
      BY Zenon
    <2> HIDE DEF Joins, whole, upTo
    <2> QED
      BY <1>4, <2>1
  <1>6. \A i \in 0 .. n : upTo[i] = whole[i]
    <2> SUFFICES ASSUME NEW k \in 0 .. n, upTo[k] # whole[k]
                 PROVE  FALSE
      OBVIOUS
    <2> DEFINE T == {i \in 0 .. n : upTo[i] # whole[i]}
    <2> HIDE DEF upTo, whole
    <2>1. T \subseteq Nat /\ T # {}
      BY <1>1
    <2>2. PICK x \in T : \A y \in T : x <= y
      BY <2>1, LeastNatural
    <2>3. x \in 0 .. n /\ upTo[x] # whole[x]
      BY <2>2
    <2>4. \A i \in 0 .. n : upTo[i] = IF i = 0 THEN <<>> ELSE upTo[i - 1] \o chunks[i].data
      BY <1>5
    <2>5. x # 0
      BY <1>2, <2>3, <2>4
    <2>6. x - 1 \in 0 .. n /\ x \in 1 .. n /\ ~ (x <= x - 1)
      BY <1>1, <2>3, <2>5
    <2>7. upTo[x - 1] = whole[x - 1]
      BY <2>2, <2>6
    <2> QED
      BY <1>3, <2>3, <2>4, <2>5, <2>6, <2>7
  <1>7. whole[n] = buffer
    <2>1. EndOf(n, size) = size /\ n \in 0 .. n
      BY <1>1 DEF EndOf
    <2> QED
      BY <2>1, SubSeqFull DEF size
  <1>8. Appended(chunks) = upTo[n]
    BY Zenon DEF Appended, n
  <1> HIDE DEF upTo, whole
  <1>9. n \in 0 .. n
    BY <1>1
  <1> QED
    BY <1>6, <1>7, <1>8, <1>9

(* Chunks give back the message they were made of, whatever its size and   *)
(* whatever else the messages that carry them hold (data_chunking.cpp:56). *)
LEMMA PartsJoin ==
  ASSUME NEW S, NEW buffer \in Seq(S), NEW chunks, PartsOf(buffer, chunks)
  PROVE  StringFromDataChunks(chunks) = [good |-> TRUE, message |-> buffer]
  <1>1. /\ Len(buffer) \in Nat
        /\ Len(buffer) \div ChunkSize \in Nat
    BY LenProperties, ChunkSizeAssumption
  <1>2. PICK n \in Nat \ {0} : DOMAIN chunks = 1 .. n
    <2> DEFINE n == Len(buffer) \div ChunkSize + 1
    <2>1. DOMAIN chunks = 1 .. n
      BY DEF PartsOf
    <2>2. n \in Nat \ {0}
      BY <1>1
    <2> QED
      BY <2>1, <2>2
  <1>3. Len(chunks) = n
    BY <1>2, LenProperties DEF PartsOf
  <1>4. Appended(chunks) = buffer
    BY <1>2, <1>3, AppendedIsWhole
  <1>5. \A i \in 1 .. Len(chunks) : chunks[i].total_size = Len(buffer)
    BY <1>2, <1>3 DEF PartsOf
  <1>6. chunks # <<>> /\ 1 \in 1 .. Len(chunks)
    BY <1>2, <1>3
  <1> QED
    BY <1>4, <1>5, <1>6 DEF StringFromDataChunks

(* What splitting makes are the parts of the buffer, with or without a     *)
(* header.                                                                 *)
LEMMA SplitParts ==
  ASSUME NEW S, NEW buffer \in Seq(S), NEW header
  PROVE  /\ PartsOf(buffer, StringToDataChunks(buffer))
         /\ PartsOf(buffer, Streamed(StringToDataChunks(buffer), header))
  <1> DEFINE size == Len(buffer)
             full == size \div ChunkSize
             chunks == StringToDataChunks(buffer)
  <1>1. size \in Nat /\ full \in Nat /\ ChunkSize \in Nat
    BY LenProperties, ChunkSizeAssumption
  <1>2. chunks = [i \in 1 .. full + 1 |->
                    [data |-> SubSeq(buffer, (i - 1) * ChunkSize + 1,
                                     IF i <= full THEN i * ChunkSize ELSE size),
                     total_size |-> size]]
    BY Zenon DEF StringToDataChunks
  <1> HIDE DEF size, full, chunks
  <1>3. ASSUME NEW i \in 1 .. full + 1
        PROVE  /\ chunks[i].data = SubSeq(buffer, EndOf(i - 1, size) + 1, EndOf(i, size))
               /\ chunks[i].total_size = size
    <2>1. EndOf(i - 1, size) = (i - 1) * ChunkSize
      BY <1>1, EndsInOrder DEF full
    <2>2. EndOf(i, size) = IF i <= full THEN i * ChunkSize ELSE size
      BY DEF EndOf, full
    <2> QED
      BY <1>2, <2>1, <2>2
  <1>4. DOMAIN chunks = 1 .. full + 1
    BY <1>2
  <1>5. PartsOf(buffer, chunks)
    BY <1>3, <1>4 DEF PartsOf, size, full
  <1>6. /\ DOMAIN Streamed(chunks, header) = DOMAIN chunks
        /\ \A i \in DOMAIN chunks :
             /\ Streamed(chunks, header)[i].data = chunks[i].data
             /\ Streamed(chunks, header)[i].total_size = chunks[i].total_size
    BY DEF Streamed
  <1>7. PartsOf(buffer, Streamed(chunks, header))
    BY <1>5, <1>6 DEF PartsOf
  <1> QED
    BY <1>5, <1>7 DEF chunks

(* A message of any bytes and any size is what its chunks are joined to    *)
(* (data_chunking.cpp:14, data_chunking.cpp:56).                           *)
THEOREM SplitThenJoin ==
  ASSUME NEW S, NEW buffer \in Seq(S)
  PROVE  StringFromDataChunks(StringToDataChunks(buffer))
           = [good |-> TRUE, message |-> buffer]
  BY SplitParts, PartsJoin

-----------------------------------------------------------------------------
(* What the initiating functions put on the stream. *)
Content == IF call.kind = "requests" THEN Bytes(call.message) ELSE Processed(call.message)

Made ==
  IF ~WritesRequests THEN <<>>
  ELSE IF call.kind \in {"requests", "wrapped"}
  THEN Streamed(StringToDataChunks(Content), TRUE)
  ELSE Streamed(StringToDataChunks(Content), FALSE)

(* The messages of the robot's answer, and those it has sent that are not  *)
(* lost: the one that was just read is put with the responses when the     *)
(* pump takes its event.                                                   *)
Parts == {Answer[i] : i \in DOMAIN Answer}

Reading == step = "ContinueReadOrCallFinish"
Got == IF Reading /\ event = "ok" THEN Append(responses, last) ELSE responses
Received == Got \o down

Beginning ==
  /\ call.message \in Nat /\ call.answer \in Nat
  /\ result = "none" =>
       /\ step = "none" /\ responses = <<>> /\ down = <<>> /\ said = 0
       /\ ~half /\ ended = "no"
  /\ status = "Called" => result = "waiting"
  /\ status # "NotStarted" => requests = Made
  /\ status = "NotStarted" => step = "none" /\ result \in {"none", "refused"}

(* Which operation is under way at which step, and that the end of the     *)
(* requests is declared only when all of them have been counted.           *)
InStep ==
  /\ event \in {"none", "ok", "failed"}
  /\ op = "write" => step \in {"WriteRequest", "CallWritesDone"}
  /\ op = "writesDone" => step \in {"CallFinish", "StartRead"}
  /\ op = "read" => Reading
  /\ Reading => op = "read" \/ event # "none"
  /\ half => step \notin {"WriteRequest", "CallWritesDone"}
  /\ half \/ op = "writesDone" \/ step = "CallWritesDone" => next = Len(requests)
  /\ step \in {"WriteRequest", "CallWritesDone", "CallFinish", "StartRead"} =>
       responses = <<>>

(* Until the call is cancelled no answer is lost or out of its place. *)
Answered ==
  /\ responses \in Seq(Parts) /\ down \in Seq(Parts)
  /\ Reading /\ event = "ok" => last \in Parts
  /\ said \in Nat /\ said <= Len(Answer)
  /\ status \in {"NotStarted", "Called"} =>
       Len(Received) = said /\ \A i \in 1 .. said : Received[i] = Answer[i]

(* A call ends well only after the whole exchange, and of a call that has  *)
(* a read fails only when nothing is left to read.                         *)
AtEnd ==
  /\ ended = "OK" => half /\ up = <<>> /\ said = Len(Answer) /\ Len(Sent) = Len(requests)
  /\ (Reading /\ event = "failed") \/ (step = "CallCallback" /\ responses # <<>>) =>
       ended # "no" /\ (ended = "OK" => down = <<>>)
  /\ result = "OK" =>
       /\ ended = "OK" /\ status = "Completed" /\ call.accepted
       /\ ReadsResponses => delivered = Bytes(call.answer)

ExchangeInv == Beginning /\ InStep /\ Answered /\ AtEnd

-----------------------------------------------------------------------------
(* What depends on the call alone. *)
LEMMA CallStays ==
  ASSUME call' = call
  PROVE  /\ Made' = Made /\ Answer' = Answer /\ Parts' = Parts
         /\ ReadsResponses' = ReadsResponses
  BY DEF Made, Content, Answer, Parts, ReadsResponses, WritesRequests

(* Messages are sequences of bytes. *)
LEMMA BytesAreSeq ==
  ASSUME NEW n \in Nat
  PROVE  Bytes(n) \in Seq(Nat) /\ Processed(n) \in Seq(Nat)
  <1>1. Bytes(n) \in Seq(Nat)
    BY SeqDef DEF Bytes
  <1> QED
    BY <1>1, ConcatProperties DEF Processed, Header

(* An answer is a sequence of parts, of which a stream has at least one. *)
LEMMA AnswerIsSeq ==
  ASSUME call.answer \in Nat
  PROVE  /\ Answer \in Seq(Parts) /\ Len(Answer) \in Nat
         /\ ReadsResponses => Answer # <<>>
  <1> DEFINE chunks == StringToDataChunks(Bytes(call.answer))
  <1>1. CASE ReadsResponses
    <2>1. PICK n \in Nat \ {0} : DOMAIN chunks = 1 .. n
      BY BytesAreSeq, LenProperties, ChunksNotEmpty
    <2>2. PICK header : Answer = Streamed(chunks, header)
      BY <1>1 DEF Answer
    <2> HIDE DEF chunks
    <2>3. Answer \in Seq(Parts) /\ Len(Answer) = n
      BY <2>1, <2>2, StreamedIsSeq DEF Parts
    <2> QED
      BY <2>1, <2>3, EmptySeq
  <1>2. CASE ~ReadsResponses
    <2>1. Answer = <<>>
      BY <1>2 DEF Answer
    <2> QED
      BY <1>2, <2>1, EmptySeq DEF Parts
  <1> QED
    BY <1>1, <1>2

(* What is received is a sequence of answers. *)
LEMMA ReceivedIsSeq ==
  ASSUME Answered
  PROVE  /\ Got \in Seq(Parts) /\ Received \in Seq(Parts)
         /\ Len(Received) \in Nat
  <1>1. Got \in Seq(Parts)
    BY AppendProperties DEF Answered, Got
  <1>2. Received \in Seq(Parts)
    BY <1>1, ConcatProperties DEF Answered, Received
  <1> QED
    BY <1>1, <1>2, LenProperties

-----------------------------------------------------------------------------
(* A call that is not made satisfies the invariant. *)
LEMMA InitExchange == Init => ExchangeInv
  <1> SUFFICES ASSUME Init
               PROVE  ExchangeInv
    OBVIOUS
  <1>1. /\ call.message \in Nat /\ call.answer \in Nat
        /\ requests = <<>> /\ next = 0 /\ responses = <<>> /\ step = "none"
        /\ status = "NotStarted" /\ op = "none" /\ event = "none" /\ result = "none"
        /\ down = <<>> /\ half = FALSE /\ ended = "no" /\ said = 0
    BY LengthsAssumption DEF Init
  <1>2. Beginning /\ InStep /\ AtEnd
    BY <1>1 DEF Beginning, InStep, AtEnd, Reading
  <1>3. Answered
    <2>1. Received = <<>> \o <<>>
      BY <1>1 DEF Received, Got, Reading
    <2>2. Len(Received) = 0
      <3>1. <<>> \in Seq(Parts) /\ Len(<<>>) = 0
        BY EmptySeq
      <3> QED
        BY <2>1, <3>1, ConcatProperties
    <2>3. Len(Answer) \in Nat
      BY <1>1, AnswerIsSeq
    <2> QED
      BY <1>1, <2>2, <2>3, EmptySeq DEF Answered, Reading
  <1> QED
    BY <1>2, <1>3 DEF ExchangeInv

(* A call begins with all its requests and no answer. *)
LEMMA StartedExchange ==
  ASSUME StreamInv, ExchangeInv, result = "none", NEW first,
         Started(Made, first),
         \/ WritesRequests /\ first = "WriteRequest" /\ Made # <<>>
         \/ ~WritesRequests /\ first = "StartRead" /\ Made = <<>>
  PROVE  ExchangeInv'
  <1>1. /\ call' = call /\ requests' = Made /\ step' = first /\ status' = "Called"
        /\ result' = "waiting" /\ op' = "start" /\ (half' <=> Made = <<>>)
        /\ event = "none"
        /\ UNCHANGED <<next, out, responses, delivered, last, event, up, down, ended,
                       heard, said>>
    BY DEF Started, eventVars, robotVars, StreamInv, OneAtATime
  <1>2. /\ Made' = Made /\ Answer' = Answer /\ Parts' = Parts
        /\ ReadsResponses' = ReadsResponses
    BY <1>1, CallStays
  <1>3. /\ responses = <<>> /\ down = <<>> /\ said = 0 /\ ended = "no" /\ next = 0
        /\ step = "none" /\ Len(<<>>) = 0
    BY EmptySeq DEF ExchangeInv, Beginning, StreamInv, OneAtATime
  <1>4. Beginning'
    BY <1>1, <1>2 DEF ExchangeInv, Beginning
  <1>5. InStep'
    BY <1>1, <1>3 DEF InStep, Reading
  <1>6. Received' = Received
    BY <1>1, <1>3 DEF Received, Got, Reading
  <1>7. Answered'
    <2>1. status = "NotStarted" /\ ~Reading'
      BY <1>1 DEF StreamInv, OneAtATime, Reading
    <2> QED
      BY <1>1, <1>2, <1>3, <1>6, <2>1 DEF ExchangeInv, Answered
  <1>8. AtEnd'
    BY <1>1, <1>3 DEF AtEnd, Reading
  <1> QED
    BY <1>4, <1>5, <1>7, <1>8 DEF ExchangeInv


(* A call that writes requests has one to write. *)
LEMMA MadeNotEmpty ==
  ASSUME call.message \in Nat, WritesRequests
  PROVE  Made # <<>>
  <1>1. Len(Content) \in Nat
    BY BytesAreSeq, LenProperties DEF Content
  <1>2. PICK n \in Nat \ {0} : DOMAIN StringToDataChunks(Content) = 1 .. n
    BY <1>1, ChunksNotEmpty
  <1>3. PICK header : Made = Streamed(StringToDataChunks(Content), header)
    BY DEF Made
  <1>4. Len(Made) = n
    BY <1>2, <1>3, StreamedIsSeq
  <1> QED
    BY <1>2, <1>4, EmptySeq

(* To initiate a call keeps the invariant of the exchange. *)
LEMMA InitiateExchange ==
  ASSUME StreamInv, ExchangeInv, Initiate
  PROVE  ExchangeInv'
  <1>1. CASE Refused
    <2>1. /\ result' = "refused"
          /\ UNCHANGED <<call, requests, step, status, next, out, responses, delivered, last,
                         op, event, up, down, half, ended, heard, said>>
      BY <1>1 DEF Refused, eventVars, wireVars, robotVars
    <2>2. /\ Made' = Made /\ Answer' = Answer /\ Parts' = Parts
          /\ ReadsResponses' = ReadsResponses
      BY <2>1, CallStays
    <2>3. status = "NotStarted"
      BY DEF Initiate, Initiating, StreamInv, OneAtATime, InitiateRequestStreamAsyncCall,
             InitiateRequestStreamAsyncCallWithChunking,
             InitiateRequestStreamAsyncCallWithWrappedChunking,
             InitiateResponseStreamAsyncCall,
             InitiateRequestResponseStreamAsyncCallWithChunking
    <2>4. Received' = Received /\ Sent' = Sent
      BY <2>1 DEF Received, Got, Reading, Sent
    <2>5. Beginning' /\ InStep'
      BY <2>1, <2>2, <2>3 DEF ExchangeInv, Beginning, InStep, Reading
    <2>6. Answered'
      BY <2>1, <2>2, <2>4 DEF ExchangeInv, Answered, Reading
    <2>7. AtEnd'
      BY <2>1, <2>2, <2>4 DEF ExchangeInv, AtEnd, Reading
    <2> QED
      BY <2>5, <2>6, <2>7 DEF ExchangeInv
  <1>2. CASE ~Refused
    <2>1. /\ result = "none"
          /\ \/ WritesRequests /\ Started(Made, "WriteRequest")
             \/ ~WritesRequests /\ Made = <<>> /\ Started(Made, "StartRead")
      <3>1. CASE InitiateRequestStreamAsyncCall
        BY <1>2, <3>1
           DEF InitiateRequestStreamAsyncCall,
               Initiating, WritesRequests, Made, Content
      <3>2. CASE InitiateRequestStreamAsyncCallWithChunking
        BY <1>2, <3>2
           DEF InitiateRequestStreamAsyncCallWithChunking,
               Initiating, WritesRequests, Made, Content
      <3>3. CASE InitiateRequestStreamAsyncCallWithWrappedChunking
        BY <1>2, <3>3
           DEF InitiateRequestStreamAsyncCallWithWrappedChunking,
               Initiating, WritesRequests, Made, Content
      <3>4. CASE InitiateResponseStreamAsyncCall
        BY <1>2, <3>4
           DEF InitiateResponseStreamAsyncCall,
               Initiating, WritesRequests, Made, Content
      <3>5. CASE InitiateRequestResponseStreamAsyncCallWithChunking
        BY <1>2, <3>5
           DEF InitiateRequestResponseStreamAsyncCallWithChunking,
               Initiating, WritesRequests, Made, Content
      <3> QED
        BY <3>1, <3>2, <3>3, <3>4, <3>5 DEF Initiate
    <2>2. WritesRequests => Made # <<>>
      BY MadeNotEmpty DEF ExchangeInv, Beginning
    <2> QED
      BY <2>1, <2>2, StartedExchange
  <1> QED
    BY <1>1, <1>2

-----------------------------------------------------------------------------
(* The operations *)

(* So does an operation that ends. *)
LEMMA StartEndsExchange ==
  ASSUME StreamInv, ExchangeInv, StartEnds \/ WriteEnds \/ WritesDoneEnds \/ FinishEnds
  PROVE  ExchangeInv'
  <1>1. /\ op \notin {"read", "none"} /\ op' = "none" /\ event = "none" /\ event' # "none"
        /\ event' \in {"ok", "failed"}
        /\ UNCHANGED <<call, requests, step, status, result, next, out, responses, delivered,
                       last, down, ended, heard, said>>
        /\ half' = half \/ (half' = TRUE /\ op = "writesDone")
        /\ ended = "no" \/ up' = up
    BY DEF StartEnds, WriteEnds, WritesDoneEnds, FinishEnds, Raise, startVars, eventVars,
           wireVars, robotVars, StreamInv, OneAtATime
  <1>2. /\ Made' = Made /\ Answer' = Answer /\ Parts' = Parts
        /\ ReadsResponses' = ReadsResponses
    BY <1>1, CallStays
  <1>3. ~Reading /\ Received' = Received /\ ~Reading'
    BY <1>1 DEF ExchangeInv, InStep, Received, Got, Reading
  <1>4. result # "none"
    BY <1>1 DEF StreamInv, OneAtATime
  <1>5. Beginning'
    BY <1>1, <1>2, <1>4 DEF ExchangeInv, Beginning
  <1>6. InStep'
    BY <1>1, <1>3 DEF ExchangeInv, InStep
  <1>7. Answered'
    BY <1>1, <1>2, <1>3 DEF ExchangeInv, Answered
  <1>8. AtEnd'
    BY <1>1, <1>2, <1>3 DEF ExchangeInv, AtEnd, Sent
  <1> QED
    BY <1>5, <1>6, <1>7, <1>8 DEF ExchangeInv

(* A message that is read leaves the wire, and no read fails while the     *)
(* robot's end of the call is still to be read up to.                      *)
LEMMA ReadEndsExchange ==
  ASSUME StreamInv, ExchangeInv, ReadEnds
  PROVE  ExchangeInv'
  <1>1. /\ op = "read" /\ op' = "none" /\ event = "none" /\ event' \in {"ok", "failed"}
        /\ UNCHANGED <<call, requests, step, status, result, next, out, responses, delivered,
                       up, half, ended, heard, said>>
        /\ Reading /\ Reading'
    BY DEF ReadEnds, Raise, startVars, eventVars, robotVars, StreamInv, OneAtATime,
           ExchangeInv, InStep, Reading
  <1>2. /\ Made' = Made /\ Answer' = Answer /\ Parts' = Parts
        /\ ReadsResponses' = ReadsResponses
    BY <1>1, CallStays
  <1>3. \/ /\ down # <<>> /\ last' = Head(down) /\ down' = Tail(down) /\ event' = "ok"
        \/ /\ ended # "no" /\ (ended = "OK" => down = <<>>)
           /\ last' = last /\ down' = down /\ event' = "failed"
    BY DEF ReadEnds, Raise
  <1>4. result # "none"
    BY <1>1 DEF StreamInv, OneAtATime
  <1>5. Beginning'
    BY <1>1, <1>2, <1>4 DEF ExchangeInv, Beginning
  <1>6. InStep'
    BY <1>1 DEF ExchangeInv, InStep, Reading
  <1>7. /\ responses' \in Seq(Parts) /\ down' \in Seq(Parts)
        /\ event' = "ok" => last' \in Parts
        /\ Received' = Received
    <2>1. Got = responses /\ responses \in Seq(Parts) /\ down \in Seq(Parts)
      BY <1>1 DEF Got, ExchangeInv, Answered
    <2>2. CASE event' = "ok"
      <3>1. Got' = Append(responses, Head(down)) /\ down' = Tail(down) /\ down # <<>>
        BY <1>1, <1>3, <2>2 DEF Got
      <3>2. Head(down) \in Parts
        BY <2>1, <3>1, HeadTailProperties
      <3>3. Received' = Received /\ down' \in Seq(Parts)
        BY <2>1, <3>1, MoveHead DEF Received
      <3> QED
        BY <1>1, <1>3, <2>1, <2>2, <3>2, <3>3
    <2>3. CASE event' = "failed"
      BY <1>1, <1>3, <2>1, <2>3 DEF Got, Received
    <2> QED
      BY <1>1, <2>2, <2>3
  <1>8. Answered'
    BY <1>1, <1>2, <1>7 DEF ExchangeInv, Answered
  <1>9. AtEnd'
    BY <1>1, <1>2, <1>3 DEF ExchangeInv, AtEnd, Sent, Reading
  <1> QED
    BY <1>5, <1>6, <1>8, <1>9 DEF ExchangeInv

-----------------------------------------------------------------------------
(* The events *)

(* The program joins the robot's whole answer. *)
LEMMA JoinedAnswer ==
  ASSUME ExchangeInv, status = "Called", step = "CallCallback", ended = "OK",
         responses # <<>>, ReadsResponses
  PROVE  StringFromDataChunks(responses) = [good |-> TRUE, message |-> Bytes(call.answer)]
  <1>1. call.answer \in Nat
    BY DEF ExchangeInv, Beginning
  <1>2. Answer \in Seq(Parts) /\ Len(Answer) \in Nat
    BY <1>1, AnswerIsSeq
  <1>3. down = <<>> /\ said = Len(Answer)
    BY DEF ExchangeInv, AtEnd
  <1>4. responses \in Seq(Parts) /\ Received = responses \o <<>>
    BY <1>3 DEF ExchangeInv, Answered, Received, Got, Reading
  <1>5. Received = responses
    BY <1>4, ConcatEmptySeq
  <1>6. Len(responses) = Len(Answer) /\ \A i \in 1 .. Len(Answer) : responses[i] = Answer[i]
    BY <1>3, <1>5 DEF ExchangeInv, Answered
  <1>7. responses = Answer
    BY <1>2, <1>4, <1>6, SeqEqual
  <1>8. PartsOf(Bytes(call.answer), Streamed(StringToDataChunks(Bytes(call.answer)), TRUE))
    BY <1>1, BytesAreSeq, SplitParts, Zenon
  <1>9. Answer = Streamed(StringToDataChunks(Bytes(call.answer)), TRUE)
    BY DEF Answer
  <1> QED
    BY <1>1, <1>7, <1>8, <1>9, BytesAreSeq, PartsJoin

(* So does the completion, whichever shape it has. *)
LEMMA CallCallbackExchange ==
  ASSUME StreamInv, ExchangeInv, OnCompletionQueueEvent, status = "Called",
         \/ ~ReadsResponses /\ CallCallback(CheckResponse)
         \/ ReadsResponses /\ CallCallback(CheckThenJoin)
         \/ ReadsResponses /\ CallCallback(JoinThenCheck)
  PROVE  ExchangeInv'
  <1>1. /\ step = "CallCallback" /\ status' = "Completed" /\ op' = "none" /\ step' = "none"
        /\ event' = "none" /\ result' # "none"
        /\ UNCHANGED <<call, requests, next, out, responses, last, up, down, half, ended,
                       heard, said>>
    BY DEF CallCallback, CheckResponse, CheckThenJoin, JoinThenCheck, Sets, Goes,
           OnCompletionQueueEvent, wireVars, robotVars
  <1>2. /\ Made' = Made /\ Answer' = Answer /\ Parts' = Parts
        /\ ReadsResponses' = ReadsResponses
    BY <1>1, CallStays
  <1>3. Beginning'
    BY <1>1, <1>2 DEF ExchangeInv, Beginning
  <1>4. InStep'
    BY <1>1 DEF ExchangeInv, InStep, Reading
  <1>5. Answered'
    BY <1>1, <1>2 DEF ExchangeInv, Answered, Reading
  <1>6. ASSUME result' = "OK"
        PROVE  /\ ended = "OK" /\ call.accepted
               /\ ReadsResponses => delivered' = Bytes(call.answer)
    <2>1. CASE ~ReadsResponses
      BY <1>6, <2>1 DEF CallCallback, CheckResponse, Sets
    <2>2. CASE ReadsResponses
      <3> DEFINE joined == StringFromDataChunks(responses)
      <3>1. ended = "OK" /\ delivered' = joined.message
        BY <1>6, <2>2 DEF CallCallback, CheckThenJoin, JoinThenCheck, Sets
      <3>2. responses # <<>> /\ call.accepted
        <4>1. responses = <<>> => joined.message = <<>>
          BY DEF StringFromDataChunks
        <4> QED
          BY <1>6, <2>2, <4>1 DEF CallCallback, CheckThenJoin, JoinThenCheck, Sets
      <3>3. joined = [good |-> TRUE, message |-> Bytes(call.answer)]
        BY <1>1, <2>2, <3>1, <3>2, JoinedAnswer
      <3> HIDE DEF joined
      <3> QED
        BY <3>1, <3>2, <3>3
    <2> QED
      BY <2>1, <2>2
  <1>7. AtEnd'
    BY <1>1, <1>2, <1>6 DEF ExchangeInv, AtEnd, Sent, Reading
  <1> QED
    BY <1>3, <1>4, <1>5, <1>7 DEF ExchangeInv

(* An event that takes the call to its next step: what was read is put     *)
(* with the responses, and only a failure ends the reading.                *)
LEMMA StepExchange ==
  ASSUME StreamInv, ExchangeInv, OnCompletionQueueEvent, status = "Called",
         NEW success \in BOOLEAN, success <=> event = "ok", NEW following, NEW alike,
         \/ WriteRequest(success)
         \/ CallWritesDone(following) /\ following \in {"CallFinish", "StartRead"}
         \/ CallFinish
         \/ StartRead(alike)
         \/ ContinueReadOrCallFinish(success)
  PROVE  ExchangeInv'
  <1>1. /\ op = "none" /\ event' = "none"
        /\ event = IF success THEN "ok" ELSE "failed"
        /\ UNCHANGED <<call, requests, status, result, delivered, last, up, down, half, ended,
                       heard, said>>
    BY DEF OnCompletionQueueEvent, wireVars, robotVars, WriteRequest, CallWritesDone,
           CallFinish, StartRead, ContinueReadOrCallFinish, StreamInv, OneAtATime,
           ExchangeInv, InStep
  <1>2. /\ Made' = Made /\ Answer' = Answer /\ Parts' = Parts
        /\ ReadsResponses' = ReadsResponses
    BY <1>1, CallStays
  <1>3. result # "none" /\ result # "OK"
    BY DEF ExchangeInv, Beginning
  <1>4. Beginning'
    BY <1>1, <1>2, <1>3 DEF ExchangeInv, Beginning
  <1>5. InStep'
    <2>1. CASE WriteRequest(success)
      <3>1. /\ step = "WriteRequest" /\ responses' = responses /\ responses = <<>> /\ ~half
            /\ \/ /\ op' = "write" /\ step' \in {"WriteRequest", "CallWritesDone"}
                  /\ step' = "CallWritesDone" => next' = Len(requests)
               \/ op' = "finish" /\ step' = "CallCallback"
        BY <1>1, <2>1 DEF WriteRequest, Goes, ExchangeInv, InStep
      <3> QED
        BY <1>1, <3>1 DEF InStep, Reading
    <2>2. CASE CallWritesDone(following) /\ following \in {"CallFinish", "StartRead"}
      BY <1>1, <2>2 DEF CallWritesDone, Goes, ExchangeInv, InStep, Reading
    <2>3. CASE CallFinish
      BY <1>1, <2>3 DEF CallFinish, Goes, ExchangeInv, InStep, Reading
    <2>4. CASE StartRead(alike)
      BY <1>1, <2>4 DEF StartRead, Goes, ExchangeInv, InStep, Reading
    <2>5. CASE ContinueReadOrCallFinish(success)
      BY <1>1, <2>5 DEF ContinueReadOrCallFinish, Goes, ExchangeInv, InStep, Reading
    <2> QED
      BY <2>1, <2>2, <2>3, <2>4, <2>5
  <1>6. /\ responses' \in Seq(Parts)
        /\ Received' = Received
    <2>1. Got' = responses'
      BY <1>1 DEF Got
    <2>2. responses' = Got
      BY <1>1 DEF WriteRequest, CallWritesDone, CallFinish, StartRead,
         ContinueReadOrCallFinish, Got, Reading
    <2> QED
      BY <1>1, <2>1, <2>2, ReceivedIsSeq DEF ExchangeInv, Received
  <1>7. Answered'
    BY <1>1, <1>2, <1>6 DEF ExchangeInv, Answered
  <1>8. step' = "CallCallback" /\ responses' # <<>> =>
          ended # "no" /\ (ended = "OK" => down = <<>>)
    <2>1. CASE ContinueReadOrCallFinish(success)
      <3>1. step' = "CallCallback" => Reading /\ event = "failed"
        BY <1>1, <2>1 DEF ContinueReadOrCallFinish, Goes, Reading
      <3> QED
        BY <3>1 DEF ExchangeInv, AtEnd
    <2>2. CASE ~ContinueReadOrCallFinish(success)
      <3>1. responses' = responses /\ responses = <<>>
        BY <2>2 DEF WriteRequest, CallWritesDone, CallFinish, StartRead, ExchangeInv, InStep
      <3> QED
        BY <3>1
    <2> QED
      BY <2>1, <2>2
  <1>9. AtEnd'
    BY <1>1, <1>2, <1>3, <1>8 DEF ExchangeInv, AtEnd, Sent, Reading
  <1> QED
    BY <1>4, <1>5, <1>7, <1>9 DEF ExchangeInv

(* So does what the call object makes of an event. *)
LEMMA OnCompletionQueueEventExchange ==
  ASSUME StreamInv, ExchangeInv, OnCompletionQueueEvent
  PROVE  ExchangeInv'
  <1>1. CASE status = "Cancelled"
    <2>1. /\ op' = "none" /\ step' = "none" /\ event' = "none" /\ op = "none"
          /\ event # "none"
          /\ UNCHANGED <<call, requests, next, out, responses, delivered, status, result, last,
                         up, down, half, ended, heard, said>>
      BY <1>1 DEF OnCompletionQueueEvent, Goes, wireVars, robotVars, StreamInv, OneAtATime
    <2>2. /\ Made' = Made /\ Answer' = Answer /\ Parts' = Parts
          /\ ReadsResponses' = ReadsResponses
      BY <2>1, CallStays
    <2>3. result # "none"
      BY <2>1 DEF StreamInv, OneAtATime
    <2>4. Beginning' /\ InStep' /\ Answered' /\ AtEnd'
      BY <1>1, <2>1, <2>2, <2>3
         DEF ExchangeInv, Beginning, InStep, Answered, AtEnd, Sent, Reading
    <2> QED
      BY <2>4 DEF ExchangeInv
  <1>2. CASE status = "Called"
    <2> DEFINE success == event = "ok"
    <2>1. success \in BOOLEAN /\ (success <=> event = "ok")
      OBVIOUS
    <2>2. \/ WriteRequest(success)
          \/ CallWritesDone("CallFinish") \/ CallWritesDone("StartRead")
          \/ CallFinish
          \/ StartRead(success) \/ StartRead(TRUE)
          \/ ContinueReadOrCallFinish(success)
          \/ ~ReadsResponses /\ CallCallback(CheckResponse)
          \/ ReadsResponses /\ CallCallback(CheckThenJoin)
          \/ ReadsResponses /\ CallCallback(JoinThenCheck)
      <3>1. WritesRequests \/ ReadsResponses
        BY DEF WritesRequests, ReadsResponses
      <3> QED
        BY <1>2, <3>1, Zenon
           DEF OnCompletionQueueEvent, OnRequestStreamEvent, OnResponseStreamEvent,
               OnRequestResponseStreamEvent
    <2> HIDE DEF success
    <2>3. CASE \/ ~ReadsResponses /\ CallCallback(CheckResponse)
               \/ ReadsResponses /\ CallCallback(CheckThenJoin)
               \/ ReadsResponses /\ CallCallback(JoinThenCheck)
      BY <1>2, <2>3, CallCallbackExchange
    <2>4. CASE WriteRequest(success) \/ CallFinish \/ ContinueReadOrCallFinish(success)
      BY <1>2, <2>1, <2>4, StepExchange, Zenon
    <2>5. CASE CallWritesDone("CallFinish") \/ CallWritesDone("StartRead")
      BY <1>2, <2>1, <2>5, StepExchange, Zenon
    <2>6. CASE StartRead(success) \/ StartRead(TRUE)
      BY <1>2, <2>1, <2>6, StepExchange, Zenon
    <2> QED
      BY <2>2, <2>3, <2>4, <2>5, <2>6
  <1> QED
    BY <1>1, <1>2 DEF OnCompletionQueueEvent

-----------------------------------------------------------------------------
(* The robot, the deadline and the program *)

(* So does what the robot hears, and a call that ends early. *)
LEMMA RobotExchange ==
  ASSUME StreamInv, ExchangeInv, RobotHears \/ RobotEndsCall \/ RobotFails \/ DeadlineExpires
  PROVE  ExchangeInv'
  <1>1. /\ ended = "no"
        /\ UNCHANGED <<call, requests, step, status, result, next, out, responses, delivered,
                       last, op, event, down, half, said>>
        /\ \/ up # <<>> /\ ended' = ended /\ heard' = Append(heard, Head(up)) /\ up' = Tail(up)
           \/ /\ up' = up /\ heard' = heard
              /\ ended' # "no"
              /\ ended' = "OK" => half /\ up = <<>> /\ said = Len(Answer)
    BY DEF RobotHears, RobotEndsCall, RobotFails, DeadlineExpires, ReadEverything, callVars,
           startVars, eventVars, robotVars
  <1>2. /\ Made' = Made /\ Answer' = Answer /\ Parts' = Parts
        /\ ReadsResponses' = ReadsResponses
    BY <1>1, CallStays
  <1>3. result # "none"
    BY <1>1 DEF RobotHears, RobotEndsCall, RobotFails, DeadlineExpires, ReadEverything,
                ExchangeInv, Beginning, StreamInv, OneAtATime
  <1>4. Beginning' /\ InStep'
    BY <1>1, <1>2, <1>3 DEF ExchangeInv, Beginning, InStep, Reading
  <1>5. Received' = Received
    BY <1>1 DEF Received, Got, Reading
  <1>6. Answered'
    BY <1>1, <1>2, <1>5 DEF ExchangeInv, Answered, Reading
  <1>7. ended' = "OK" => Len(Sent') = Len(requests')
    <2> SUFFICES ASSUME ended' = "OK" PROVE Len(Sent') = Len(requests')
      OBVIOUS
    <2>1. half /\ Sent' = Sent /\ requests' = requests
      BY <1>1 DEF Sent
    <2>2. next = Len(requests) /\ op # "write"
      BY <2>1 DEF ExchangeInv, InStep
    <2> QED
      BY <1>1, <2>1, <2>2 DEF StreamInv, Counted
  <1>8. AtEnd'
    BY <1>1, <1>2, <1>7 DEF ExchangeInv, AtEnd, Reading
  <1> QED
    BY <1>4, <1>6, <1>8 DEF ExchangeInv

(* So does what the robot answers. *)
LEMMA RobotAnswersExchange ==
  ASSUME StreamInv, ExchangeInv, RobotAnswers
  PROVE  ExchangeInv'
  <1>1. /\ ended = "no" /\ said < Len(Answer)
        /\ down' = Append(down, Answer[said + 1]) /\ said' = said + 1
        /\ UNCHANGED <<call, requests, step, status, result, next, out, responses, delivered,
                       last, op, event, up, half, ended, heard>>
    BY DEF RobotAnswers, OwesAnswer, callVars, startVars, eventVars
  <1>2. /\ Made' = Made /\ Answer' = Answer /\ Parts' = Parts
        /\ ReadsResponses' = ReadsResponses
    BY <1>1, CallStays
  <1>3. Answer \in Seq(Parts) /\ Len(Answer) \in Nat /\ said \in Nat
    BY AnswerIsSeq DEF ExchangeInv, Beginning, Answered
  <1>4. Answer[said + 1] \in Parts
    BY <1>1, <1>3, ElementOfSeq
  <1>5. result # "none"
    <2>1. half \/ Len(heard) > 0
      BY <1>3 DEF RobotAnswers, OwesAnswer, ReadEverything, ExchangeInv, Answered
    <2> QED
      BY <2>1, EmptySeq DEF ExchangeInv, Beginning, StreamInv, OneAtATime
  <1>6. Beginning' /\ InStep'
    BY <1>1, <1>2, <1>5 DEF ExchangeInv, Beginning, InStep, Reading
  <1>7. Got \in Seq(Parts) /\ Got' = Got /\ down \in Seq(Parts)
    BY <1>1, ReceivedIsSeq DEF ExchangeInv, Answered, Got, Reading
  <1>8. /\ down' \in Seq(Parts)
        /\ Len(Received') = Len(Received) + 1
        /\ \A i \in 1 .. Len(Received') :
             Received'[i] = IF i <= Len(Received) THEN Received[i] ELSE Answer[said + 1]
    BY <1>1, <1>4, <1>7, SendOne DEF Received
  <1>9. Answered'
    BY <1>1, <1>2, <1>3, <1>8 DEF ExchangeInv, Answered, Reading
  <1>10. AtEnd'
    BY <1>1, <1>2 DEF ExchangeInv, AtEnd, Sent, Reading
  <1> QED
    BY <1>6, <1>9, <1>10 DEF ExchangeInv

(* So does cancelling, and a step of nothing. *)
LEMMA CancelExchange ==
  ASSUME StreamInv, ExchangeInv, Cancel \/ UNCHANGED vars
  PROVE  ExchangeInv'
  <1>1. /\ UNCHANGED <<call, requests, step, next, out, responses, delivered, last, op, event,
                       up, down, half, ended, heard, said>>
        /\ \/ UNCHANGED <<status, result>>
           \/ status = "Called" /\ status' = "Cancelled" /\ result' = "cancelled"
    BY DEF Cancel, vars, callVars, startVars, eventVars, wireVars, robotVars
  <1>2. /\ Made' = Made /\ Answer' = Answer /\ Parts' = Parts
        /\ ReadsResponses' = ReadsResponses
    BY <1>1, CallStays
  <1>3. Received' = Received /\ Sent' = Sent
    BY <1>1 DEF Received, Got, Reading, Sent
  <1>4. Beginning' /\ InStep' /\ Answered' /\ AtEnd'
    BY <1>1, <1>2, <1>3
       DEF ExchangeInv, Beginning, InStep, Answered, AtEnd, Reading
  <1> QED
    BY <1>4 DEF ExchangeInv

(* The invariant of the exchange holds of every behaviour. *)
LEMMA ExchangeInvariant == Spec => []ExchangeInv
  <1>1. StreamInv /\ ExchangeInv /\ [Next]_vars => ExchangeInv'
    BY InitiateExchange, StartEndsExchange, ReadEndsExchange, OnCompletionQueueEventExchange,
       RobotExchange, RobotAnswersExchange, CancelExchange
       DEF Next, Robot, Rest, OperationEnds
  <1> QED
    BY <1>1, InitExchange, StreamInvariant, PTL DEF Spec

-----------------------------------------------------------------------------
(* A future says OK only after the whole exchange, for messages, chunks    *)
(* and wires of any size, whatever operations failed, however the call     *)
(* interleaved with the robot, its deadline and a cancellation: the robot  *)
(* can put the request together and has accepted it, and the program has   *)
(* the whole answer (message_pump.h:205, service_client.h:243,             *)
(* data_chunking.cpp:56).                                                  *)
THEOREM StreamOkMeansComplete == Spec => []OkMeansComplete
  <1>1. StreamInv /\ ExchangeInv => OkMeansComplete
    <2> SUFFICES ASSUME StreamInv, ExchangeInv, result = "OK"
                 PROVE  /\ call.accepted
                        /\ WritesRequests =>
                             /\ StringFromDataChunks(heard) = [good |-> TRUE, message |-> Content]
                             /\ call.kind \in {"requests", "wrapped"} =>
                                  \A i \in 1 .. Len(heard) : heard[i].header
                        /\ ReadsResponses => delivered = Bytes(call.answer)
      BY DEF OkMeansComplete, Content
    <2>1. /\ ended = "OK" /\ status = "Completed" /\ call.accepted
          /\ ReadsResponses => delivered = Bytes(call.answer)
      BY DEF ExchangeInv, AtEnd
    <2>2. up = <<>> /\ Len(Sent) = Len(requests) /\ requests = Made
      BY <2>1 DEF ExchangeInv, AtEnd, Beginning
    <2>3. heard = requests
      <3>1. heard \in Seq(Messages) /\ requests \in Seq(Messages) /\ Sent = heard
        BY <2>2, ConcatEmptySeq DEF StreamInv, Sequences, Sent
      <3> QED
        BY <2>2, <3>1, SeqEqual, LenProperties DEF StreamInv, InOrder
    <2>4. ASSUME WritesRequests
          PROVE  StringFromDataChunks(heard) = [good |-> TRUE, message |-> Content]
      <3>1. Content \in Seq(Nat)
        BY BytesAreSeq DEF ExchangeInv, Beginning, Content
      <3>2. PICK header : Made = Streamed(StringToDataChunks(Content), header)
        BY <2>4 DEF Made
      <3> QED
        BY <2>2, <2>3, <3>1, <3>2, SplitParts, PartsJoin
    <2>5. ASSUME WritesRequests, call.kind \in {"requests", "wrapped"}
          PROVE  \A i \in 1 .. Len(heard) : heard[i].header
      <3>1. Content \in Seq(Nat)
        BY BytesAreSeq DEF ExchangeInv, Beginning, Content
      <3>2. heard = Streamed(StringToDataChunks(Content), TRUE)
        BY <2>2, <2>3, <2>5 DEF Made
      <3>3. PICK n \in Nat \ {0} : DOMAIN StringToDataChunks(Content) = 1 .. n
        BY <3>1, LenProperties, ChunksNotEmpty
      <3>4. /\ DOMAIN heard = 1 .. n
            /\ \A i \in 1 .. n : heard[i].header
        BY <3>2, <3>3 DEF Streamed
      <3>5. Len(heard) = n
        BY <3>3, <3>4, LenProperties DEF StreamInv, Sequences
      <3> QED
        BY <3>4, <3>5
    <2> QED
      BY <2>1, <2>4, <2>5
  <1> QED
    BY <1>1, StreamInvariant, ExchangeInvariant, PTL

-----------------------------------------------------------------------------
Typed ==
  /\ call \in [kind : Kinds, message : Lengths, answer : Lengths,
               accepted : BOOLEAN, eager : BOOLEAN]
  /\ step \in Step /\ status \in CallStatus
  /\ op \in Operations \cup {"none"}
  /\ result \in Settled \cup {"none", "waiting"}
  /\ Len(up) <= Window /\ Len(down) <= Window
  /\ half \in BOOLEAN /\ ended \in Ended

(* No more messages are on a wire than fit. *)
LEMMA WindowKept ==
  ASSUME StreamInv, ExchangeInv, [Next]_vars, Len(up) <= Window, Len(down) <= Window
  PROVE  Len(up') <= Window /\ Len(down') <= Window
  <1>1. /\ up \in Seq(Messages) /\ down \in Seq(Parts) /\ Window \in Nat
        /\ Len(up) \in Nat /\ Len(down) \in Nat
    BY WindowAssumption, LenProperties DEF StreamInv, Sequences, ExchangeInv, Answered
  <1>2. \/ up' = up
        \/ Len(up) < Window /\ op = "write" /\ ended = "no" /\ up' = Append(up, out)
        \/ up # <<>> /\ up' = Tail(up)
    BY DEF Next, Initiate, InitiateRequestStreamAsyncCall,
           InitiateRequestStreamAsyncCallWithChunking,
           InitiateRequestStreamAsyncCallWithWrappedChunking,
           InitiateResponseStreamAsyncCall,
           InitiateRequestResponseStreamAsyncCallWithChunking, Refused, Started,
           OperationEnds, StartEnds, WriteEnds, WritesDoneEnds, ReadEnds, FinishEnds,
           OnCompletionQueueEvent, Cancel, Robot, RobotHears, RobotAnswers, RobotEndsCall,
           RobotFails, DeadlineExpires, Rest, vars, wireVars
  <1>3. \/ down' = down
        \/ Len(down) < Window /\ said < Len(Answer) /\ down' = Append(down, Answer[said + 1])
        \/ down # <<>> /\ down' = Tail(down)
    BY DEF Next, Initiate, InitiateRequestStreamAsyncCall,
           InitiateRequestStreamAsyncCallWithChunking,
           InitiateRequestStreamAsyncCallWithWrappedChunking,
           InitiateResponseStreamAsyncCall,
           InitiateRequestResponseStreamAsyncCallWithChunking, Refused, Started,
           OperationEnds, StartEnds, WriteEnds, WritesDoneEnds, ReadEnds, FinishEnds,
           OnCompletionQueueEvent, Cancel, Robot, RobotHears, RobotAnswers, OwesAnswer,
           RobotEndsCall, RobotFails, DeadlineExpires, Rest, vars, wireVars
  <1>4. Len(up') <= Window
    <2>1. op = "write" => out \in Messages
      <3>1. op = "write" => next \in 1 .. Len(requests) /\ out = requests[next]
        BY DEF StreamInv, InOrder, Counted
      <3> QED
        BY <3>1, ElementOfSeq DEF StreamInv, Sequences
    <2> HIDE DEF Messages
    <2> QED
      BY <1>1, <1>2, <2>1, AppendProperties, HeadTailProperties
  <1>5. Len(down') <= Window
    <2>1. said < Len(Answer) => Answer[said + 1] \in Parts
      BY AnswerIsSeq, ElementOfSeq DEF ExchangeInv, Beginning, Answered
    <2> QED
      BY <1>1, <1>3, <2>1, AppendProperties, HeadTailProperties
  <1> QED
    BY <1>4, <1>5

(* Every step keeps the types, given the invariants. *)
LEMMA TypedStep ==
  ASSUME StreamInv, ExchangeInv, Typed, [Next]_vars
  PROVE  Typed'
  <1>1. Len(up') <= Window /\ Len(down') <= Window
    BY WindowKept DEF Typed
  <1>2. CASE Initiate
    <2>1. /\ UNCHANGED <<call, ended>>
          /\ \/ result' = "refused" /\ UNCHANGED <<step, status, op, half>>
             \/ /\ result' = "waiting" /\ status' = "Called" /\ op' = "start"
                /\ step' \in Step /\ half' \in BOOLEAN
      BY <1>2
         DEF Initiate, InitiateRequestStreamAsyncCall,
             InitiateRequestStreamAsyncCallWithChunking,
             InitiateRequestStreamAsyncCallWithWrappedChunking,
             InitiateResponseStreamAsyncCall,
             InitiateRequestResponseStreamAsyncCallWithChunking, Refused, Started, wireVars, Step
    <2> QED
      BY <1>1, <2>1 DEF Typed, CallStatus, Settled, Operations
  <1>3. CASE OperationEnds
    BY <1>1, <1>3
       DEF Typed, OperationEnds, StartEnds, WriteEnds, WritesDoneEnds, ReadEnds, FinishEnds,
           Raise, startVars, wireVars
  <1>4. CASE OnCompletionQueueEvent
    <2>1. /\ UNCHANGED <<call, half, ended>>
          /\ step' \in Step /\ status' \in CallStatus
          /\ op' \in Operations \cup {"none"}
          /\ result' \in Settled \cup {"none", "waiting"}
      BY <1>4
         DEF Typed, OnCompletionQueueEvent, OnRequestStreamEvent, OnResponseStreamEvent,
             OnRequestResponseStreamEvent, WriteRequest, CallWritesDone, CallFinish,
             StartRead, ContinueReadOrCallFinish, CallCallback, CheckResponse,
             CheckThenJoin, JoinThenCheck, Sets, Goes, wireVars, Step, CallStatus,
             Operations, Settled
    <2> QED
      BY <1>1, <2>1 DEF Typed
  <1>5. CASE Cancel \/ Robot \/ DeadlineExpires \/ UNCHANGED vars
    BY <1>1, <1>5
       DEF Typed, Cancel, Robot, RobotHears, RobotAnswers, RobotEndsCall, RobotFails,
           DeadlineExpires, vars, callVars, startVars, wireVars, CallStatus, Settled, Ended
  <1> QED
    BY <1>2, <1>3, <1>4, <1>5 DEF Next, Rest

(* Every variable keeps its type: requests are counted within their number, *)
(* and the wire holds at most Window messages in either direction           *)
(* (message_pump.h:205).                                                    *)
THEOREM StreamTypes == Spec => []TypeOK
  <1>1. Init => Typed
    <2>1. Len(<<>>) = 0 /\ Window \in Nat
      BY EmptySeq, WindowAssumption
    <2>2. Init => Len(up) <= Window /\ Len(down) <= Window
      BY <2>1 DEF Init
    <2> QED
      BY <2>2 DEF Init, Typed, Step, CallStatus, Settled, Ended
  <1>2. StreamInv /\ ExchangeInv /\ Typed /\ [Next]_vars => Typed'
    BY TypedStep
  <1>3. StreamInv /\ ExchangeInv /\ Typed => TypeOK
    <2> SUFFICES ASSUME StreamInv, ExchangeInv, Typed PROVE TypeOK
      OBVIOUS
    <2>1. /\ Len(requests) \in Nat /\ next \in Nat /\ next <= Len(requests)
          /\ Len(Answer) \in Nat /\ said \in Nat /\ said <= Len(Answer)
      BY AnswerIsSeq, LenProperties
         DEF StreamInv, Sequences, InOrder, ExchangeInv, Beginning, Answered
    <2> QED
      BY <2>1 DEF ExchangeInv, InStep, Typed, TypeOK
  <1> QED
    BY <1>1, <1>2, <1>3, StreamInvariant, ExchangeInvariant, PTL DEF Spec

-----------------------------------------------------------------------------
(* What becomes of the future *)

(* The promise is with the call object exactly while its status is Called. *)
Promised == (status = "Called") <=> (result = "waiting")

(* Every step keeps the promise where it is, or sets it as it may be set.  *)
LEMMA StreamAsync ==
  ASSUME Promised, [Next]_vars
  PROVE  Promised' /\ [Async!Next]_<<[c \in {"call"} |-> Life], FALSE, {}>>
  <1> DEFINE life == [c \in {"call"} |-> Life]
             after == [c \in {"call"} |-> Life']
  <1>0. ASSUME UNCHANGED <<result, status>> PROVE Promised' /\ after = life
    BY <1>0 DEF Promised, Life
  <1>1. CASE Initiate
    <2>1. /\ result = "none" /\ status # "Called"
          /\ \/ result' = "refused" /\ status' = status
             \/ result' = "waiting" /\ status' = "Called"
      BY <1>1
         DEF Promised, Initiate, Initiating, InitiateRequestStreamAsyncCall,
             InitiateRequestStreamAsyncCallWithChunking,
             InitiateRequestStreamAsyncCallWithWrappedChunking,
             InitiateResponseStreamAsyncCall,
             InitiateRequestResponseStreamAsyncCallWithChunking, Refused, Started
    <2>2. /\ life["call"] = "none"
          /\ \/ after = [life EXCEPT !["call"] = "refused"]
             \/ after = [life EXCEPT !["call"] = "underway"]
      BY <2>1 DEF Life
    <2> QED
      BY <2>1, <2>2 DEF Promised, Async!Next, Async!Refuse, Async!Begin, Async!Becomes
  <1>2. CASE OnCompletionQueueEvent
    <2>1. \/ UNCHANGED <<result, status>>
          \/ status = "Called" /\ status' = "Completed" /\ result' \in {"OK", "error"}
      BY <1>2
         DEF OnCompletionQueueEvent, OnRequestStreamEvent, OnResponseStreamEvent,
             OnRequestResponseStreamEvent, WriteRequest, CallWritesDone, CallFinish,
             StartRead, ContinueReadOrCallFinish, CallCallback, CheckResponse,
             CheckThenJoin, JoinThenCheck, Sets
    <2>2. CASE status = "Called" /\ status' = "Completed" /\ result' \in {"OK", "error"}
      <3>1. life["call"] = "underway" /\ after = [life EXCEPT !["call"] = "answered"]
        BY <2>2 DEF Promised, Life
      <3> QED
        BY <2>2, <3>1 DEF Promised, Async!Next, Async!Answer, Async!Becomes
    <2> QED
      BY <2>1, <2>2, <1>0
  <1>3. CASE Cancel
    <2>1. status = "Called" /\ status' = "Cancelled" /\ result' = "cancelled"
      BY <1>3 DEF Cancel
    <2>2. life["call"] = "underway" /\ after = [life EXCEPT !["call"] = "cancelled"]
      BY <2>1 DEF Promised, Life
    <2> QED
      BY <2>1, <2>2 DEF Promised, Async!Next, Async!Cancel, Async!Becomes
  <1>4. CASE OperationEnds \/ Robot \/ DeadlineExpires \/ UNCHANGED vars
    <2>1. UNCHANGED <<result, status>>
      BY <1>4
         DEF OperationEnds, StartEnds, WriteEnds, WritesDoneEnds, ReadEnds, FinishEnds,
             Raise, Robot, RobotHears, RobotAnswers, RobotEndsCall, RobotFails,
             DeadlineExpires, vars, callVars, startVars
    <2> QED
      BY <2>1, <1>0
  <1> QED
    BY <1>1, <1>2, <1>3, <1>4 DEF Next, Rest

(* A call of every kind, for all messages, windows and robots, settles its *)
(* future at most once: by the callback, by the cancellation, or by a      *)
(* refusal before it was begun (message_pump.h:65, message_pump.h:244).    *)
THEOREM StreamImplementsAsync == Spec => ImplementsAsync
  <1>1. Init => Promised /\ Async!Init
    BY DEF Init, Promised, Async!Init, Life
  <1>2. Promised /\ [Next]_vars => Promised' /\ [Async!Next]_<<[c \in {"call"} |-> Life], FALSE, {}>>
    BY StreamAsync
  <1> QED
    BY <1>1, <1>2, PTL DEF Spec, ImplementsAsync, Async!Spec
=============================================================================
