# Verification of the Spot C++ SDK

TLA+ models of the parts of this SDK that keep state, run concurrently or talk to a robot that
can fail, the configurations with which TLC checks them, and theorems about them that TLAPS
checks. Paths below are relative to the repository; `client/` stands for `cpp/bosdyn/client/`.

Run a model with `tlc -config <run>.cfg <module>` and check a proof module with `tlapm <module>.tla`.
`PROJECT.json` lists the runs, the mutants that show each property can fail, the source lines of
every definition, the hazards and the theorems.

## 1. Inventory

The SDK is a client library. A program makes a `ClientSdk`, from it a `Robot`, and from that one
client per robot service. Every call goes through `ServiceClient` to the message pump, the one
thread that runs completion callbacks. What the robot does is outside the repository; the models
contain as much of it as the comments in `protos/` promise and the code relies on.

| Component | State | Operations | Hard behaviour | What makes it correct | Modelled in |
|---|---|---|---|---|---|
| Message pump and service client (`client/service_client`) | call objects, their status and promise; the set of outstanding calls; a gRPC completion queue; the shutdown flag | `InitiateAsyncCall`, `CompleteOne`, `AutoUpdate`, `RequestShutdown`, `Cancel` | program threads, pump thread and shutting-down thread under three mutexes; a call is created, tracked and started in three unlocked steps | no callback after shutdown, a callback's call is alive, every future settles, a shutdown ends, only known races terminate the program | `AsyncCalls`, `MessagePump` |
| Streaming calls, data chunks (`message_pump.h`, `client/data_chunk`) | requests still to write, responses read, the next step | write, read, writes done, finish; split and join | one event at a time, failing events, cancellation, a robot that answers as it reads | requests arrive once and in order, success carries the whole answer, the two ends do not wait for each other | `StreamCalls`, `DataChunks` |
| Service clients (graph_nav, mission, data_*, image, power, ... 30 directories) | none besides the wallet | one asynchronous method and one completion per RPC | several leases, requests overtaking each other, answers that fail at any of three checks | success only if the robot did it, every lease result reaches the wallet | `ClientStubs`, `ClientCalls` |
| Lease objects (`client/lease/lease.*`) | a vector clock, an epoch, an ownership status | `Compare`, `Increment`, `CreateSublease`, `UpdateFromLeaseUseResult`, `SplitLease` | clocks of different lengths, wrap-around, late results | precedence is an order, the holder outranks its delegates, an old result does not disown a new lease | `LeaseOrder`, `LeaseLineage` |
| Lease wallet (`client/lease/lease_wallet.*`) | a table of leases under a mutex | add, remove, fail, advance, use result, queries | two operations release the mutex half-way | an update is lost only to an overlap, no invalid entry, leases handed out are ever newer | `LeaseWallet`, `AtomicLeaseWallet` |
| Lease client and processors (`client/lease`) | none besides the wallet | acquire, take, return, retain; attach leases to requests, take results from responses | answers lost, late or out of order; robot restarts; other clients | the wallet agrees with the robot as far as the answers allow | `LeaseSystem`, `ClientCalls` |
| Lease keep-alive (`client/lease/lease_keepalive.*`) | alive flag, thread, interval | thread loop, stop, destructor | timing, lost signals, failing calls, a callback into the program | checks in on time, alarms only on loss and on every loss, ends when stopped | `LeaseKeepAlive` |
| Auto return (`client/auto_return`) | none besides the wallet | `Init`: lend the successor of a lease, keep a sublease | the wallet is changed after the call, while others could be under way | what is lent outranks what the program uses | `ClientCalls` |
| E-Stop endpoint and keep-alive (`client/estop`) | challenge, first-check-in flag, desired stop level, status | check in, set stop level, stop, register, take over | mutex held over a call, lost signals, lost answers | the robot hears in time, a stop level arrives, disabled stays disabled | `EstopKeepAlive` |
| Time synchronisation (`client/time_sync`, `common/robot_time_converter`) | best estimate, clock, previous round trip, thread | update, start, stop, wait, convert | start, stop and updates from several threads, late and lost answers, a robot that is not ready | an estimate once given is lost only to a late answer, synchronisation comes about, only a crossing of two controls terminates the program | `TimeSync` |
| Token manager, directory and payload registration, periodic threads (`client/robot`, `client/*_registration`, `client/util`) | a thread, flags, retry intervals | start, stop, refresh, register, update, set and clear a fault | a robot that forgets, lost answers, restarts, shutdown at any point | the robot is told again in time or the program's callback is, faults are cleared, a shutdown returns | `PeriodicThreads` |
| Power, robot command, docking, service wait (`*_helpers.cpp`) | command ids, deadlines | set up a client, send a command, poll feedback until a deadline | directory calls before the deadline begins, slow and failing feedback calls, one of two steps fails, an early end | success only if the robot said so, return by the deadline, motors before computer | `CommandHelpers` |
| Frame trees and poses (`cpp/bosdyn/math`) | a map of edges | add, validate, walk, transform, change the parent | any order of construction, cycles, two roots | validation is exact, transforms compose, a new root moves nothing | `FrameTree`, `Poses` |
| Robot (`client/robot`), Client SDK (`client/sdk`) | channels, service clients, token, time sync | `EnsureServiceClient`, authenticate, start time sync | a map searched outside its lock | one client per service | authentication and time sync only |
| Processors (`client/processors`), error codes, status | chains of processors | process in order, stop at the first error | order | lease results are seen only for accepted responses | their effect, in `ClientCalls` and `StreamCalls` |
| `protos/`, examples, docs, command builder, common helpers | none | | | | not modelled |

Components interact in four ways. Program threads call clients, which start calls on the pump.
The pump's thread calls back into clients, which change the wallet and set promises. Background
threads (keep-alives, time sync, token and registration threads) use clients like the program does
and are stopped by a flag and a condition variable. Everything shares the wallet.

## 2. Modules

| Module | Models | Composed of |
|---|---|---|
| `LeaseOrder` | lease values: comparison, derivation, the effect of a use result | |
| `LeaseLineage` | a holder that lends leases to delegates and advances its own | `LeaseOrder` |
| `AtomicLeaseWallet` | the promise of the wallet: each operation one step | `LeaseOrder` |
| `LeaseWallet` | the wallet as written: two operations that lock twice, several threads | instance of `AtomicLeaseWallet` |
| `LeaseSystem` | wallet, lease calls, network, robot, other clients | extends `LeaseWallet` |
| `LeaseKeepAlive` | the keep-alive thread with time, the program and the robot | instance of `AtomicLeaseWallet` |
| `AsyncCalls` | the promise of the future of a call: what may become of it, in steps | |
| `MessagePump` | initiating, completing, cancelling calls and shutting the pump down | instance of `AsyncCalls` |
| `DataChunks` | splitting a message into chunks and joining them | |
| `StreamCalls` | one streaming call, event by event, with the transport and the robot | extends `DataChunks`; instance of `AsyncCalls` |
| `ClientStubs` | a table: what distinguishes the calls of the service clients | |
| `ClientCalls` | calls with their leases, answers and completions; auto return | extends `LeaseOrder`, `ClientStubs`; instance of `AtomicLeaseWallet` |
| `EstopKeepAlive` | check-ins, challenges, the keep-alive thread, stop levels, time | |
| `TimeSync` | the endpoint, its thread, controllers, waiters, the robot's estimator | |
| `PeriodicThreads` | token manager, directory and payload keep-alives | |
| `CommandHelpers` | nine blocking helpers, one call at a time, with time and the robot | |
| `Poses`, `FrameTree` | arithmetic of poses; a snapshot under construction | `FrameTree` extends `Poses` |
| `LeaseOrderProofs`, `LeaseSystemProofs`, `LeaseKeepAliveProofs`, `ClientCallsProofs`, `MessagePumpProofs`, `StreamCallsProofs`, `EstopKeepAliveProofs`, `HelpersProofs` | the lemmas and theorems of section 5 | each extends the module it is about; `LeaseSystemProofs` also `LeaseLineage`; `HelpersProofs` is about `CommandHelpers`, `TimeSync`, `PeriodicThreads` and `FrameTree`; those about leases extend `LeaseOrderProofs` |
| `MC*` | inputs and symmetries for TLC | extend what they instantiate |

### Leases

A lease is a record of its message (`resource`, `epoch`, `sequence`) and its ownership `status`.
`SeqMod` stands for 2^32 and `Increment` wraps at it, as the code does. `Compare`, `IsValid`,
`Increment`, `CreateSublease` and `UpdateFromLeaseUseResult` are the methods of those names. The
loop of `CompareIgnoringResource` becomes two operators, `Agree` and `Before`. Client names are
left out: no decision reads them. `Increment` and `CreateSublease` of an invalid lease, which
return the empty lease, are not modelled: the wallet has no invalid entry (`EntriesValid`, part of
`WalletInv` in `LeaseSystemProofs`), as long as a program adds valid ones.

`wallet` is `m_lease_map`; a resource without an entry maps to `NoLease`. `AdvanceLease` is
`AdvanceRead` (the copy made by `GetOwnedLease` and its increment) and `Write`; `OnLeaseUseResult`
is `UpdateRead` and `Write`. In between `op[t]` holds the entry that thread `t` has copied and what
it is about to store. The copy belongs to the thread, so computing the new lease with the read loses
no behaviour. `Overtaken(t)` says that the entry is no longer what `t` has copied.

`LeaseSystem` adds `calls`, one record per outstanding RPC: what it carries, whether the client
still waits, whether the robot has answered. The robot serves calls in any order, completions run
in any order on the pump's thread, `Expire` ends a call with an error at any moment, and a request
whose call has expired may still be served or lost (`Lose`). A resource may be acquired anew while
requests with the lease before are outstanding. The robot keeps an epoch, the latest
sequence and the owner of each resource; it restarts, revokes, and grants to others.
`granted` and `issued` are history variables.

`LeaseKeepAlive` takes its wallet to be atomic, and the program takes a lease at any time
(`TakeLease`), also while a check-in with the old one is on its way; `crossed` remembers that such
a check-in has reached the robot after the grant.

### Calls

Each call of `MessagePump` has a program thread that goes through `CreateUnaryCall`, the request
processors, `AddCall` and `Start`. `pump` is the thread in `CompleteOne`: polling, holding an event,
inside the callback under `m_shutdown_mutex`, or removing the call. `stopper` is the thread in
`RequestShutdown`. `auto` is the auto-update thread, which the shutdown joins, or `"none"` for a
program that polls. A call with more than one event stands for a streaming call. `caught` remembers
the calls that were half initiated when the shutdown was requested. `crash` records what has
terminated the program: the precondition of `Start`, a freed call that is started, an operation
started on a queue that is shut down, or `"event"`: gRPC's `AsyncNext` finalises an operation of a
call that has been destroyed, for a program that polls what another thread has shut down
(`message_pump.cpp:87`). The pump itself looks at a call only after the flag (line 38).

`AsyncCalls` is what all of this amounts to for whoever holds the future. `life` is none, promised,
underway and then one of refused, answered and cancelled. Once a `Shutdown` was requested only the
calls it `caught` between promise and beginning can begin, and only of those can `Abandon` break the
promise. `Life` in `MessagePump` and `StreamCalls` reads `life` off the state of the call.

`StreamCalls` opens such a call up. `step` is `m_next_step`, `op` the gRPC operation that is under
way (there is at most one), `event` its end in the completion queue with the success flag, and
`up`, `down` what is on the wire. `OnCompletionQueueEvent` is the method of that name of each of the
three call classes. The robot may answer only at the end or as it reads (`eager`), refuse, or end
the call early; the deadline may pass, and a failed operation may still report success. The two
shapes of completion are `CheckThenJoin` and `JoinThenCheck`: the second joins before it looks at
the status, so that a failed RPC can surface as a failure to join.

The service clients are written alike. `ClientStubs` records, method by method, in what they differ:
how the call travels, which leases it gets, which lease results its completion hands to the wallet,
and whether it looks at the response's own status. `ClientCalls` runs calls with any of these rows:
`ProcessRequest` attaches one lease after the other, so that calls interleave between leases and
between attaching and sending; a failure leaves the leases before it advanced; the robot serves in
any order, with a result per lease; the completion goes through the header (`Accepts`), the lease
results and the verdict (`SettleFuture`). To attach a lease and to take a result in are two steps
each, as in the wallet: `AttachRead` and `TakeRead` copy the entry (`held`), `Attach` and
`TakeResult` store what was made of it, whatever the entry has become. `torn` remembers the resources
of which such a store has overwritten a change since the lease was acquired. No lease leaves this
wallet. `MCChosen` holds a call of every shape that the table contains; that it does is an assumption
which TLC checks (`ChosenForAll`). `BeginInit`, `EndInit` are `AutoReturnClient::Init`;
`RobotReturns` is the robot using the lease it was lent.

### Threads

The keep-alives have a thread whose place in its loop is `at` and measure time in ticks. A tick is
only possible while the thread waits, or while a call or callback takes its time: computation takes
none. `wait_for` has no predicate in the code, so it may return at any time (`WakeUp`), and a
signal reaches the thread only while it waits. In `EstopKeepAlive` the challenge is seen from the
robot: none, the one it expects, or one it no longer expects.

`TimeSync` leaves times out. Of an exchange it keeps whether there was one (`timed`), of an estimate
whether it is one (`status`), of the robot how many samples it has for each clock. Everything the
header allows runs beside everything else: controllers start and stop the thread at any time,
establishers run `EstablishTimeSync` beside it, and each updater has a call, a request and a
response of its own, because the mutex is held to read the clock and to store the answer and not in
between. A call may fail before or after the robot has served it. `late` are the updates under way
that are older than what the endpoint holds; `overtaken` the waiters whose synchronisation a late
answer has replaced; `crossed` says that `Start` or `Stop` began while another `Stop` was between
its unlock and its join. Assigning to a joinable `std::thread` or joining twice leads to
`"terminated"`. The thread may also be replaced (`Robot::StartTimeSync`).

`PeriodicThreads` has one action per outcome of an attempt; `Follow` is what the error callback's
answer does to the intervals. The token manager has no `callback` until the program sets one
(`SetCallback`). A call to the fault service may act and lose its answer (`SetFault`).

`CommandHelpers` is one call of one helper. `job` says which; the loop of all of them is `Check`
(the clock), `Answer` and `AnswerArrives` (the feedback, after `0 .. RpcTime`), `Sleep`. Before it,
`Prepare` sets up the service client, which may ask the directory, for up to `LookupTime`, before
the deadline is set. `Verdict`
holds what each helper makes of an answer. `stage` is the second command of the two helpers that
have one: the computer's for `SafePowerOffRobot`, the prep pose for `BlockingDock`.

### Frames

`tree` is `child_to_parent_edge_map`; `AddEdgeToFrameTree`, `ReparentFrame` (in its two cases) and a
few edges written directly build every map over four names, trees or not; an edge set for an empty
child name that is not in the map ends the program (`SetPoseAborts`, `map.at`). Poses have integer
coordinates and the unit quaternions of integers, on which the arithmetic of doubles is exact; two
poses that do not commute are enough to tell a product from its inverse or its mirror image. The
status for a map that is wrong in several ways depends on the map's order and is therefore a set.

## 3. Runs

Eleven runs pass. `LeaseWallet` is expected to fail: it is the finding of `PROJECT.json`. `MC*` is
the module where there is one, the run's own name otherwise. The states are the distinct ones.

| Run | Instance | States | Shows |
|---|---|---|---|
| `LeaseWallet` | 2 threads, 2 resources, 2 epochs, `SeqMod` 3, overlapping | violated | the wallet does not implement `AtomicLeaseWallet`: a lease set between the two locks of `AdvanceLease` or `OnLeaseUseResult` (`lease_wallet.cpp:139`, 155) is overwritten by what was made of the one before, though `lease_wallet.h:34` says "Set the lease for a specific resource. Always guaranteed to succeed." |
| `LeaseLineage` | 1 holder, 3 delegates, sequences up to 4 | 53,823 | comparisons agree either way round; no delegate outranks the holder |
| `LeaseSystem` | 1 resource, 2 threads, 2 calls, 2 epochs, 2 grants per epoch, 2 uses per lease; leases acquired anew at any time | 2,056,482 | issued leases are ever newer when operations on the resource do not overlap; an answer disowns an honoured lease only if it predates it; no lease of another client is kept or sent |
| `LeaseKeepAlive` | interval 3, call 2, callback 1 ticks, 2 lost calls, a lease taken anew at any time | 164,259 | check-ins in time, no false alarm but by a crossing, every loss reported, stop ends the thread |
| `MessagePump` | a streaming and 2 unary calls, one shutdown at any time, auto-update or polling | 115,945 | crashes only in two races, no callback after shutdown, every future goes the way `AsyncCalls` allows and settles, shutdown ends |
| `StreamCalls` | each of five initiating functions, messages of 1 to 4 chunks (some with an empty last one), 1 message on the wire | 79,370 | requests in order, success means complete, the call ends without its deadline |
| `ClientCalls` | 2 calls of 13 shapes, 2 resources, 2 grants for the body and 1 for the arm, 2 uses of the body's lease and 1 of the arm's, streams of 2 requests | 2,647,160 | success means done, results reach the wallet and stay known but for torn stores, what auto return was lent outranks |
| `EstopKeepAlive` | interval 2, call 1 ticks, 1 lost call | 139,038 | bounded silence, stop level in time, check-ins without end, stop ends the thread |
| `TimeSync` | 2 controllers, 1 establisher beside the thread, 1 waiter, 3 clocks, 1 sample needed, 2 tried | 418,320 | only a crossing of two controls terminates, only a late answer makes a conversion go without an estimate, synchronisation is established |
| `PeriodicThreads` | the three threads, interval 5, first retry 1, with or without a callback | 2,676 | no loss goes unnoticed where there is a callback, faults are cleared, shutdown returns |
| `CommandHelpers` | nine helpers, timeout 4, poll 1, call 1 ticks, 3 attempts | 9,158 | success is true, deadlines hold, the computer goes last, helpers return |
| `FrameTree` | 4 names, 2 poses, 1 velocity | 17,862 | validation is exact, transforms compose, a new root keeps them |

### Counterexamples kept beside the runs

Twelve configurations, run by hand, show where the code does something else than its comments or
documents say. Each checks one property, which TLC finds violated.

| Configuration (module) | Property | What the code does | What the text says |
|---|---|---|---|
| `LeaseReacquire.cfg` (`MCLeaseSystem`) | `DisownsOnlyLostLeases` | an outdated `OLDER` result is ignored only while the latest lease it names is not newer than the wallet's (`lease.cpp:225`); after a lease is taken anew while a request with the old one is outstanding, its `REVOKED` or `OLDER` result marks the new lease | `docs/cpp_release_notes.md:223`: "ignore failed old leases in the case the wallet contains the new lease" |
| `LeaseCrossing.cfg` (`MCLeaseKeepAlive`) | `AlarmsOnlyOfLoss` | a check-in with the old lease that reaches the robot after a new one was granted brings a result that marks the new lease (`lease.cpp:205`), and the keep-alive alarms (`lease_keepalive.cpp:72`) | `docs/cpp_release_notes.md:223`, as above |
| `LeaseOverlapIssue.cfg` (`MCLeaseSystem`) | `IssuesNewerLeases` | two operations lock twice (`lease_wallet.cpp:139`), so that overlapping ones hand a lease out again | `lease.h:135`: "a sequence of monotonically increasing numbers" |
| `LeaseReturn.cfg` (`MCLeaseSystem`) | `RemovesOnlyLostLeases` | a return call that fails removes a lease the robot still honours (`lease_client.cpp:143`) | `lease_client.cpp:141`: "all statuses indicated it is no longer being managed by this client" |
| `MessagePumpRace.cfg` (`MCMessagePump`) | `NeverCrashes` | a shutdown between `AddCall` and `Start` (`service_client.h:168`) fails the assertion of `Start`, deletes the call or closes its queue; a program that polls while another thread shuts down gets events of destroyed calls (`message_pump.cpp:87`) | `message_pump.h:732`: "Creating and calling RPCs can be done from any thread however." |
| `EstopLostAnswer.cfg` (`EstopKeepAlive`) | `ResumesCheckIn` | after a served check-in whose answer is lost, every later one answers an outdated challenge (`estop_endpoint.cpp:178`) | `estop_keepalive.h:31`: "keeping software E-Stop from timing out" |
| `EstopLostWakeup.cfg` (`EstopKeepAlive`) | `SettingWakes` | a level set between the check-in and the wait waits for the next interval (`estop_keepalive.cpp:74`) | `estop_keepalive.cpp:72`: "Change the stop level and wake the background thread." |
| `TimeSyncCrossed.cfg` (`TimeSync`) | `NeverTerminates` | `Stop` joins the thread after it has released the mutex (`time_sync_helpers.cpp:171`): a `Stop` or `Start` meanwhile joins it twice or assigns to it while it is joinable (line 156) | `time_sync_helpers.h:70`: "Start the thread if it is not yet running." |
| `TimeSyncLateAnswer.cfg` (`TimeSync`) | `ConvertsWithEstimate` | an update stores its answer whatever has been stored since it asked (`time_sync_helpers.cpp:105`): a late one replaces the estimate between the wait and the look at it (lines 220, 227) | `time_sync_helpers.h:27`: "This object is thread-safe." |
| `ResultsOverwritten.cfg` (`MCClientCalls`) | `NothingForgotten` | a request that is being given a lease stores it as owned over the mark of a result (`lease_wallet.cpp:139`, 155) | `request_processor.h:22`: "Implementations MUST be thread-safe." |
| `CommandHelpersBlock.cfg` (`CommandHelpers`) | `BlocksNoLonger` | the service client is set up, with directory calls, before the timeout begins (`robot.cpp:162-225`, 314-329) | `robot.h:201`: "Max time this function will block for." |
| `FrameReparent.cfg` (`MCFrameTree`) | `ReparentKeepsTree` | `ReparentFrame` (`frame_helpers.cpp:286`) reads the old parent and pose through references into the edge it has overwritten: the new parent becomes its own parent | `frame_helpers.h:110`: "The new parent frame will become a child of the old parent frame." |

### Observed on the way

Not kept as properties, each seen while translating the code.

- Leases. `RetainLease` failures are reported only if the wallet does not own the lease
  (`lease_keepalive.cpp:72`, while `lease_keepalive.h:32` says whenever one does not succeed).
  `AdvanceLease` fails for leases that are present but not owned (`lease_processors.h:50` says only
  if missing). `Increment` at 2^32 - 1 makes an older lease. Requests of two threads may overtake
  each other between `AdvanceLease` and sending: the robot calls the late one `OLDER`.
- Pump. A call started between `CancelAll` and the closing of the queue ends with a broken promise.
- Streams. A call with streams both ways reads nothing until it has written everything
  (`message_pump.h:540`); with an eager robot whose answers do not fit on the wire, only the deadline
  ends it, which is why `EndsByItself` excludes that robot. An empty list of requests is indexed.
- Clients. `Ignoring` in `ClientCalls` names the calls whose response can say no to a completion that
  does not look; `Deaf` those whose lease results never reach the wallet. `LoadAutowalk` and
  `LoadMissionAsChunks2` report no lease results when the join fails. `AutoReturnClient::Init` puts
  an older lease back if other calls have advanced it meanwhile (`auto_return_client.cpp:160`).
- Time sync. Two updaters at once may overwrite a newer round trip with an older one, and the round
  trip is read without the lock (`time_sync_helpers.cpp:146`). `GetRoundTripTime` looks at a default
  response.
- Registration. After a success of `Register` the retry interval stays backed off; the callback of
  a failed update gets the status of the registration before it; a directory keep-alive started
  again after `Shutdown` registers once and ends, as the helper's exit flag is never reset.
- Token manager. A refresh under way while the program authenticates another user overwrites the
  new token (`robot.cpp:106`). A token that the robot no longer accepts goes unnoticed unless the
  program has set a callback; there is none by default (`robot.h:347`).
- Helpers. Without a timeout three of the waiting functions poll for ever for a command that was
  overridden; `BlockingDock` does if the robot never answers and there is no `early_end`. A lost
  answer to a docking command counts as an attempt, and the next is sent while the first may be
  carried out. `RetriesExceeded` is returned however the prep pose ended.
  `BlockUntilArmArrives` gives up on a feedback call that timed out, though line 88 says it keeps
  trying: an empty answer has no kind of feedback.
- Frames. An empty child name is meant to let `SetPoseOnExistingEdge` change every edge, but looks up
  the edge of the empty name, which ends the program (`frame_helpers.cpp:212`). `ReparentFrame` with
  a new parent that is in the tree already changes the edge and then returns false; at the root it
  returns true and may close a cycle.

### Assumptions on the program

Little is assumed of the program, and what is has a name or is listed here.

- `Overlap` (wallet and system): may operations on one resource overlap? A program that polls the
  pump on the thread that issues its requests has `FALSE`; with the background pump, the default,
  nothing prevents `TRUE`. `FALSE` also keeps acquisitions and returns of one resource from
  overlapping (`MaySettle`), but neither from overlapping with uses. The run of `LeaseSystem` has
  `FALSE`, which `IssuesNewerLeases` needs: with `TRUE` it fails (`LeaseOverlapIssue.cfg`).
  `AnswersDisownOnlyLost` and `NoForeignLease` are proved for both.
- `LeaseKeepAlive` uses the atomic wallet. It has one resource, one check-in at a time and a program
  that takes the lease anew and uses it; the overlaps of the wallet are in `LeaseWallet` and
  `ClientCalls`.
- In `ClientCalls` the program awaits its calls on a resource before it acquires it anew (`Quiet`);
  what happens otherwise is in `LeaseSystem`. `AutoReturnClient::Init` is called while no other
  call is under way.
- `Robot::StartTimeSync` replaces the endpoint only while nobody uses it (`TimeSync`).
- Settings are sensible: poll periods are positive, a first retry is no longer than the interval.

Otherwise the pump, streams, E-Stop, time sync, periodic threads and frames assume nothing of the
order in which the program calls them.

### Bounds and why they are enough

- Two threads and two calls give every pair of overlapping operations; the properties relate at
  most two operations and one lease. `MessagePump` has three calls so that one can be in the
  callback, one being cancelled and one half initiated.
- `SeqMod` 3 keeps `LeaseWallet` finite: its numbers wrap. `MaxRoot`, `MaxUse`, `MaxLength` bound the
  other models before theirs do. Two epochs are one restart.
- In `ClientCalls` a call without leases meets no other call (it shares nothing with one), and once
  auto return is set up calls go one at a time (`Apart`); `MaxChunks` and `Lists` give calls with
  two leases. Two grants for the body let it be lost and acquired again; a second use of the arm's
  lease shows nothing that the body's does not.
- `StreamCalls` is of one call: calls share nothing but the pump, which `MessagePump` models. The
  lengths give one chunk, several, and an empty last one; a window of one blocks a writer at once.
- `MaxLost` bounds failing calls. Interval and call times are chosen so that a call is shorter than
  the interval and, with the callback, as long (`LeaseKeepAlive`); a timeout of four periods lets
  `SafePowerOffRobot` spend part of it on the motors; three attempts are first, middle and last.
- Three clocks in `TimeSync` are one for each update that can be under way and one of the endpoint.
  One sample needed suffices for a robot that has an estimate and a robot that has not; with two
  (1,242,328 states) the properties hold too, but the run takes minutes.
- Four frames allow a chain of three edges, a fork, two roots and a cycle with a frame outside it.
- `CHECK_DEADLOCK FALSE` is used where things end: the keep-alives and periodic threads when they
  are stopped, the helpers when they return, the frame tree when every edge is there or a lookup
  has ended the program, `TimeSync` and `MessagePumpRace` where the program is terminated.

### Fairness

- A thread that has work continues (`KeepAliveThread`, `Thread`, `Helper`, `Complete`, `Shutdown`,
  `ThreadStep`, ...): these are operating-system threads that hold no lock for ever.
- A call is served and answered or fails: every call has a deadline (`service_client.h:158`).
  `StreamCalls` does without the deadline: there the robot serves a call to its end.
- Strong fairness is used for what a loop tries again and again: that some calls of an endless
  series are served and their answers come (`RobotAnswers`, `AnswerComes` of the thread in
  `TimeSync`; registering, updating, clearing, telling in `PeriodicThreads`). `CommandHelpers` has none: its robot may never move nor answer.
- Nothing makes the program start a call, stop a keep-alive or shut the pump down, and nothing
  makes other clients act. The mutexes are not assumed to be fair: `StopArrivesInTime` counts from
  when `SetStopLevel` has stored the level.

## 4. Properties by component

- Wallet: `ImplementsAtomic`, which the code violates, and `ChangesAreWhole`, the theorem that says
  how: only by a store over an entry that has changed since it was copied.
- Leases: `DelegatesNeverOutrank`, `ComparisonsAgree` (what the robot needs from `Compare`, stated
  over all the leases that exist at a time).
- System: `IssuesNewerLeases`, `AnswersDisownOnlyLost` (late, lost and reordered answers to requests
  with leases the client has since given up), `NoForeignLease`. `LeaseReacquire.cfg` and
  `LeaseReturn.cfg` show what does not hold.
- Lease keep-alive: `ChecksInOnTime`, `NoFalseAlarm` (a crossing of a check-in and a new grant excepted,
  see `LeaseCrossing.cfg`), `LossIsReported`, `StopEndsThread`.
- Pump: `CallbacksStopAtShutdown`, `AliveUntilCallback`, `CrashNeedsRace` (which two races),
  `EveryFutureSettles`, `ShutdownEnds`, `ImplementsAsync`.
- Streams: `WrittenInOrder`, `OkMeansComplete`, `EndsByItself`.
- Client calls: `OkMeansDone`, `ResultsTakenIn`, `ReturnOutranks`. Each relates what the future says
  to what the robot did, or the wallet to what it said, over the interleavings of two calls inside
  the operations of the wallet; `ResultsTakenIn` excepts resources with a torn store.
- E-Stop: `SilenceIsBounded`, `StopArrivesInTime`, `ChecksInForever`, `StopEnds`.
- Time sync: `TerminationNeedsCrossing`, `ConversionNeedsLateAnswer`, `Establishes`: what goes wrong
  goes wrong in one way only, and there is progress whatever the threads do.
- Periodic threads: `NeverLostUnnoticed`, `FaultIsCleared`, `ShutdownReturns`.
- Helpers: `SuccessIsTrue`, `Punctual`, `ComputerGoesLast`, `Returns`.
- Frames: `ValidationIsExact`, `TransformsCompose`, `RerootKeepsTransforms`.

The type invariants of most modules, `EntriesValid`, `ChangesAreWhole` and `ServedChangesAreWhole`,
`AdvancingRecalls`, `StaysDisabled`, `SplitThenJoin`, `PrecedenceIsTransitive`, `TriesInTime` and the
refinement of `AsyncCalls` by `StreamCalls` are not in a run: they are proved.

## 5. Proofs

The theorems hold for every value of the constants that satisfies the named assumptions of the
modules, which TLC evaluates in the runs:

- numbers and settings are what their types say (`SeqModAssumption`, `BoundAssumption`,
  `BoundsAssumption`, `TimeAssumption`, `IntervalsAssumption`, `HelpersAssumption`,
  `TimeSyncAssumption`, `ChunkSizeAssumption`, `LengthsAssumption`, `WindowAssumption`, ...);
- "nothing" is no lease, call, resource or name (`NoLeaseAssumption`, `WalletConstants`,
  `CallsAssumption`, `NoCallAssumption`, `NoResourceAssumption`, `NamesAssumption`);
- names are finitely many, poses are poses, velocities are velocities (`NamesAssumption`,
  `PosesAssumption`, `VelocitiesAssumption`).

One theorem assumes a disciplined program, in its statement: `SystemIssuesNewerLeases` has
`ASSUME ~Overlap`. The others hold for any program of their model. Every
invariant and every action property that a passing run checks is a theorem. The larger
strengthenings (`OrderInv`, `TruthInv`, `CountedInv`, `ServedInv`, `KeepAliveInv`, `CallsInv`,
`CopiesInv`, `ExchangeInv`, `SyncInv`, `TurnInv`) were checked by TLC on the instance of the run, or a
smaller one, before they were proved; the runs do not check them again.

**Order of leases** (`LeaseOrderProofs`). `BeforeIsTotal` and `BeforeIsTransitive`: of
two clocks that disagree exactly one comes first, and that order is transitive through extensions.
The first position of disagreement exists because every set of naturals has a least element
(`LeastNatural`, from the library's well-founded induction). `CompareMeaning` translates every
answer of `Compare` into these terms. `IncrementType`, `SubleaseType` and `UpdateType` say what the
operations preserve. Two theorems are about the edge of the numbers: `IncrementOutdates` says that a
lease that is advanced outdates itself and all its subleases, and `IncrementWraps` that at the limit
of the uint32 the order turns round: the advanced lease is the older one.

**Lineage** (`LeaseSystemProofs`): `LineageTypeOK`, `DelegatesNeverOutrank`, `AdvancingRecalls`,
`ComparisonsAgree`, `PrecedenceIsTransitive`, for any number of delegates, any chain of lending and
sequences of any length, as long as no number wraps. None of the properties is inductive, because
they speak of verdicts and not of clocks. `LineageInv` says how a lent lease is related to the
holder's (`Descends`): longer, equal up to the holder's last position, and there not greater.

**Wallet** (`LeaseSystemProofs`). `WalletInv`, which is `TypeOK` with `EntriesValid`, is inductive
for any program. `WalletChangesAreWhole`: a thread that stores what it made of an entry that is still
there performs the whole operation of the atomic wallet (`MadeOfCopy` says that what it stores was
made of its copy); the only other change is that of an overtaken thread. It holds for any number of
threads and any overlap, and is what the violated run leaves of the refinement.

**System** (`LeaseSystemProofs`), in layers, for any number of threads, calls, resources and epochs.

- `SysTypeOK` and `NoForeignLease` hold for any program, overlapping or not. The type of the wallet
  depends on the robot's answers, and the origin of a lease on calls that are still under way, so
  `SysInv` ties the wallet, the threads, the calls and the robot's grants together. It also says
  that the client's leases have exactly two numbers (`DerivesFrom`): that is what makes `Increment`
  leave the first one, the robot's, alone, and it holds because `OnAcquireLeaseComplete` stores a
  sublease.
- `IssuesNewerLeases` needs `~Overlap`. `OrderInv` adds that what a thread is about to store was
  made of the lease that is in the wallet (`ThreadsInv`), that of a resource at most one acquisition
  or return is awaited (`OneSettles`), and that the wallet's lease is not older than any that was handed
  out and a grant on its way newer than all of them (`Ordered`), across epochs too.
- `AnswersDisownOnlyLost` is proved for any program. `TruthInv` says that every answer was true when
  it was given, and that what makes it true (a grant superseded, a use counted) stays true, because
  the robot only moves on (`Superseded`, `SupersededStays`, `Moves`). A late answer then disowns
  either a lease that is lost or one granted after it. Without overlap there is one more thing to
  show, that the wallet has counted every use of its lease that the robot can have seen
  (`CountedInv`); with overlap a lost update of the wallet is the third exception of the property
  (`FallenBehind`).
- `SystemChangesAreWhole` is `WalletChangesAreWhole` for the wallet that is fed by whatever the robot
  grants or answers. Here the results a thread stores come from the network, so `ServedInv` says
  which operation of the atomic wallet each read prepares. `LeaseKeepAlive`, which uses the atomic
  wallet, rests on this.

**Lease keep-alive** (`LeaseKeepAliveProofs`): `TypeOK`, `NoFalseAlarm` and the time bound
`ChecksInOnTime` for every interval, call time and callback time. `LeaseInv` says what the robot knows
of every lease the wallet, a call or an answer holds, so that a lease marked as lost is lost unless
an earlier check-in has `crossed` its grant (`DisownedIsLost`, `Answered`); from this comes
`NoFalseAlarm`. `Timely` says for every place of the thread how long ago the cycle and
the robot's last news of it began.

**Client calls** (`ClientCallsProofs`): `CallsTypeOK`, `OkMeansDone`, `ReturnOutranks` and
`ResultsTakenIn`, for every stub of `ClientStubs` and any number of calls, interleaved inside the
operations of the wallet. The table enters
by one lemma, `StubsRegular`, proved row by row: only the calls named by `Ignoring` ignore a
response's status, and only those named by `Deaf` attach leases and do not hear of them. `CallsInv`
says what a call is at each of its stages (`Stage`); that a refusal is where the completion looks
for it, unless it does not look (`Honest`); that a lease being lent to the robot is the program's and
no other call is under way (`Lending`); that leases begin with a number the robot has granted
(`Rooted`); that the program's lease is of a later grant than the one auto return has or a sublease
of one before it (`Ranked`); that leases and results under way are no newer than the wallet's, and
that results already taken have nothing left to say against it, unless the resource is torn
(`Taking`); and that the numbers have room for the leases still to be attached, so that none wraps
(`Roomy`). `CopiesInv` says of the copies under way what those say of the wallet's entries: whose they
are, that the robot has granted them, and that the lease of auto return outranks them (`Holding`,
`Bears`, `Outranked`).

**Message pump** (`MessagePumpProofs`), for any program and any number of calls, with an auto-update
thread or without. `PumpCallbacks` and `PumpCallsLive`: no callback after the shutdown, no call object
freed before its callback has ended. `PumpCrashNeedsRace`: the two races are the only ways to crash.
The invariant `Objects` relates what the pump tracks to what exists; `Promises` says that every call
the shutdown finds between creation and start is caught (`CaughtShutdown`), and that what crashes or
is broken was (`CrashIsCaught`, `BrokenIsCaught`). `PumpImplementsAsync` is the refinement: under the
mapping `Life` every step of the threads is one step of `AsyncCalls` or a stutter. `Lives` is the
invariant it needs: a call marked as called has been issued and its future waits, until the shutdown
is over, and no event is under way for a call marked as completed, so that neither a second event nor
a cancellation sets a promise again. That only caught calls are abandoned comes from `Promises`.

**Streams** (`StreamCallsProofs`): `TypeOK`, `WrittenInOrder` and `OkMeansComplete`, for messages,
chunks and windows of any size, and `SplitThenJoin`: any message is what its chunks are joined to.
`WrittenInOrder` is not inductive: which request a write that ends puts on the wire depends on the
counter, and the counter on writes that may have failed. `StreamInv` says that while the call goes
on, everything counted before the write under way has arrived (`Counted`), that there is one
operation or one event (`OneAtATime`), and that nothing is written past the end. `ExchangeInv` adds
the way back: what is on the stream at each step (`Beginning`, `InStep`), that what has been read and
what is on the wire are the robot's answer as far as it has sent it, in order (`Answered`), and that
a call ends well only after the whole exchange (`AtEnd`). Sizes are naturals; the `int` of the code
bounds them at 2^31. `StreamImplementsAsync`: one call with all its events is one call of
`AsyncCalls`, without a shutdown.

**Time synchronisation** (`HelpersProofs`), without assumptions on the program:
`SyncConversionNeedsLateAnswer` and `SyncTerminationNeedsCrossing`, for any number of controllers,
establishers and waiters. `SyncInv` adds to the types that an estimate once there has its samples at
the robot (`Founded`), that an update which is not late asks for the endpoint's clock and so cannot
take the estimate away (`Timely`, `Lasting`), and that a waiter who was not overtaken can count on it
(`Counting`). `TurnInv` says that until two controls cross, the flags, the thread and who is joining
agree (`ThreadHeld`, `InTurn`).

**Periodic threads** (`HelpersProofs`): `TriesInTime` for every interval and first retry: whatever
the callback's answer makes of the waits, they stay between the bounds (`InBounds`).

**Helpers** (`HelpersProofs`): `SuccessIsTrue`, `Punctual` and `ComputerGoesLast` for every timeout,
period, call time, lookup time and number of attempts. `HelpersInv` says how late it can be at every
place of the loop (`InTime`), that a good answer is still true when it is judged (`GoodAnswerHolds`),
and that the closing command of `SafePowerOffRobot` finds the motors off (`MotorsFirst`).

**Frames** (`HelpersProofs`): `IsSnapshot`, `ValidationIsExact`, `TransformsCompose` and
`RerootKeepsTransforms`, for any finite set of names. The walks of the code are recursive functions,
of which nothing says at first that they are defined at all. A function that gives the same value for
every least counterexample gives it everywhere: so `Iterates` shows that a walk is a sequence of
frames, and `EndlessWalk`, a pigeonhole argument, that one as long as the map has edges ends at the
root or goes round in a cycle (there are finitely many frames). `ValidationIsExact` follows. The
transforms compose because poses are a group (`ProductIsPose`, `PoseAssociative`, `PoseInverse`),
which here is whole-number arithmetic: the theorem is about integer coordinates and unit quaternions
of integers, where it is exact, and says nothing of the rounding of doubles. `OneMoreEdge` and
`InRootStep` follow a transform along an edge; `RerootedIsTree` and `RerootedInRoot` say what a new
root leaves. `ReparentFrame` has no such theorem: it is false (`FrameReparent.cfg`).

**E-Stop keep-alive** (`EstopKeepAliveProofs`): `TypeOK`, `StaysDisabled`, and the two time bounds
`SilenceIsBounded` and `StopArrivesInTime` for every interval and call time. `Timely` says, for
every place the thread can be, how far the robot can be behind: between check-ins no longer than
since the last one started, during one no longer than a cycle more; that the endpoint has the
robot's challenge whenever it rests; and that a check-in under way has the desired level, because
`SetStopLevel` needs the mutex. It holds until the first lost call.

What stays with TLC is liveness, which needs fairness and `ENABLED` and is out of the prover's
reach: `LossIsReported`, `StopEndsThread`, `EveryFutureSettles`, `ShutdownEnds`, `ChecksInForever`,
`StopEnds`, `EndsByItself`, `Establishes`, `NeverLostUnnoticed`, `FaultIsCleared`,
`ShutdownReturns`, `Returns`. Induction over data is available only as "a counterexample has a least
one", which is how the theorems about sequences and trees are proved. No module declares a recursive
operator.

## 6. Not modelled, and the plan

- The robot's caches of clients, channels and authorities, and the Client SDK: `EnsureServiceClient`
  searches its map outside the mutex (`robot.h:84`), which is listed as a hazard. `SetTimeSyncMembers`
  always replaces the thread though `robot.h:176` says only "if it is not already running"; the
  replacement itself is in `TimeSync`.
- The E-Stop configuration steps, of which only the resulting states appear; the challenge's width
  (64 bits in the protocol, `int` in the endpoint); `SetRpcInterval` of either keep-alive, whose race
  changes an interval.
- A callback that shuts the pump down (it waits for itself) or destroys its keep-alive (it joins
  itself); two threads that call `AutoUpdate` at once. They depend on the program's callbacks.
- The unlocked read of the round trip (`time_sync_helpers.cpp:146`): it concerns the times in it,
  which `TimeSync` leaves out.
- `ResourceHierarchy`, `SplitLease`, planar poses, interpolation, inequalities of doubles, the
  time conversion itself: functions without state.
- The command builder, common helpers, tables of error codes: they fill in and name messages. Two
  initiating templates of `service_client.h` that nothing instantiates.
- `protos/`, generated code, examples and documentation.

Next, in this order: `RobotClients` (the caches, two threads that ask for one client, time sync
replaced while it is in use); the E-Stop configuration with failures between its steps; a lease
keep-alive over the two-lock wallet; a reading of the conversions (`TimeSync`, poses) with the
rounding and the widths of the code.
