# RemoteKVM in TLA+

RemoteKVM lets a user see and control a machine of theirs from another one. A
server keeps users, machines and sessions in Postgres and relays the few
messages by which an *agent* (on the controlled machine) and a *client* (the
desktop application) set up a WebRTC connection; video, audio and input then go
from peer to peer. This directory holds TLA+ models of that system, the TLC
configurations that check them, and TLAPS proofs about them. Paths below are
relative to the repository.

- [Inventory](#inventory)
- [Modules](#modules)
- [Runs](#runs)
- [Disagreements](#disagreements)
- [Proofs](#proofs)
- [Not modelled](#not-modelled)
- [Plan](#plan)
- [Running the checks](#running-the-checks)

## Inventory

What the system consists of, the state each part keeps, and what makes it
correct. `PROJECT.json` lists the same parts with their status, and the hazards
with the lines where they bite.

| Part | State | Operations | Correct when |
|---|---|---|---|
| Signaling relay, `apps/server/src/websocket.rs` | maps `agents` (machine to connection id and sender) and `clients` (session to sender), `next_conn_id`; per socket a task with a bounded forward channel and, for clients, `owned_sessions`; columns `machines.online`, `sessions.status` | connect, register, relay, heartbeat, clean up | slots name live sockets; an old socket's cleanup spares its successor; sessions end with their client or agent; messages reach the right party; nobody waits for ever |
| Connect endpoint, `routes/sessions.rs` | `sessions` rows | check presence and quota, insert a pending row, record a route | a session is only created for a machine that can be signalled |
| Redis presence, `websocket.rs` | hash per machine (instance, connection id) with a TTL, route per session | set, refresh (script), clear (compare and delete), expire | the entry of a serving socket stays its own until another one writes it, and one that no live socket wrote fades |
| Machines and tokens, `routes/machines.rs` | `machines` rows, token hashes | register, rotate, delete | exactly one token of a machine works, the one last returned |
| Organizations, `routes/organizations.rs` | memberships, invites, shares | create, invite, share | nobody is granted a role above the granter's |
| Billing, `routes/billing.rs` | plan, subscription, usage | checkout, usage, webhook | the plan follows the subscription in spite of event order |
| Sign-in, `auth/` and `apps/client/src/auth.rs` | login state with a TTL, loopback listener, stored token | start, callback, parse | one sign-in gives one token to the client that asked |
| Rate limiter, `util.rs` | hits per key in a fixed window | check | in less than a window, fewer than twice the limit pass |
| Agent control, `apps/agent/src/main.rs`, `signaling.rs`, `server_client.rs` | one socket, running sessions, control state | answer an offer, apply control messages, end with the socket | the process ends with its connection, so that another can be started; what a client asks for takes effect |
| Agent media, `apps/agent/src/windows/` | capture and encoder queues, keyframe flag, bitrate, audio remainder | capture, encode, reconfigure | a requested keyframe is produced; no audio sample is lost between frames |
| Windows service, `windows/service.rs` | child agent per desktop session | session change, reconcile, spawn, stop | each active session has an agent, and none has one that nobody controls but after a failed call of Windows; the agent is started with the arguments meant |
| Client application, `apps/client/src/app.rs`, `signaling.rs` | screen, tokens, awaited sign-in and connect results, the session | sign in, poll, connect, cancel, disconnect, log out | a result given up never changes the screen; sessions and tasks end with their screen |
| Client media, `apps/client/src/media.rs` | access unit under assembly, decoder, latest frame, audio buffer | push packet, decode, copy, fill | frames are never mixed; the picture is the one that was encoded; audio is bounded and keeps its channels |
| Transport, `crates/transport` | peer connection, data channel, receive queue | offer, answer, send, recv, close | the queue ends when the peer goes |

How they interact: the client application calls the connect endpoint over HTTP,
opens `/client` with its token and sends one `ConnectRequest` per session; the
relay registers the session, and passes the offer through the forward channel of
the machine's agent socket; the agent answers on its socket, and the answer goes
back through the client's forward channel. The relay's tasks share the two maps
(tokio `RwLock`s) and the database, and nothing else. After that, agent and
client talk over WebRTC.

What is hard: every socket has a task of its own, and a task is interrupted at
each `await`. Agents reconnect while the cleanup of their old socket is still
running, clients leave while answers are under way, statements fail one by one,
the process restarts with empty maps and a full database, and two bounded
queues and two locks join tasks that also have sockets to serve.

## Modules

### `SignalingRelay`

The relay and the connect endpoint of one server process. A step of the model is
one database statement or one critical section of one map, so the tasks
interleave where the program's `await`s let them. Merged into one step are a map
access and the statement after it when that statement touches nothing the model
keeps (`record_session_usage`), and the draw of a connection id with the
statement before it.

| Model | Code |
|---|---|
| `agents`, `clients`, `nextConnId` | the fields of `SignalingState` |
| `dbOnline`, `status` | `machines.online`, `sessions.status` |
| `aState`, `cState` | where `handle_agent_socket` and `handle_client_socket` are |
| `connId`, `owned` | their locals `conn_id` and `owned_sessions` |
| `toAgent`, `toClient` | the forward channels; a message is the session it is about |
| `atAgent`, `got` | what reached the peers: offers not answered yet, answers |
| `checked` | connect requests between `is_agent_online` and the `INSERT` |
| `AgentConnect`, `AgentMarkOnline`, `AgentRegister` | the head of `handle_agent_socket` |
| `AgentForward`, `AgentSuperseded`, `AgentDisconnect` | the branches of its `select!` |
| `AgentAnswer`, `AgentRelayAnswer` | `handle_agent_message` |
| `AgentUnregister`, `AgentMarkOffline`, `AgentEndSessions` | its cleanup |
| `ConnectCheck`, `ConnectInsert` | `connect_machine` |
| `ClientConnectRequest`, `ClientRegister`, `ClientNotify`, `ClientSignalingOffer` | `handle_client_message` |
| `ClientForward`, `ClientDisconnect`, `ClientUnregister`, `ClientEndSession` | `handle_client_socket` |
| `ServerCrash` | the process dies, or is stopped (upgraded sockets are dropped without their cleanup), and starts again |
| `Statement` | any statement may fail, which the handlers log and survive |

A socket identifier stands for one connection, so an agent that reconnects is a
further element of `AgentSockets`. `RawClients` are clients of other programs:
they may repeat a request and send `SignalingOffer`s, which `apps/client` never
does. The peer answers offers it received, so answers about foreign sessions are
outside the model. A full channel only delays its sender here.

### `RelayBackpressure`

The same tasks reduced to who waits for whom: the locks of the two maps with
tokio's first-come order, read guards held while `tx.send` awaits room, and
channels by their length. The database is left out. `waiting` and `readers` are
a lock's queue and its read guards; `pc` says what a task awaits. A write guard
is never held across an `await`, so a writer's section is one step.

### `RelayService` and `RelayRefinement`

`RelayService` says in six actions what the relay promises: a machine has one
slot, a new socket takes it, a socket that had it once never has it again, and a
session goes from pending to active at most once, only for a machine that some
agent came for, and stays ended. `RelayRefinement` maps the detailed state to
it (`holder` is `agents`, `served` the sockets past their registration), and
`ImplementsService` is checked as a property of the detailed specification.

### `ClientApp`

The desktop client: the UI thread with its screens, and the background tasks it
starts. A frame is three steps, `poll_auth`, `poll_connect`, and drawing the
screen with at most one click on it, so that results arrive between any two of
them.

| Model | Code |
|---|---|
| `screen`, `token`, `authRx`, `connectRx`, `active`, `linkAuth` | fields of `App`; a receiver or a session is named by the task it came from |
| `shown` | `App.user` and `App.machines`, as the token they were fetched with |
| `stored` | the token in the keychain, which survives `Relaunch` |
| `login` | the tasks of `spawn_fetch` and `start_auth`: their stage and token, and the result in their channel |
| `attempt`, `signaling` | `connect_and_establish` by the `await` it is in, then the `ClientSession`; the signaling task of each |
| `AppNew`, `HandleDeepLink`, `HandleBadDeepLink`, `RunEventLoop`, `Relaunch` | `main`, `App::new`, `handle_deep_link_url` |
| `PollAuth`, `PollConnect`, `Draw` with `Click` | `App::ui`, the screens' buttons |
| `AcceptCallback` to `LoginDies` | `LoopbackReceiver::wait_for_token`, `handle_callback`, `fetch_session` |
| `RequestSession` to `AttemptDies` | `establish_session` |
| `SignalingEnds`, `ConnectionFails`, `CloseSession` | the signaling task's loop, the connection state handler, `ClientSession::close` |

A receiver that is dropped takes the result in its channel with it, and a
`ClientSession` that is dropped aborts its signaling task without closing its
peer connection: `LoginUnawaited`, `Unawaited` and `AbortUnread` say so wherever
the code assigns `None`. `loggedOut` is auxiliary. A place in `Logins` or
`Attempts` is free again when nothing of its task is left, so the number of
sign-ins and connects is not bounded, only how many there are at a time.

### Components with one instance each: `MCComponents`

The fourteen modules below share no state with each other, so one configuration
checks them side by side. `MCInit` picks a component, whose steps alone follow,
and the state space is the sum of theirs; the others stay as they begin. Each
module has its own `Init`, `Next` and `Spec`; `MCSpec` conjoins their next-state
relations, each while its component runs, with the fairness that each states.

#### On the server

| Module | State | Actions |
|---|---|---|
| `RedisPresence` | the machine's hash with its time to live (`presence`), the maps and counters of two processes (`hold`, `nextId`), each socket's task and next refresh | `PresenceRegister` and `PresenceUnregister` under the lock, each followed by its Redis call; `SetAgentOnline`, the refresh script, the compare-and-delete script, `Tick`, `InstanceCrash`; any call may fail |
| `SessionRoute` | the route's hash, the connect request, the client sockets and what each read | `RecordSessionRoute` of the connect endpoint and of the socket, read and write apart; `ClearSessionRoute`, `RouteExpires`, `RouteCrash` |
| `MachineTokens` | `machines.registration_token_hash`, `machine_tokens`, each request's handler | `InsertMachine`, `InsertHistory`, `VerifyOwnership`, `RevokeOld`, `UpdateMachine`, `DeleteMachine`: `register_machine`, `rotate_token`, `delete_machine` statement by statement |
| `Organizations` | memberships, invitations, accounts, handlers under way | `CreateOrganization`; `Allow` to `MarkAccepted` or `UpsertInvite` (`invite_member`); `BeginSignIn` to `AcceptPendingInvites` (the sign-in callback) |
| `Billing` | plan, subscription, seats, customers; the payment service's events | `LoadTarget`, `CountMembers`, `UpdateSeatCount`, `PostCheckout` (`create_checkout`); `DeliverCompleted`, `WriteTeam`, `WriteFails`, `DeliverDeleted` (`stripe_webhook`, with `verify_signature` as their guard) |
| `SignInGate` | the limiter's bucket per key, signed login states by age | `LoginInit`, `FinishCallback` behind `RateLimiter::check`; `GateTick` |

What is auxiliary says so where it is declared: `retired` and `knew` in
`MachineTokens`, `deeds` in `Organizations`, `told`, `applied` and `excused` in
`Billing`, `accepted` in `SignInGate`.

#### On the controlled machine

| Module | State | Actions |
|---|---|---|
| `WindowsService` | the controller's place, its event queue, `agentOf` and the agents nobody knows of (`orphans`), the active desktops | `StartService`, `ConnectController`, `FirstScan`, `ScanTick`, `HandleSessionChange`, `StopController`, `ReportStopped`; desktops and agents change by themselves. Quoting and parsing of the command line are operators |
| `AgentSession` | process, reader and writer of its socket, a record per `run_session` with its capture thread and frame channel | `Connect`, `ReadRequest`, `TakeRequest`, `StartVideo`, `AcceptOffer`, `HelloFails`, the capture loop, `MainReturns`, `ProcessEnds` |
| `VideoEncoder` | the control state, the encoder's atomics, the backend's rates and flags, the channel of encoded frames | `ReceiveControl`, `StoreBitrate` to `PendKeyframe` (the session's task), `TakeForce`, `LoadBitrate`, `EncodeFrame` (the encoding task, both backends), `WriteSample` |
| `AudioPipeline` | capture thread, packet channel, `AudioNormalizer`'s remainder and buffer, counted in frames | `AudioStart`, `OpenLoopback`, `CaptureLoop`, `ReadPacket`, `SendPacket`, `EncodePacket`, `EncodeEnds`, `StopAudio`, `DropAudio` |

#### Between machine and client

| Module | State | Actions |
|---|---|---|
| `InputPath` | what the user did (`typed`), a task per frame of the window, the control channel, the injector's `last_pos` | `ForwardInput`, `SendNext`, `OpenChannel`, `CloseChannel`, `Inject`; the key tables and `to_absolute_axis` are operators |
| `MediaBytes` | a sample or a picture with the shape of the decoder's buffer | `AppendNal`, `ShowPicture` put one together. The conversions are operators on it, which the properties compose and compare with a reference definition: Annex B and AVCC both ways, BGRA to NV12 by index, the copy of strided rows, the renderer's reads |
| `ClientVideo` | packets on the way, the depacketizer's buffer, the pending unit, parameter sets, decoder, latest picture | `PacketizeFrame`, `LosePacket`, `WindowsPops`, `WindowsDecodes`, `MacDecodes` |
| `ClientPlayback` | output device, channel of decoded packets, playback buffer | `OpenPlayback`, `ReceiveAudio`, `QueueSamples`, `FillOutput`, `DropPlayback`, `EndPlayback` |

### `MCSignalingRelay`, `MCRelayBackpressure`, `MCClientApp`, `MCRedisPresence`

The values of the constants for TLC.

### The theorems

See [Proofs](#proofs) for what they say.

| Module | About |
|---|---|
| `SignalingRelayProofs` | the relay; its sessions and its refinement of `RelayService` |
| `RelayBackpressureProofs` | its locks and channels |
| `ClientAppProofs` | the client application |
| `ServerProofs` | the other components of the server |
| `WindowsAgentProofs` | the components on the controlled machine |
| `MediaProofs` | what goes between machine and client |
| `FoldLemmas` | lemmas about recursive functions on sequences, for the two before |
| `ComponentsProofs` | `MCComponents`: that the theorems about one component hold of the composition |

## Runs

| Run | Instance | Shows |
|---|---|---|
| `relay_safety` | one machine, three agent sockets, two clients, one session, one fault | types, live slots, the online flag, client registrations, session states, the connection-id guard, refinement of `RelayService` |
| `relay_parties` | two machines, two users, a raw client, channels of one | what is relayed stays with the session's user and machine |
| `relay_liveness` | two agent sockets, one client, no faults, fairness | superseded sockets leave, leaving clients end their sessions, offers and answers arrive |
| `relay_online_flag` | two agent sockets | the online flag does not converge (expected violation) |
| `relay_teardown` | two agent sockets | an old cleanup ends a newer socket's session (expected violation) |
| `backpressure` | two agent sockets, a client, one request, channels of one, five messages, fairness | senders are used only while their channel is open; the relay only stops because of a guard held before a full channel whose receiver is in a call; every call returns but for such a sender |
| `backpressure_notify` | one agent socket, channels of one, two messages | `notify_agent` never returns (expected violation) |
| `components` | the fourteen components, see below | each property of the table below |
| `presence_owner` | `RedisPresence` with two sockets on one process, no fault | a connected agent's entry goes to its replaced socket and runs out (expected violation) |
| `client_screens` | two users, two sign-in tasks and two connect tasks at a time | late results never move the user, mix users or undo a logout; sessions are owned; connecting and given-up attempts end |
| `client_connection_error` | the same | a failed connection leaves the user on the connected screen (expected violation) |
| `client_login` | the same | a sign-in outlasts its timeout (expected violation) |

**The run `components`.** Distinct states are per component; a component that
is not running contributes none.

| Component (states) | Bounds | Property | What it says |
|---|---|---|---|
| `RedisPresence` (44 000) | three sockets on two processes, TTLs of one and three units, one fault | `PresenceFollowsSocket` | the entry of a serving socket stays its own until another socket's `set_agent_online` takes it: no cleanup deletes it, and it does not run out between refreshes; an entry that the map does not know does not stay. That the entry names the live socket is not implied, and not so: `presence_owner` |
| `SessionRoute` (940) | two sockets on two processes, one fault | `RouteEndsWithClient` | once every client of the session is gone, so is its route |
| `MachineTokens` (810) | a registration, two rotations, a deletion, one fault | `TokensRotate` | a token given before a rotation or deletion that succeeded is never accepted again; after the last request, history and row agree |
| `Organizations` (44 000) | two users, one with capitals in the address, two invitations, two sign-ins, one fault | `OwnersComeFromOwners` | nobody becomes owner without an owner or the identity provider having asked, and the creator stays it unless an owner asked otherwise |
| `Billing` (27 000) | two subscriptions, three deliveries, ages around the tolerance | `PlanFollowsSubscription` | plan and subscription agree once every event was taken |
| `SignInGate` (38 000) | limit two, window two, an address, an empty user agent and neither | `BurstBounded` | fewer than twice the limit pass in less than a window: across a boundary three do, four never |
| `WindowsService` (75 000) | two desktops, three changes, an exit, two failing calls of different kinds, two starts, arguments of three characters | `DesktopKeepsAgent`, `AgentsAnswerToController`, `AgentArgumentsSurvive` | an active desktop gets its agent back; each failed call leaves at most one agent of a desktop behind, and nothing else leaves any; the agent reads the arguments it was given |
| `AgentSession` (7 900) | two requests of one id, two faults, a frame channel of one, video required | `AgentProcessExits` | the process ends after its connection |
| `VideoEncoder` (27 000) | two bitrates, two control messages, one fault, a channel of one | `KeyRequestCarried`, `ControlsTakeEffect` | a key frame that is owed is on its way to the encoder; it ends sent, lost with a key frame that was made and dropped, or forgotten because Media Foundation could not be told (`untold`); the last bitrate is the one in use |
| `AudioPipeline` (7 300) | three mix formats, packets of 0, 1, 2 and 5 frames, eight frames in all | `AudioKeepsPace` | rounding does not add up, and no sample is read outside its packet |
| `MediaBytes` (7 100) | sides up to four with padding of up to two, samples of up to two units of four bytes, length fields in base 4 | `SamplesSurvive`, `PixelsInPlace` | the units come out of every conversion as they were; each pixel is drawn where the decoder put it, and nothing outside its buffer is read |
| `InputPath` (7 300) | three events, two in a frame | `InputOrder` | what is injected is a prefix of what was done, clicks at the pointer's place |
| `ClientVideo` (37 000) | three frames of up to three packets, one packet lost or overtaken, one failing call of the decoder | `UnitsWhole` | the decoder is never given a mixture of frames; without loss it is given every frame whole |
| `ClientPlayback` (4 400) | three devices, three packets of up to three frames or in error, a buffer of a second | `ChannelsStayInPlace` | left stays left through overflow and silence |

`ComponentsTypeOK` holds each component to its own type invariant. Two processes
and three sockets are the least with which a socket is replaced both within its
process, where the guard compares ids, and across processes, where it cannot.
Two rotations, invitations, subscriptions and sign-ins are the least that
overlap. A limit of two is the least with which a bucket has requests
younger than its first, which a boundary then brings together with those of the
next bucket: the greatest burst, three, does occur. Two failing calls and two starts
let an agent that one failure left behind meet one left behind by
another, and a controller that did not start it: two processes that nobody knows of
do occur. Each kind of call fails once at most. Argument strings of three characters
hold every order of a quote, a backslash and a blank. Queues of one make every
overflow happen, and the code's sizes make it happen later. The pictures are
large enough for an odd side, a block of chroma and padding on both planes.

What a property leaves out is a condition in its formula and a finding below:
frames whose input tasks overlap, an event written after a later one, a
transform that could not be made anew or could not be told of a key frame (`untold`),
an entry of Redis taken by a socket's late write, a call of Windows whose failure leaves
an agent behind, packets that the decoder state drops, a
TTL no longer than the refresh interval.

**Why the bounds are enough.** For the relay and the client application: Three agent sockets are the least with which a
cleanup can meet a registration that itself replaces another (with two, the
guard could compare with "any newer socket" and pass). Two clients that name the
same session are the least for one to withdraw the other's registration. One
fault is enough to separate every statement from its neighbours, since each
property speaks about one failed step. The size of a channel only decides when a
sender waits: size one makes every wait happen, and `WS_CHANNEL_SIZE` (64) only
makes the same runs longer. In the client, two tasks of a kind are the one that
was given up and the one that replaced it, and two users are needed to mix them.

Deadlock is checked where a stop would be a defect (`relay_safety`,
`relay_liveness`: `Finished` is the only way to stop). It is not checked in
`relay_parties`, where two full channels of size one do block each other, which
is the subject of `RelayBackpressure`; nor there, where the stop is described by
`StallNeedsFullChannel` instead. Its `MayMove` spells out the guards under which
the relay takes a step, so that it can be reasoned about; that it says the same as
`ENABLED Server`, but for the step of a superseded agent, was compared by TLC on
the instance of `backpressure` with a second client. `components` is not checked for deadlock, since its
inputs are bounded and run out.

**Fairness.** tokio polls every task that is ready, so a step of the server that
stays enabled is taken (weak fairness per task, and of the insertion in a
connect request). `tokio::select!` polls the branches of a loop in random order,
so a forward channel that keeps having a message is served although the socket
also keeps having one: strong fairness of the two `Forward` actions. Nothing is
assumed of peers in `SignalingRelay`: they may never answer, and never leave. In
`RelayBackpressure` peers do read what is written to them, the assumption most
favourable to the code. In `ClientApp` frames are drawn (the event loop polls),
timers fire and spawned closes run; neither the browser, the server nor the host
ever has to answer, and the user never has to click. HTTP calls, opening the
WebSocket and gathering candidates have no timeout in the code, so
`ConnectingEnds` and `GivenUpAttemptEnds` start from the offer that was sent.

In `components` and `presence_owner`: time passes, a due refresh is reached within a unit of time, and
the loop and cleanup of a socket that was replaced run (`PresenceFairness`); the
controller's connection attempt ends, its interval elapses and `select!` does
not starve its events (`ServiceFairness`); the encoding tasks run and frames keep
coming (`EncoderFairness`); the agent's main task and threads run, the end of the reader makes main return, and the desktop changes now and then
(`AgentFairness`). The last is an assumption about the host and not about the
code: without it the capture thread waits, which is a finding below. No request,
failure, answer or exit is ever assumed to happen.

`OfferReachesAgent` and `AnswerReachesClient` hold while the receiving socket
stays open and, for the answer, while the session is not registered anew; their
consequents say so. `OnlineFlagHasAnOwner` and `ActiveSessionHasAnOwner` are
conditioned on `faults = 0`: after a failed offline write or a crash a machine
stays marked online until an agent comes and goes again, and nothing in the code
or its documents promises otherwise.

## Disagreements

1. **The online flag is not eventually consistent** (`relay_online_flag`).
   `STATUS.md:119` calls it so. The cleanup unregisters under the lock and
   writes `online = false` later; a socket that reconnected in between wrote
   `online = true` before that and never writes the column again.
2. **An old teardown ends a newer socket's session** (`relay_teardown`).
   The comment at `websocket.rs:553-555` says a newer socket's registration is
   left intact; the map entry is (`NotEvictedByTeardown`, proved), but
   `end_machine_sessions` also ends sessions offered over the newer socket.
3. **`notify_agent` does not return when the channel is full**
   (`backpressure_notify`), although `websocket.rs:129-130` says it returns
   `false`. It waits with the read guard; if the agent's socket closes
   meanwhile, its cleanup waits for the write guard behind it and both wait for
   ever, with every later user of the map behind them.
4. **A connection error does not lead back to the dashboard**
   (`client_connection_error`), as `docs/client/architecture.md:71` draws it.
   The state handler in `crates/transport/src/lib.rs:253` logs, and nothing else
   looks: only the Disconnect button leaves the screen.
5. **The login timeout does not bound the login** (`client_login`).
   `auth.rs:79-80` says `wait_for_token` returns an error when the timeout
   elapses; it covers `accept()` and not the reading of the request.

6. **A replaced socket takes the presence entry** (`presence_owner`).
   `docs/server/api.md:408-412` says the entries let operators see which instance
   owns an agent. `register_agent` writes the entry after it has released the map's
   lock (`websocket.rs:150`), so the write of a socket that was replaced meanwhile may
   arrive last; that socket leaves the entry alone when it ends, and the live one only
   refreshes an entry of its own. No call need fail for it.

Met while modelling the other components. Where a property concerns it, the
property makes an exception of it, and the model contains the step:

7. **Input of two frames may be swapped** (`apps/client/src/app.rs:542`): the
   comment at 538-540 explains why the events of one frame share a task, and the
   tasks of two frames still race for the same mutex.
8. **A packet is dropped when a picture is waiting** (`media.rs:1219`): the
   Windows decoder returns a pending frame before it looks at its packet.
9. **Short AVCC samples pass for Annex B** (`windows/encode.rs:1920`): a length of 1 or
   of 256 to 511 contains a start code.
10. **A failed recreation is not tried again** (`windows/encode.rs:1552`): the new rate
   is recorded before the transform is made.
11. **An owner can be invited to less** (`organizations.rs:201`): the owner is looked
    up by the lower-cased address, and the invitation is accepted regardless of
    case.
12. **The end of an old subscription ends the new one's plan** (`billing.rs:255`).
13. **On a still desktop the agent does not exit** (`capture.rs:112`): the capture
    thread learns only from sending that nobody receives.
14. **Controller and session agents share a token** (`service.rs:207`): in the relay
    each replaces the other, which `server_client.rs:15-17` says must not happen.
15. **Dropping a pipeline does not abort its tasks**, as `windows/mod.rs:38` and
    `audio.rs:218` say it does: a dropped `JoinHandle` detaches.
16. **No key frames on request on macOS** (`macos/encode.rs:130`), though
    `macos/encode.rs:6` and `docs/agent/architecture.md:127` rely on them.
17. **A key frame request may be forgotten** (`windows/encode.rs:1571`): the pending
    request is cleared whether or not the transform could be cast to
    `IWMVideoForceKeyFrame` and took `SetKeyFrame`, and an ordinary frame follows.
    `docs/agent/architecture.md:127` relies on these requests for key frames.
18. **An agent whose exit code is not given counts as exited**
    (`windows/service.rs:374`): it is forgotten, not terminated, and another one is
    started beside it.

Not reachable as the code stands: `copy_nv12_pixel_buffer` (`media.rs:1146-1152`)
copies as many bytes of the chroma plane as it has pixels, half of each row; the
decoder is asked for 32BGRA and never yields NV12.

## Proofs

For any sets of machines, sockets, users, sessions, requests, tasks, processes,
desktops, formats and shapes of frames, any sizes of channels, queues, windows and
pictures, any time to live, and any bound on faults and messages:

| Theorem | Module | States |
|---|---|---|
| `TypeCorrect` | `SignalingRelayProofs` | `TypeOK` |
| `SlotsCorrect` | `SignalingRelayProofs` | `SlotIsLive` and `ConnIdsDistinct` |
| `NoEviction` | `SignalingRelayProofs` | `NotEvictedByTeardown`, a property of steps |
| `OnlineFlag` | `SignalingRelayProofs` | `OnlineFlagHasAnOwner` |
| `Registrations` | `SignalingRelayProofs` | `ClientSlotIsOwned` |
| `Parties` | `SignalingRelayProofs` | `RelayedToParties` |
| `RowsFirst` | `SignalingRelayProofs` | a row is inserted once, before anyone names it |
| `ActiveSessions` | `SignalingRelayProofs` | `ActiveSessionHasAnOwner` |
| `RelayImplementsService` | `SignalingRelayProofs` | `Spec => ImplementsService` |
| `RelayPromises` | `SignalingRelayProofs` | a session goes forward only, a slot goes to newcomers only |
| `LeavingClients` | `SignalingRelayProofs` | a client's cleanup ends what it lets go of, the safety part of `LeavingClientEndsSessions` |
| `MessagesKeepOrder` | `SignalingRelayProofs` | channels change in order, the safety parts of `OfferReachesAgent` and `AnswerReachesClient` |
| `SupersededLeave` | `SignalingRelayProofs` | a superseded socket only drains, the safety part of `SupersededSocketLeaves` |
| `TypeCorrect` | `RelayBackpressureProofs` | `TypeOK` |
| `OpenChannels` | `RelayBackpressureProofs` | `SendsToOpenChannel` |
| `StallsAtFullChannel` | `RelayBackpressureProofs` | `StallNeedsFullChannel` |
| `TypeCorrect` | `ClientAppProofs` | `TypeOK` |
| `ScreensMatch` | `ClientAppProofs` | `ScreensConsistent` |
| `TokenOfMachines` | `ClientAppProofs` | `MachinesAreTheTokens` |
| `LoggedOut` | `ClientAppProofs` | `LogoutHolds` |
| `Ownership` | `ClientAppProofs` | `SessionsAreOwned` |
| `GivenUpForGood` | `ClientAppProofs` | an attempt given up stays so, the safety part of `GivenUpAttemptEnds` |
| `AwaitedAttempt` | `ClientAppProofs` | an awaited attempt goes on to its result, the safety part of `ConnectingEnds` |
| `TokensTyped` | `ServerProofs` | `TokensTypeOK` |
| `TokensStayRetired` | `ServerProofs` | `TokensRotate` |
| `OrganizationsTyped` | `ServerProofs` | `OrganizationsTypeOK` |
| `OwnersMakeOwners` | `ServerProofs` | `OwnersComeFromOwners` |
| `ServiceTyped` | `WindowsAgentProofs` | `ServiceTypeOK` |
| `NoAgentLeftBehind` | `WindowsAgentProofs` | `AgentsAnswerToController` |
| `ArgumentsSurvive` | `WindowsAgentProofs` | any two arguments, of any length, come out of the command line as they were |
| `AgentArgumentsAlwaysSurvive` | `WindowsAgentProofs` | `AgentArgumentsSurvive` |
| `RouteTyped` | `ServerProofs` | `RouteTypeOK` |
| `RoutesEnd` | `ServerProofs` | `RouteEndsWithClient` |
| `PresenceTyped` | `ServerProofs` | `PresenceTypeOK` |
| `PresenceStays` | `ServerProofs` | `PresenceHeld`, the safety part of `PresenceFollowsSocket` |
| `BillingTyped` | `ServerProofs` | `BillingTypeOK`; a subscription is paid for once and ends once |
| `PlanFollows` | `ServerProofs` | `PlanFollowsSubscription` |
| `GateTyped` | `ServerProofs` | `GateTypeOK` |
| `BurstsBounded` | `ServerProofs` | `BurstBounded` |
| `AudioTyped` | `WindowsAgentProofs` | `AudioTypeOK` |
| `AudioPaceKept` | `WindowsAgentProofs` | `AudioKeepsPace` |
| `EncoderTyped` | `WindowsAgentProofs` | `EncoderTypeOK` |
| `KeyRequestsCarried` | `WindowsAgentProofs` | `KeyRequestCarried` |
| `BitratesArrive` | `WindowsAgentProofs` | the bitrate asked for last is the one encoded at, the safety part of `ControlsTakeEffect` |
| `AgentTyped` | `WindowsAgentProofs` | `AgentTypeOK` |
| `AgentWindsDown` | `WindowsAgentProofs` | an exiting process only winds down, the safety part of `AgentProcessExits` |
| `InputTyped` | `MediaProofs` | `InputTypeOK` |
| `InputKeepsOrder` | `MediaProofs` | `InputOrder` |
| `PlaybackTyped` | `MediaProofs` | `PlaybackTypeOK` |
| `ChannelsKept` | `MediaProofs` | `ChannelsStayInPlace` |
| `MediaTyped` | `MediaProofs` | `MediaTypeOK` |
| `PixelsKept` | `MediaProofs` | `PixelsInPlace` |
| `SamplesKept` | `MediaProofs` | `SamplesSurvive` |
| `VideoTyped` | `MediaProofs` | `VideoTypeOK` |
| `UnitsKept` | `MediaProofs` | `UnitsWhole` |
| `EachBehaves` | `ComponentsProofs` | `MCSpec` implies the specification of every module (to fairness) |
| `ComponentsTyped` | `ComponentsProofs` | `ComponentsTypeOK` |

The argument, in the order of the modules:

- *Slots.* `SlotIsLive` alone is not inductive: that a cleanup removes only its
  own entry rests on the ids of live tasks being distinct, and that on every id
  having been drawn from the counter (`ConnIdsIssued`). The three together,
  `SlotInv`, are inductive. `SlotSteps` reduces a step to what it does to the
  slots, so that the other twenty actions need one leaf.
- *Flag.* Given `SlotInv`, `OnlineFlagHasAnOwner` is inductive: the socket that
  minds a mark hands it on when it registers, is replaced, or unregisters.
- *Registrations.* `ClientSlotIsOwned` is inductive by itself, although a cleanup
  removes entries without looking whose they are.
- *Messages.* `PartyInv` adds that the session a socket handles or owns is its
  user's (`HandlesOwnSessions`). A queue is treated by what it holds (`Queued`),
  and `QueuedFacts` says what `Append`, `Tail` and `Head` do to that.
- *Sessions.* `RowsComeFirst` excludes that a row is inserted over a session
  already named. `ActiveSessionHasAnOwner` must be strengthened to sessions that
  are pending while an offer of theirs is under way (`OfferedHasAnOwner`): those
  are the ones an answer can still activate after the client left.
- *Refinement.* `StepRefines` splits steps by whether the session states move
  (`StatusMovers`) and by whether the slots do (`SlotSteps`, `ServedSteps`). It
  needs `AgentsReceiveOwn` (only an agent of the session's machine activates it)
  and `RowsComeFirst` (a row is provisioned once). What each step of `RelayService`
  keeps (`ServiceSteps`) is thereby true of the relay: `RelayPromises`.
- *Leaving clients.* Only the cleanup itself and a crash touch a socket that is in its
  cleanup (`CleanupSteps`); the statement that ends a session is written for a row
  that exists (`RowsComeFirst`), so it leaves the row ended.
- *Messages on their way.* Of the steps of all tasks only three touch the channel of a
  loop that goes on (`OfferSteps`). An offer is put into the channel of the socket in
  the slot, which `SlotIsLive` says is a socket of that machine: so none comes for a
  socket that lost its slot (`NoNewOffers`), which by `RelayPromises` stays lost.
- *Open channels.* Whoever awaits room holds the guard, a writer waits for the
  guards, so the entry stays in the map while it is used, and a task whose entry
  is in the map has not returned (`ClientGuards`, `AgentGuards`).
- *Stalls.* A call awaits a lock or room in a channel. The queue of a lock holds
  just the tasks that wait for it (`QueuesMatch`), so its first would be served but
  for a read guard, and a guard that stays is held by a task awaiting room
  (`GuardsHeld`). By *Open channels* the receiver has not returned; in its loop or
  writing it could move, so it is in a call itself.
- *Client.* Only the UI thread touches `App` (`TasksLeaveApp`).
  `ScreensConsistent` is inductive with `Launching`: a refused deep link shows
  the error screen and tears nothing down, which is right only because it is
  handled before anything was connected. The other invariants of the client use
  it: a poll cannot change the token where no sign-in is awaited, and a session
  is only adopted where none is held. `SessionsAreOwned` also needs that what
  `App` awaits was not consumed (`InPlace`). By ownership the task of an attempt that
  was given up is at one of the stages that lead to its end, and `StagesLeft`
  decreases with each of its steps (`GivenUpTask`); so it does for the awaited one,
  which ends with a result to be read instead (`AwaitedTask`).
- *Tokens.* A handler knows, from its ownership check on, every token that was
  given before (`knew`); past its update none of them is the row's (`Replaced`),
  so what it retires at its end is not accepted. `HistoryFollows` says where the
  handler of the row's token is, and which handler will replace it if its row of
  the history is already revoked.
- *Owners.* That nobody becomes owner unasked needs that no owner is on its way
  either, in an invitation or in a request (`NoOwnerUnderWay`); that the creator
  stays owner needs that each request about him stops where his present role is
  read, and that no invitation waits for him to sign in (`CreatorSpared`), which
  is why an address with capitals is excepted. Both rest on `OrganizationFirst`:
  nothing refers to the organization before its row.
- *Service.* `Answering` is inductive: of each desktop no more processes are left
  behind than calls failed that can leave one (`Accounted`, `Cost`), and outside its
  loop the controller has none. The second part is what the first needs: a controller
  that ends without stopping its agents leaves one of a desktop behind, not more, and
  has to have failed to enumerate the sessions.
- *Command line.* What the quoting has written of an argument, with the backslashes
  it still holds back, is what the parser has read of it with those it holds back
  (`Held`): so it is for the empty argument, and so it stays with a backslash
  (`HeldSlash`) and with any other character (`HeldOther`). The end of the quoting
  doubles what is held, the parser halves it and closes the word (`ArgumentParsed`).
- *Routes.* The connect request is answered before a client can come
  (`RequestFirst`), so it does not write the route after the last client is gone.
- *Presence.* Until a call fails: the ids of one process's sockets differ
  (`IdsDiffer`), so a cleanup deletes its own entry and only a write takes another's; and the entry of a serving
  socket has longer to live than its next refresh is away (`RefreshInTime`).
- *Billing.* A subscription is paid for once and ends once (`OncePaidOnceEnded`), and a
  handler past the buyer's role has a checkout of the organization
  (`HandlesCheckout`). Unless the delivery is excused, at most one subscription lives
  (`OneLives`), the organization's last event says which (`LastTells`), and the row
  says what the last written event does, later events being unanswered
  (`RowFollowsApplied`). Once all are answered, the last written is the last.
- *Rate limiter.* What passed in the last window was counted by the present bucket
  or by the one before it (`Counted`, `StillCounted`); each gave its places once
  (`PlacedOnce`), so each holds `MaxAttempts` at most. The first of a bucket is as old
  as the bucket (`BucketCounts`), so that of the bucket before is a window old and
  not among them, which leaves fewer than twice `MaxAttempts`.
- *Audio.* What came out at the device's rate, with the remainder, is what went in at
  the rate of Opus (`PaceKept`), unless a packet had a single frame; the remainder is
  less than the device's rate.
- *Encoder.* `KeyRequestCarried` is inductive with `HandedOver`: a request in the
  control state comes with the encoder's own bitrate or after its bitrate was
  taken, so no refused rate ends its handling first. A frame that is fed leaves a request
  owed only if the transform was told of it, or it has yet to reach the backend
  (`FeedKeeps`); otherwise the step ends it as `untold`. `RateLoaded` types the step.
  The bitrate needs that what the backend was asked for, is configured for and uses
  agree, except after a transform could not be made anew (`RatesMatch`); a fault is
  told from other steps by the budget it uses up (`FaultSeen`).
- *Agent.* Runs and waiting requests together are no more than the requests made, so the
  fairness over the first `MaxRequests` runs leaves none out. `ThreadLeft` decreases
  with each step of a capture thread of an exiting process, whose channel is closed.
  A process connects once, before it has a reader (`ReaderComesLater`), so the reader
  that ended stays so.
- *Input.* While no two tasks overlap, only the last one has something left
  (`QueuedInOrder`); what was injected, what is on the way and that backlog follow each
  other in the order typed, and the pointer is at the last move injected
  (`InjectedInOrder`). `EventsCount` holds without that condition: no event is in two
  places. The key tables are compared case by case; that `to_absolute_axis` is
  monotone, one to one up to 65536 pixels, and reaches both ends is arithmetic
  (`AxisCovered`).
- *Playback.* The buffer holds whole frames, each sample at the place of its channel
  (`BufferInPlace`); resampling yields whole frames (`ResampledFrames`), and overflow
  and callbacks remove whole frames (`FramesTaken`). Packets keep their order through
  channel and buffer (`QueueInOrder`, `BufferBeforeQueue`).
- *Pictures.* Nothing is inductive here: the index at which a byte is read is computed
  through the copy (`RowsAt`) and back to row and column (`PlaceInRows`), and compared
  with the length that was checked.
- *Samples.* The bytes of a framed sample are known by place: each unit with its start
  code or its length before it, at the offset where the last one ended (`Framed`). A
  start code is found nowhere but there (`UnitCodes`, `CodesAreUnits`): emulation
  prevention excludes the inside of a unit, and the last byte of a unit is not 0.
  The parsers jump from one such place to the next (`NalusAre`, `UnitsAre`), so their
  results are the units in order, by induction over the units still to come.
  `DigitsGiveBack` says that the four digits of a length are read as that length.
- *Units.* Each NAL unit of a unit was completed by a packet of the unit's frame
  (`UnitsMatch`). While nothing is lost, overtaken or swallowed, the packets on the way are the
  last ones sent (`Suffix`), the frames handed out are those whose last packet arrived
  (`DoneFrames`), and the pending unit is what arrived of the next (`Gathers`).
- *Components.* A step of the composition is a step of one component and leaves
  the variables of the others unchanged (`EachBegins`, `EachSteps`), so each
  component's theorems hold of it.

*Command line* and *Samples* concern conversions, each a fold or a recursive function
over a sequence. The induction theorems of the library take an operator as a parameter,
which no installed prover can instantiate. `FoldLemmas` therefore states induction
with a set in the place of the predicate (`SetInduction`, `BoundedInduction`,
`SequenceInduction`) and the fold of a sequence with a sequence of functions in the
place of the operator (`Passes`, `Yields`, `Joins`); a recursion that jumps ahead by a
distance it computes is treated by the places it comes to (`Jumps`, `Unrolled`).

The assumptions are those of the modules (`RelayAssumption`, `BackpressureAssumption`,
`ClientAssumption`, and one for each component, named after it): what the constants
are, nothing about the behaviour. Some of them say more than a type, as the code
does: the refresh interval is positive (`MinRefresh`), rates and numbers of channels
are positive, a desktop has at least two pixels along each axis (`to_absolute_axis`
divides by the span less one), and a frame has packets of which the last completes
a NAL unit (the packetizer of a frame ends with the end of a unit), and the
length of a NAL unit fits the four digits of its prefix (`annex_b_to_avcc_sample`
refuses a longer one, `media.rs:1903`). TLC evaluates
the assumptions in every run of their modules. The types of `RelayBackpressure` and
`ClientApp` are proved and not checked in a run besides.

Only model-checked: the eleven liveness properties, since the prover handles neither
`ENABLED` nor fairness. Of nine of them the part that concerns single steps is proved,
which says that no step leads away from the end, and what each contributes to it:

| Property | What its steps do |
|---|---|
| `SupersededSocketLeaves` | `SupersededLeave` |
| `LeavingClientEndsSessions` | `LeavingClients` |
| `OfferReachesAgent`, `AnswerReachesClient` | `MessagesKeepOrder` |
| `ConnectingEnds` | `AwaitedAttempt` |
| `GivenUpAttemptEnds` | `GivenUpForGood` |
| `PresenceFollowsSocket` | `PresenceStays` |
| `AgentProcessExits` | `AgentWindsDown` |
| `ControlsTakeEffect` | `BitratesArrive` |

That the steps are taken is left to TLC. For `CallsReturn`, `StallsAtFullChannel` says
what a call that does not return waits for; for `DesktopKeepsAgent` nothing of the
kind is proved. Every other property of a passing run is stated by a theorem.

## Not modelled

- Endpoints that only read, or write one row that nothing else here reads:
  `share_machine`, listing and getting machines and organizations, the portal
  and usage of billing. `record_session_usage` and the quota of the connect
  endpoint decide whether a request is refused, and keep nothing the models
  tell apart.
- The access check of `connect_machine` and the organization check of
  `register_machine`: single queries before the modelled statements.
- IceCandidates sent by agents: they take the path of an answer without marking
  the session, and `apps/agent` sends none.
- Capture and VideoToolbox on macOS: system callbacks push into an unbounded
  channel. The agent on macOS is in `MediaBytes` and `InputPath` only.
- WebRTC, the identity and payment providers, JWT signing, COM and NVENC beyond
  success and failure, the platform decoders, Opus: external. Their part in an
  action is a choice among the results the code distinguishes.
- The arithmetic of colours and of samples: pictures and packets are modelled by
  where each value comes from, so a wrong coefficient is not seen.
- Callbacks of one user that overlap (`BeginSignIn` takes them one at a time), and the
  update of the user's address by `upsert_user` (`auth/routes.rs:81`): in
  `Organizations` an address does not change.
- A Media Foundation transform is taken to begin its stream with a key frame
  (`FreshTransform`), as an H.264 encoder does; the code does not ask for one.
- Configuration, migrations, HTTP routing, serde, drawing, logging.
- Two clicks in one frame of the client, and the text of error messages.
- A connect request whose insertion overlaps the machine's teardown leaves a
  pending row that nobody ends unless a client names it. The steps are in
  `SignalingRelay`; no document promises that a pending session ends, so no
  property states it.

## Plan

Done: the relay, the client and the other components; every safety property of the
runs, and that the composition satisfies the specification of each module.

Proved besides: the safety parts of the liveness properties, as listed under
*Proofs*. Left, should a prover with fairness become available: the liveness
properties themselves, from those parts and the step counts they use (`StagesLeft`,
`ThreadLeft`, the lengths of the channels).

## Running the checks

    tlc -workers 2 -config RelaySafety.cfg MCSignalingRelay.tla
    tlapm SignalingRelayProofs.tla

The other runs and their modules are listed in `PROJECT.json`. Each passing
property has a mutant there: a definition of the model altered the way a bug
would alter the code (the operators commented `Mutant:`), with which TLC finds
the property violated.
