# Crew-Link in TLA+

Crew-Link connects the cars of a convoy: an app (Flutter, `src/app`) on every
phone and a backend (Fastify, WebSockets, PostgreSQL, optionally Redis,
`src/backend`). The modules in this directory model the parts of both whose
correctness depends on the order in which things happen. TLC checks them on
small instances; what matters most is also proved with TLAPS for every value of
the constants. Paths below are relative to the repository; in `PROJECT.json`
`map` ties every definition to the lines it models.

## 1. The system and its hazards

| Part | State it keeps | Operations | Interacts with |
|---|---|---|---|
| **Convoy gateway** `backend/src/realtime/{convoy_gateway,frame_handler,fanout,snapshot_store,heartbeat,wire}.ts` | registry of sockets per convoy; tracked hazards, tour and waypoint per convoy; handlers that await a role check | connect, replay, receive a frame, relay, record, heartbeat, close | clients over WebSockets, `services/auth.ts` for membership and role, position store |
| **Redis fanout and snapshot store** `realtime/redis_*.ts` | subscriptions per instance; a hash per convoy | publish, subscribe, record, snapshot | other instances of the gateway |
| **Convoy, vehicle and account services** `services/{convoys,vehicles,users,auth}.ts`, `routes/*.ts`, `db/schema/*.ts` | tables users, convoys, convoy_members, vehicles | create, join, leave, read, set destination, put and delete vehicle, delete account | PostgreSQL; the app over HTTP |
| **Position store** `realtime/position_store.ts` | last position of each member | save, replay | gateway |
| **Convoy socket client** `app/lib/core/realtime/*.dart` | channel, reconnect timer and attempt count, watchdog, queue of critical frames | connect, drain, send, reconnect, dispose | gateway; providers that rebuild it |
| **Hazard and plan notifiers** `.../application/{hazard,waypoint}_providers.dart` | pins and stops the device shows | report, remove, edit the plan, handle frames, expire | socket client |
| **Convoy providers and flows** `.../application/convoy_providers.dart`, `convoy_home_screen.dart`, `deep_link_join_screen.dart` | current convoy, its roster, the socket client derived from it | create, join, leave, roster poll | REST services, everything that watches the convoy |
| **Location pipeline and alert watchers** `gps_producer`, `location_publisher`, `convoy_session`, `proximity_warning_service`, `*_watcher` | sampling bucket, last emission, positions by member, breach clocks | sample, throttle, flush, detect, announce | platform location, socket client |
| **Push-to-talk** `features/push_to_talk/**`, `routes/ptt.ts`, native `PttAudioChannel` | press state, transport of the press, microphone, LiveKit room | press, release, join, fall back, receive | native audio, LiveKit, socket client |

Not modelled, because they keep no state whose order of changes matters: server
wiring and configuration, maps, routes and fuel estimates (geometry and
third-party services), CarPlay (a projection of positions), screens, theme,
branding, logging.

What makes the system hard:

* A device applies its own edits at once; the gateway relays them and remembers
  them for late joiners. Three copies of the same fact (device, gateway, other
  devices) must agree although connections come and go at any moment.
* The gateway's handlers await the database in the middle of a frame; handlers
  of later frames overtake them.
* A phone has a half-dead transport most of the time it has a problem at all:
  the client believes in a channel that takes frames and loses them, or in
  silence that is only quiet.
* Widgets and providers rebuild objects that hold undelivered data.
* A REST request is several SQL statements at READ COMMITTED, some in a
  transaction and some not.

`PROJECT.json` lists each such hazard under `hazards`, at its line, with the
properties that would catch it.

## 2. Modules

| Module | What it is |
|---|---|
| `ConvoyGateway` | gateway (one process, in-memory fanout and store), network, and the devices of one convoy |
| `MCConvoyGateway` | budgets, reporters and symmetry for its runs |
| `ConvoyBoard` | abstract: what the realtime layer promises, with no sockets |
| `ConvoyGatewayBoard` | refinement mapping from `ConvoyGateway` to `ConvoyBoard` |
| `ConvoyGateway_proofs` | types, the two ends of connections, delivery |
| `ConvoyBoard_proofs` | the abstract promise holds |
| `ConvoyGatewayBoard_proofs` | the gateway implements the board, step by step |
| `ConvoyGatewayUnbroken_proofs` | what holds as long as no link breaks and nothing restarts |
| `ConvoyService`, `MCConvoyService` | REST services and database, statement by statement |
| `ConvoyService_proofs` | types, one leader per convoy, complete deletions; without overlapping changes, rosters and errors |
| `RedisGateway`, `MCRedisGateway` | the gateway as several instances that share Redis |
| `RedisGateway_proofs` | registry and subscription agree, live frames in order and once unless published again, types, joiners settle, the snapshot is the latest, removal by the reporter only, sockets show the snapshot |
| `PushToTalk`, `MCPushToTalk` | push-to-talk of one device, from the button to the room |
| `PushToTalk_proofs` | recorder, frame subscription, rooms, fallback, microphone, peer connections, who is heard, who waits, types |
| `LocationPipeline`, `MCLocationPipeline` | positions from one member's GPS to another's map and warnings |
| `LocationPipeline_proofs` | types, throttle, newest position stored and shown, warnings |

A definition that follows a comment starting with *Slip:* is not part of the
model: it is a plausible mistake in the code, used to see that a property
notices it.

### 2.1 ConvoyGateway

One convoy. `up[c]` and `down[c]` are the frames on connection `c` in each
direction; `pool[c]` is the fanout's registration, `link[m]` the connection the
device of `m` uses. The two differ whenever one end has given up and the other
does not know yet, which is where most of the interesting states are. `armed` are
the devices whose inbound watchdog runs: the first audible frame of a connection
starts it, and an empty replay is no frame at all.

| Action | Code | Notes |
|---|---|---|
| `Report`, `Remove`, `EditPlan` | notifiers and `_sendCritical` | optimistic; queue only when there is no channel; a sink on a dead transport loses the frame |
| `Connect` | gateway route | membership check, registration and replay; the in-memory store answers within the turn |
| `ClientReady` | `_attemptConnect` | drains the offline queue in order |
| `ClientReceive` | inbound stream | one frame at a time |
| `HandleHazard` | `handleFrame` | relay and record in one turn; removal only by the reporter |
| `HandleTour`, `ResolveLeader`, `ResumeTour` | `handleFrame` | three steps: before the await, the query, after it. Handlers resume in any order |
| `Cut`, `ChannelLost`, `InboundSilence`, `CloseSocket` | TCP, watchdogs, heartbeat | a cut keeps any prefix of what was under way to the gateway |
| `RosterChange` | `convoySocketProvider` | the rebuilt client has an empty queue |
| `AppRestart`, `Leave`, `Join`, `ServerRestart`, `Expire` | | |

Abstracted: a hazard is an id that carries its reporter (the code makes ids from
the reporter's id and checks it), a plan is a model value, the waypoint slot is
the tour slot (same code path), gps, checkin and status frames change no shared
state. Time is left out: a timer is an action that may happen when its condition
holds, expiry an event per hazard.

### 2.2 ConvoyBoard and the refinement

`ConvoyBoard` says in one page what the members are promised: one board; every
change is one step that reaches everybody tuned in except its author; whoever
tunes in is handed the whole board. `ConvoyGatewayBoard` maps the gateway to it:
the board is the store without expired hazards, a member is tuned in while its
socket is registered, works and is still in use, and what it is due is what the
device shows once the frames on their way are handled. That the mapping works at
all is the point: relaying and recording must be one change, and a socket that
connects in between must miss neither.

### 2.3 ConvoyService

Each request is a record with the statement it is about to run (`at`); statements
of different requests interleave freely. `users` rows are numbered, so that a row
that is deleted and created again is another row. A transaction's writes appear
when it commits. `Locked`, `WaitsFor`, `InDeadlock` and `VehicleHeld` model the
row locks a deletion's cascade meets; a deadlock's victim is rolled back and
answered 500. Deadlock checking stays on: the only state without a step is the
one in which every request was answered.

`Overlap` is an assumption about clients: FALSE means that one person's changes
do not overlap each other, except that the deletion of the account overlaps
anything (it can come from another device, or follow a request that timed out on
the client only). Reading requests, such as the roster poll, always overlap.

Setting the destination is the request `aim`: it looks the convoy up, refuses who
is not its owner, and its UPDATE waits for a row another transaction holds. What
the destination is does not matter to any property and is left out, as are
reading the own vehicle, validation of bodies, and tokens that are refused before
anything happens.

### 2.4 RedisGateway

One convoy on several instances. An instance has three connections to Redis, each
a FIFO: `pubOut` publishes, `subOut` and `subIn` subscribe and receive, `storeOut`
and `storeIn` carry the snapshot store's commands and replies. Nothing orders
commands on different connections, and the frame handler awaits only the two
checks before a relay, so every command is a step of its own and Redis may be any
distance behind.

| Action | Code | Notes |
|---|---|---|
| `HandleHazard`, `HandleRemove`, `HandleTour` | `handleFrame` | a removal first asks the store who reported the hazard, a tour the database who leads |
| `ResumeRemove`, `ResumeTour` | `handleFrame` after its await | relay and record, or nothing |
| `RedisPublish`, `OnMessage` | `RedisFanout.publish` and its message handler | local sockets at once, others through the channel; the own echo is dropped |
| `RedisSubscribe`, `Connect`, `Close` | `register`, `unregister` | subscribe for the first socket, unsubscribe after the last |
| `RedisWrite`, `RedisGet`, `RedisGetAll`, `RedisPrune` | `RedisSnapshotStore` | Redis executes the store's next command |
| `ReplayBegins`, `ReplayGoesOn` | `snapshot`, gateway route | expired hazards are pruned one HDEL after another, the rest is sent |
| `Blip`, `PublisherBlip` | ioredis | a connection of an instance breaks and is made again: the subscriber's loses what it had not read; the publisher's loses the answers to a prefix of the PUBLISHes under way, and ioredis sends everything unanswered again |
| `Crash`, `Outage`, `Expire` | process, ioredis, `expiresAt` | an outage exhausts the retries: logged, or, where nobody awaits, the end of the process |

The code promises less here than on one process, and the properties say exactly
how much less: `dirty` are the fields written while a socket was joining, `torn`
those whose writes went through two instances at once or into a failure,
`failed` the instances for which a command was given up, `resent` the frames that
were executed and published again. These history variables are set by the step
that opens the race, never by its outcome. Left out: a break of the
store's own connection, after which ioredis sends its unanswered commands again
in the same order (so an HSET or HDEL takes effect twice, and the last one of a
field is the same; what another instance wrote or a joiner read in between is in
the fields that `torn` and `dirty` except already; this is an argument, not a
check); the time
to live of the hash (renewed by each record, it outlives any drive), `clear`
(nothing calls it) and `close` on shutdown.

### 2.5 PushToTalk

One device. Every `await` after which something shared is read or written is a
gap between two actions, and the futures that continue on one completed future
run before the next event (`Resumed`). The platform channel answers in the order
of the calls (`calls`); LiveKit's microphone calls are answered in any order
(`micCalls`). A press is known by its number, a room by the number of the join
that made it, so that a late answer can be told from a timely one.

| Action | Code |
|---|---|
| `PressDown`, `Release`, `Interrupt` | button, `PttStateNotifier.startTransmitting` and `stopTransmitting`, loss of the audio focus |
| `RecorderStarts`, `RecorderRefuses`, `RecorderStops` | native recorder and what the notifier does with its answer, routing included |
| `Enter`, `Leave`, `LoseRoom` | `livekitPttSessionProvider`: built, disposed of, told of a lost room |
| `TokenAnswered`, `Connected`, `ConnectFails`, `Muted`, `MuteFails` | `joinLiveKitPttSession` await by await: the token route, `connect`, the mute and the check whether the provider is still there |
| `Resume`, `MicDone`, `MicFails` | `FallbackPttRepository` and `LiveKitPttRepository` after their awaits, with the generations they compare |
| `PeerCreated`, `ChannelCreated`, `PeerOffered`, `OfferSent`, `SetupFails` | `WebRtcDataChannelPttRepository.startTransmitting` await by await; `setLocalDescription` and the write of the offer are one, since nothing is read between them |
| `ChannelClosed`, `PeerClosed`, `PeerDisposed`, `StopFails` | its `stopTransmitting` await by await: `_dc` and `_pc` are read anew after each |

A join that was disposed of goes on: it connects, beside the room of the new
session, and the server ends the other connection of the identity (`Connected`);
its room is closed only after the mute (`Muted`). A room that is lost before that
check has no callback yet, so that no new join is begun (`LoseRoom`).

What the code really does wrong has a name, so that the properties hold up to it
and everything else is still excluded. `odd` names races: the stop of an earlier
press ends a later one (`crossed`), a release before the recorder has started
leaves a subscription (`tapped`), the mute of an earlier press silences the next
(`lateMute`), a failed unmute leaves `_active` set, so that later presses are
ignored (`micFailed`), the room of a press is lost or left (`roomGone`), and a
room lost before its join is over leaves a session without one for good, against
the comment at `livekit_ptt_session.dart:65-68` (`lostEarly`). `spoilt` holds the
presses whose P2P setup failed or ran beside another setup or a stop: their peer
connection may stay open or be dropped, and the late failure of an earlier press
resets the transport of the present one. Each is set by the step that opens the
race, and each is as narrow as TLC allowed: without it the property is violated,
with it it holds. So `RecorderFollows` does not catch the second stop that meets
the next press, only every other way in which recorder and button part; the
hazards say of each property what its excuse hides.

Left out: the receiving side of the P2P prototype, playback, the codec, the iOS
twin of the recorder, and a proxy that answers 503 while the backend restarts,
which the code takes for "not configured".

### 2.6 LocationPipeline

Two members: the mover, whose fixes are sent, and the watcher, who sees and is
warned of them. Time is in seconds; `Tick` waits for a timer that is due. A fix
has a place (near, in the release band, far) and its speed sets its window.

| Action | Code |
|---|---|
| `Fix`, `FlushPending` | `LocationPublisher._onUpdate`, `_flushPending`; `Emit` goes on to `handleFrame`, which relays and starts a save |
| `Saved`, `SaveFails` | `positionStore.save` on a pooled connection: done in any order |
| `Connect`, `Read`, `ReadFails`, `Replay`, `Drop` | gateway route and `loadSnapshot`: read, and sent after what was relayed meanwhile |
| `SelfFix` | `ProximityWarningService.ingest` of an own position |

`Take` is the watcher's session: the proximity service takes every position, the
map only one that is not older than its own. `odd` holds what went wrong since the
newest fix was sent (`lost`, `older`, `failed`, `unread`, `unsaved`) and is emptied
by the next newer fix that is sent, which is what makes up for it in the code. The
sampling buckets of `GpsProducer` are left out: they only change how often the
operating system delivers, and here it may deliver in any second.

The publisher's comment promises at most one update per interval. The code keeps
less: a fix whose window is shorter than that of the fix before it may be sent at
once, and the flush timer armed before then sends the next one within the window.
`Throttled` states what does hold, that no third fix is sent within the shortest
window, and `prevEmit` is the history variable it needs.

## 3. What the runs check

| Run | Expect | Shows |
|---|---|---|
| `gateway_live` | pass | types; the ends of a connection agree; every connected member learns every tracked hazard and the recorded plan, with a transport that breaks and a false silence alarm; a removed pin comes back to its reporter by the replay of a new connection only; a tracked hazard reaches every member in the end, unless it hangs on a link that broke before its watchdog was armed |
| `gateway_board` | pass | the same with process and app restarts, leaving and joining, a rebuilt client and expiry; the gateway implements `ConvoyBoard` |
| `gateway_calm` | pass | on links that do not break: no ghosts, no lost report, no frame that changes the leader's own plan |
| `gateway_reorder` | violation | two plan edits in order over one socket, the older one wins |
| `gateway_ghost` | violation | a removal that falls into a disconnection never reaches the device |
| `gateway_rebuild` | violation | the roster poll discards a report that waits in the offline queue |
| `service` | pass | one leader per convoy, complete deletions, complete rosters without duplicates, explained errors, no request that waits forever |
| `service_erased` | violation | a request under way brings a deleted user back |
| `service_twice` | violation | two overlapping saves leave two vehicles |
| `redis` | pass | registry and subscription agree; live frames in order, and twice only when published again; the shared snapshot is the latest; devices and late joiners agree; removal by the reporter only, across instances |
| `ptt` | pass | recorder, microphone, rooms and peer connection follow the button through every order of the answers, up to the named races; one frame subscription; fallback only where LiveKit is not configured; nobody waits for a session that no join will decide |
| `location` | pass | no third fix within a window; the newest position is stored and shown; warnings follow the positions, once per approach |

The five violations are disagreements between the code and what its comments,
documentation or the code's users are told; `findings` quotes both sides.

**Bounds.** Gateway: the leader and one other member, so that there is an author,
a peer and a role check; three connections, so that a device can be on its second
connection while the first is still registered and a third is free; one or two
hazards and plans; two to four edits. `Budget` bounds every kind of failure in
the guard `Spend`, one each except where a run is about edits. Two members are
enough to distinguish author and peer, the only roles a relay knows; the proofs
of the delivery properties cover any number. Service: two people, two convoys,
four requests from empty tables; three requests from tables in which everybody
owns a convoy and is in everybody's (`Past`, `Spent`), the shortest start from
which two deletions deadlock. Redis: two instances (a local and a remote one),
one socket each for author and peer (they may share an instance), two frames, so
that a report and its removal or a report and a plan are under way together, and
one fault. Push-to-talk: two presses, three joins, one break and two attempts, so
that a press, its interruption and its release, and the next press can all be
unanswered at once, a failing setup or stop meets the next press, and a disposed
join connects beside the next one, which a third replaces. (Two breaks were
explored to the end, too, without a violation: 12.6 million states, too many for
a run kept here.) Location: four fixes on `MCTrack` (near, at the edge,
away, and back; any of them may be lost or late), windows of 3 s and 1 s, staleness after 1 s, fixes
up to second 4, the watcher's own GPS in second 3, one fault. Larger instances
were explored at random or to a depth without a violation: four frames and two
faults on Redis, five presses with four joins and four breaks, seven fixes at any
place with two faults, six edits with several faults on the gateway, three people
with six requests on the service.

**Fairness** (`ConvoyGateway!Fairness`). Weak fairness of the gateway's event
loop and the database behind it, of delivery on a transport that works, of the
device's event loop, and of redialling: the client arms one timer after every
loss and the backoff is bounded by 30 s. That a broken link is noticed is fair
only on a device that is `armed`: the watchdog is armed by the first inbound frame of
a connection, and `channel.ready` is awaited without a timeout. A device whose
link breaks before that may hang for good, and `HazardReachesAll` promises
nothing about it. Weak fairness is enough because each of these stays enabled
until it happens or its connection goes. No fairness for users, failures, roster
changes and restarts, and none beyond the gateway: the token request of
push-to-talk, say, has no timeout, so that no run claims that a join ends. The
other runs check safety only; "once nothing is under way" is a condition of their
properties, not an assumption that it comes true.

## 4. What is proved

`ConvoyGateway_proofs`, for any number of members, connections, hazards and plans
and any budget of failures, from `GatewayAssumption`:

* `TypeCorrect` and `EndsAlwaysAgree`. `EndsAgree` is inductive with the types:
  a device's link is registered for that device unless the gateway gave up on a
  dead transport, and everything the gateway still has to handle on a connection
  was sent by the member it is registered for. It is what makes the reporter-only
  removal meaningful.
* `HazardsReachPeers` and `PlanReachesPeers`. `PeersLearnHazards` alone is not
  inductive: a removal in flight from somebody else than the reporter would break
  it. `DeliveryInv` adds the types and `EndsAgree`. The argument: what a device
  ends with is a function of what it shows and the frames on their way
  (`Shows`, `HasPlan`); appending a frame acts on that function as the frame does
  (`ShowsAppend`, `HasPlanAppend`), handling the head leaves it alone
  (`ShowsTail`, `HasPlanTail`); so each relay step adds to every tuned-in member
  what it adds to the store.
* `RemovedReturnsByReplayOnly`, an action property, whatever breaks, restarts or
  is replaced: a relay to the reporter itself is impossible on any of its
  overlapping connections, so a removed pin can come back with the replay of a
  new connection and in no other way. That way is real: the queued removal is
  sent behind the request for the replay, and removals are not echoed.

`ConvoyBoard_proofs`: `PromiseKept`, the abstract board gives everybody tuned in
the whole board.

`ConvoyGatewayBoard_proofs`: `GatewayImplementsBoard`, every initial state and
every step of the gateway, whatever breaks or restarts, maps to one of the board
or leaves the board alone. It needs `DeliveryInv` and `Decided`: whoever is tuned
in ends with a plan. The steps fall into those the board does not notice (edits
on a device, frames on their way up, a device that handles a frame it was already
due), those by which members tune in or out (connect, cut, give up, restart), and the three that
change the board itself: a relayed hazard or removal, a relayed plan, an expiry.
For these the lemmas about `Shows` and `HasPlan` are equivalences
(`ShowsAppendExact`, `ShowsTailExact`, `EndPlanIs`): what a device is due must
equal what the board says, no less and no more. The proof found a slip in the
abstract board that no run could show: the cases of `TuneIn` overlapped, and TLC
takes the first of overlapping cases while the logic may take either.

`ConvoyGatewayUnbroken_proofs`: `NoGhostsUnlessBroken`,
`NoReportLostUnlessBroken` and `LeaderUndisturbedUnlessBroken`. They are theorems of `Spec /\ []Unbroken`:
`Unbroken` says that no break, restart, departure or rebuild has used its budget,
while edits, expiry, joins and every interleaving of frames and handlers go on.
That hypothesis is what `gateway_calm` builds into its budgets, and it is needed:
`gateway_ghost` and `gateway_rebuild` show two of the properties lost after one
break. `UnbrokenInv` says that a registered connection is the one its device uses
(`LastingLinks`), nothing is sent before the device is ready
(`SilentUntilReady`), the gateway knows nothing of a member who has not connected
and a new device nothing of the others (`Newcomers`), no frame on its way to a
device is about the device's own reports or, to the leader, a plan (`NoEcho`),
and the store together with what a device has sent or queued ends with every
report the device shows (`ReportsOnTheirWay`).

`ConvoyService_proofs`, for any number of people, convoys and requests, whether
or not one person's changes overlap, from `ServiceAssumption`:

* `ServiceTypeCorrect`; `OneLeader`; `DeletionComplete`. The invariant
  (`ServiceInv`) adds the foreign keys (`Referential`) and what a request carries
  at each statement (`Carries`): a user row that was minted at some time. A row
  that is gone stays gone because a recreated row has a new number
  (`GoneStaysGone`), and foreign keys turn "no user row" into "no row at all".
  Row locks are not needed for any of the three.
* `OneEntryUnlessOverlapping`, `JoinerListedUnlessOverlapping` and
  `ErrorsExplainedUnlessOverlapping`, theorems of `Spec /\ ~Overlap`; the run
  `service_twice` shows the first one lost with `Overlap`. `OrderlyInv` starts
  from whose statement a request runs and that no two changes of one person are
  under way (`Orderly`). From it follows that what a request has read stays so
  until it writes, for the rows of that person: every vehicle there is at the
  INSERT is one the DELETE found (`OneVehicle`); at "insert" there is no
  membership row, at "rejoin" there is one, and who created or joined is in the
  convoy until the reply, as long as convoy and account exist (`Seated`). The
  deletion of an account is the one thing that may come in between:
  `Undisturbed` says that before the first one, every convoy and account the next
  statement refers to exists and nothing was answered 500. New convoy ids and row
  numbers are what keeps "does not exist any more" true (`PresentBefore`).

`RedisGateway_proofs`, for any number of instances, sockets, frames and faults,
from `RedisAssumption`:

* `NoDeafInstance`. `RegistryInv` says of each instance that was not given up: if
  nothing is on its way the subscription is what the registry asks for, otherwise
  the last command on its way is. A broken connection keeps it because ioredis
  puts its own SUBSCRIBE in front of what is pending.
* `LiveFramesInOrder`. `OrderInv`: `pubOut`, `subIn` and `heard` hold each
  instance's frames in increasing order, and for each origin what was heard comes
  before what was pushed, which comes before what is still to be published. The
  own frames are heard ahead of all of that, which is why their echo must be
  dropped. A frame that is published again joins `resent` and is excepted, alone:
  the frames around it keep their order.
* `RedisTypeCorrect`. `GatewayTyped` adds to the types what the queues may hold
  (frames that were relayed, reads of connections that exist). The later proofs
  rest on `EveryStep`, which says of each kind of step, a relay, a command taken
  or answered, a socket that comes or goes, a failure, what it does to which queue.
* `JoinersAlwaysSettle`. `Awaited`: the replay of a socket that has not had it is
  somewhere between the HGETALL asked and the snapshot pruned, unless its
  instance gave up.
* `SnapshotHoldsLatest`. `StoreInv`: the writes an instance has under way are in
  the order of the log and all go through the same instance unless the field is
  torn (`WriteOrder`, `OwnWrites`, `SameWay`), a prune is about an expired hazard
  (`PrunesExpired`), and the latest frame of a field is what the hash holds or its
  write is under way (`LatestStored`, `HasLatest`).
* `OnlyReporterRemoves`, an action property. `RemovalsInv`: whoever is not the
  reporter asks "who reported this?" after the report was written or behind it on
  the same connection (`AsksBehind`, `AsksHere`); told that the hazard is not
  tracked, or having removed it then, it finds it gone, and the reporter has
  removed it before (`ToldGone`, `RemovedGone`).
* `SocketsShowTheSnapshot`. `JoinInv` follows each socket and each clean field, a
  field neither written while the socket joined nor torn nor expired: before the
  replay nothing of the field is under way and the replay carries what the hash
  holds (`Joins`); afterwards the device shows the latest frame of the field, or
  that frame is due to it, and frames that are due are the last of their field
  (`Follows`). With `StoreInv` the two meet when nothing is under way. `LogInv`
  says how often a field is written and by whom, `OneRead` that a socket has one
  replay at most, `ClosedEmpty` that a closed one shows nothing.

`PushToTalk_proofs`, for any number of presses, joins, breaks and attempts, from
`PttAssumption`:

* `RecorderObeys` and `FramesOnce`. `RecorderInv` adds to the types of the calls
  under way what they can be: only the present press can have a start under way,
  with nothing of that press before it; an idle device does not record and is not
  about to; one that transmits records, or a call of its press is under way. What
  an earlier press leaves in the queue is stops, and a stop that meets a later
  press is what `crossed` stands for.
* `RoomsClosed`, `FallbackJustified` and `WaitersAreServed`. `SessionInv`: every
  room belongs to the session or to a join that still mutes it, and a join is
  under way for a session that says so (`Joined`: `JoinsKept`, `RoomKept`); "not
  configured" is heard from no backend that is (`HeardRightly`), and presses are
  counted (`Counted`).
* `IdleIsMuted`, `IdleHasNoPeer` and `HolderIsHeard`. `AirKept` adds who is on the
  air: what a start waits for is what its session still owes it (`Waits`); later
  presses have later generations, and an idle device has none that counts
  (`InOrder`); LiveKit only where it is configured, P2P only after the fallback
  (`Sides`); a call that unmutes for the present generation is about the active
  room, and at most one start of it waits (`MicOwned`); a microphone that is on is
  the active room's or about to be muted (`MuteKept`); a setup that is not spoilt
  has its own peer connection and no stop beside it (`SetupKept`), and one that is
  open is the present press's, being closed, or spoilt (`OpenKept`); the press that
  transmits is heard or on its way to be (`HeldKept`). The last three hold up to
  `odd` and `spoilt`, each up to its own part.
* `DeviceTypeCorrect`, from `DeviceInv`, which adds that a held frame subscription
  is counted (`FramesHeld`).

`LocationPipeline_proofs`, for any windows, track, times and number of faults,
from `LocationAssumption`: `LocationTypeCorrect`, `NoThirdWithinWindow`,
`NewestIsStored`, `NewestIsShown`, `WarningsRight`. The invariant has a part per
stage: a fix that waits is the newest, or the newest was sent meanwhile, and its
timer lies a window after the send before the last (`PublisherInv`); the newest
fix, unless it waits, is in the store or among the saves, or `odd` says why not
(`StoreInv`); a connected watcher's map shows it, or its replay has read or will
read it (`MapInv`); and nobody has a warning counted who is not warned of
(`WarnInv`).

With these every invariant and every action property that a passing run checks is
proved too, for every value of the constants its assumption admits. Only
model-checked, because they are about what must happen: `HazardReachesAll`
and the absence of deadlock, which need fairness or ENABLED, beyond
this prover. The five violations are TLC's counterexamples; where a theorem names
the same property, its hypothesis (`[]Unbroken`, `~Overlap`) is what the violating
run gives up.

## 5. Plan

Done: the gateway on one process and on Redis, the services, push-to-talk, the
location pipeline, and the proofs above. Left, the most important first:

1. Weaker hypotheses for the theorems that have one: which of the members' breaks
   `NoGhosts` and `NoReportLost` survive (a break of another member's link, say),
   and which pairs of one person's changes may overlap in the service.
2. The timers and attempts of the socket client and the bound of its queue: one
   timer per loss, the newest critical frames survive. `ConvoyGateway` has the
   client's channel and queue; its time and its bound are left out there.
3. The alert watchers: breach clocks, cooldowns, the wakelock; no announcement
   repeated within its cooldown, no state of the last convoy in the next.
4. The create and join flows: a request that timed out on the client only, and is
   tried again.

Runs are kept few: one passing run per question, and a violation only for a real
disagreement.
