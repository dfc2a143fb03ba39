# elasticsearch-asg in TLA+

Specifications of the services that run an Elasticsearch cluster on AWS AutoScaling groups, of both
generations of the code (`v2/`, and v1 in `cmd/`, `pkg/` and the root package), translated from the
source; `PROJECT.json` maps every definition to the lines it stands for. TLC checks each
specification on small instances; TLAPS proves every safety property the passing runs check, and that
the drainer implements an abstract exclusion list, for every instance.

## 1. The system

Each service is a process of its own; they meet only in Elasticsearch and in AWS. All of them end
on an error they cannot handle (`logger.Fatal`) and rely on being started again.

| Component | State | Operations | What is hard |
|---|---|---|---|
| drainer (`v2/internal/app/drainer`) | exclusion list (in Elasticsearch), `settingsMu`, `clusterState`, listeners, contexts | `DrainNodes`, `UndrainNodes`, `GetState`, `updateClusterState`, the two event handlers, `Main` | concurrent read-modify-write of the list, events missed or stale, cancellation, restart with empty memory |
| its postponer | timers, cached hook, the code's idea of the deadline | `Postpone`, `describeLifecycleHook` | timers against the clock of the group, rejected and cancelled heartbeats |
| its event flow | SQS, the event bus, channels, the batch | `Run`, `receive`, `delete`, `batchEvents` | deletion before handling, backpressure, shutdown |
| throttler (`v2/internal/app/throttler`) | one state machine per group | the round of `Main`, `Enable`, `Disable` | cached state, partial failure, conditions read one after the other |
| snapshooter (`v2/internal/app/snapshooter`) | the snapshots of the repository, the ticker | the loop of `Main`, `repositoryService` | skipped ticks, deletions cut short, restarts |
| retention (`v2/pkg/retention`) | none | `Keep`, `Delete`, `redistributeBackups`, `squash` | boundaries of buckets, repeated application |
| cloudwatcher (`v2/internal/app/cloudwatcher`) | cache of instances | `getStats`, `getInstances`, `pushCloudwatchData` | two inventories read at different times |
| es, events, glue (`v2/pkg`, `v2/internal/pkg`) | none | requests, JSON, flags, metrics | - |
| v1 lifecycler (`cmd/lifecycler`, `elasticsearch_*.go`) | exclusions, voting exclusions and their count | `handlerFn`, `Drain`, `Undrain`, `Nodes` | shared counts, clean-up on error paths, concurrent requests |
| v1 `pkg/lifecycle` | the event with its count of heartbeats | `KeepAlive` | a deadline reckoned from a count that a restart carries on |
| v1 `pkg/squeues` | messages in flight, timers of their visibility | `RunWithContext` | results in any order, visibility changed while a message is deleted, shutdown |
| v1 snapshooter (`cmd/snapshooter`), `pkg/time` | the next time, the goroutines at work | `createSnapshot`, `deleteOldSnapshots`, `next`, `keep` | goroutines of several times at once |
| v1 healthcheck (`cmd/healthcheck`, `pkg/es/health`) | `initialShards`, `doneOnce` | `CheckReadyRollingUpgrade`, `CheckReadyJoinedCluster` | state shared by concurrent requests |
| v1 cloudwatcher (`cmd/cloudwatcher`), `pkg/str` | cache of vCPUs | a round, `metricsCollector` | rounds at once, figures that both generations push |

**Drainer.** `Main` polls Elasticsearch once, starts the poller and `CloudWatchEventEmitter.Run`,
registers its listeners and then starts a goroutine for each event: `handleSpotInterruptionEvent`
drains a batch of nodes; `handleLifecycleTerminateActionEvent` drains one node, postpones the
lifecycle action until the poller announces the node as empty or removed, and completes the action.
Handlers and poller share `settingsMu` and the event bus; an error of any of them cancels the
errgroup's context. Correct means: no drain is lost, no event releases a node that the poll behind it
saw with shards, no handler waits for ever, exclusions do not pile up, no event vanishes.

**Throttler.** Every round it reads the health, the recoveries and the ECS services and enables or
disables all groups. Correct means: what the enablers remember is true, a round takes effect on
every group, scaling is resumed only on evidence.

**Snapshooter.** Every interval of the retention policy it takes a snapshot and deletes what `Delete`
returns. Correct means: it goes on for ever, the newest and the recent snapshots survive, older ones
are thinned out without gaps wider than the policy's buckets.

**Lifecycler (v1).** The dispatcher starts a handler for each SQS message, which drains the node,
excludes it from voting, keeps the action waiting until the condition holds and cleans up. For each
heartbeat it sends a message with the new count and deletes the old one, so that a restarted process
picks up where it left off. Correct means: an action that still waits always has its message, the
voting exclusions of one handler survive the clean-up of another, no message has two handlers, each is
deleted in the end. Of exclusions from allocation it guarantees nothing (section 3).

**Snapshooter (v1).** It sleeps until some window asks for a snapshot and starts a goroutine for it.
Correct means: no time still to come is passed over, what a window asks to keep stays, what none asks
for goes.

**Cloudwatcher.** Correct means: nodes meet their own instances, each figure is pushed once, both
generations agree on what they both push.

**Healthcheck.** Correct would mean that a check which passes for good has seen a list of shards that
earns it; the code guarantees less (section 3), and only its types are checked.

`PROJECT.json` lists the hazards of this code line by line with the properties that cover each.

## 2. The modules

| Module | Models | Read first |
|---|---|---|
| `Drainer` | handlers, listener, poller, `settingsMu`, shutdown and restart; Elasticsearch and the group around them | `HandlerNext`, `PollerNext` |
| `Postponer` | `Postpone` with its timers and the clock of the group | `Tick`, `HalfWayTo` |
| `EventFlow` | SQS, `Run`, the bus and its channels, `batchEvents`, the loop of `Main` | `Run`, `NothingVanishes` |
| `Throttler` | the round of `Main` and the enablers | `SetGroup` |
| `Retention` | `Keep` and `Delete` as operators, panics included | `Keep` |
| `Snapshooter` (extends `Retention`) | the ticker and the loop of `Main` | `Plan` |
| `Exclusions` | the abstract list of excluded nodes: atomic additions and removals | `Next` |
| `Lifecycler` | v1: `handlerFn` with the cluster, the group and the queue around it, and crashes | `Enter`, `Unvote` |
| `KeepAlive` | v1: the timers of `KeepAlive` against the clock of the group | `CheckAt`, `AnswerHeartbeat` |
| `NodesQuery` | v1: `Nodes`, four requests at once and its `select` | `Answer`, `Finished` |
| `Dispatcher` | v1: `RunWithContext` and its goroutines, with SQS | `TakeNotice`, `TakeDone` |
| `Windows` | v1 snapshooter: the loop and its goroutines | `Next1`, `Look` |
| `NodeMetrics`, `Cloudwatcher` | the figures of both generations as operators; their rounds, caches and batches | `Aggregate`, `Metrics`, `Paired` |
| `Health` | v1 healthcheck: concurrent `/ready` requests | `Blocked`, `Pass` |
| `DrainerProofs`, `EventFlowProofs`, `LifecyclerProofs`, `KeepAliveProofs`, `SnapshooterProofs`, `DispatcherProofs` | theorems about the module of that name | `IInv` |
| `ServicesProofs`, `LoopsProofs` | theorems about `Postponer`, `NodesQuery`, `Windows`, `Health`, `Cloudwatcher` and `Throttler`, and about the sums `MCServices` and `MCLoops` | `IInv`, `QueryInv`, `WindowsInv`, `CloudInv`, `LifecyclerIsPart` |
| `MCDrainer`, `MCSnapshooterLong` | symmetry, policies and histories for TLC | |
| `MCServices`, `MCLoops` | several parts in one run each, and values of their constants | |

`MCServices` and `MCLoops` are sums of programs that share nothing. The variable `program`, chosen
initially, says which part runs; the others keep one initial state. An invariant of the sum is the
conjunction of those of the parts, and an action property of one part is one of the sum. The parts
themselves know nothing of each other; each has a specification of its own.

**Correspondence.** An action is what the code does between two points where another goroutine, a
request or a crash can come in between.

- `Drainer`: `pc[h]` is where a handler is (`drain`: waiting for `settingsMu`; `put`: between GET
  and PUT; `describe`, `await`, `beat`: inside `Postpone`; `complete`). `sub[h]` is the handler's
  listener, which registers in two steps (`half`, `listening`) and cancels `postponeCtx` in a step
  of its own (`fired`, `ended`). `pollPc`, `todo` and the `seen...` variables are `GetState` with its
  three requests answered in any order. `settingsMu` has one reader only, the poller, so a lock with
  one holder stands for the RWMutex. `excluded` is the transient setting, `fetched` the copy a
  goroutine holds between GET and PUT. A failing PUT may have been applied. `Postpone` is
  reduced to its outcomes here: its timers may fire at any time. Of the emitter of CloudWatch events
  this module knows that it may fail (`EmitterFails`) and that, once `Main` is in `eg.Wait`, it may wait
  for ever for room in a channel (`emitter = "stuck"`); how it gets there is in `EventFlow`. `late` is a
  history variable: the nodes whose shards came after the poll under way had read the shards, kept
  for as long as a handler acts on that poll's event.
- `Postponer`: time is counted in ticks. `deadline` is the group's, which starts the hook's timeout anew
  at the time it records a heartbeat; `timeout` is the code's, which adds the timeout to the one before
  and so runs ahead of the group's.
- `EventFlow`: `queue` is SQS, where a message in flight may reappear; `pushing` holds the goroutines
  of `Emit` that wait for room in a channel. `handled` is a history variable, kept only while a
  message is not deleted.
- `Throttler`: `fsm` holds the enablers' states, `touched` the groups somebody else changed since
  their enabler last knew them, `wasGood` the conditions that held at some time in this round.
- `Retention`: a time series is a sequence with the duplicates `squash` leaves; a computation that
  indexes past a slice or dereferences a nil bucket has `panic` set. The square roots of the code are
  compared in squared form. Slices that share an array are not told apart: the first `Push` aliases
  its argument, but nothing later writes below the length of that slice.
- `Snapshooter`: `todo` is what remains of the list of `Delete`. The time is that of `Retention`;
  two snapshots cannot have the same name, hence not the same time.
- `Exclusions`: `excluded` is the list, `awaited` the nodes whose termination handler has excluded
  them and waits. `Drainer!ImplementsExclusions` maps `excluded` to itself and `awaited` to
  `Drainer!Awaited`, the nodes of the handlers that wait, as long as they are in the cluster.
- `Lifecycler`: `pc[h]` follows `handlerFn` and the calls it makes; `keep` is inside `KeepAlive`,
  `check` and `beat` its steps, `unvote` to `unput` the deferred clean-up. `votingLock`
  and `votingCount` are those of `main`, `count` is `HeartbeatCount`, which a goroutine takes back
  while others read it. `why` is what `KeepAlive` returned. A message stays in `queue` until it is
  deleted. Its handler is started by any message nobody handles: which message is received when is
  the concern of `Dispatcher`. Drains of v1 are not serialised: each handler has its own
  `settingsMu`, so two handlers may both be between GET and PUT. After a crash between the new message
  and the deletion of the old one two handlers may keep one action: heartbeats beyond `MaxBeats` are
  recorded, but the global timeout lets them extend nothing (`Extended`). When an action may expire is
  what `KeepAlive` shows: not while a handler with the right count keeps it until its first
  heartbeat (`Kept`), but at any time after that. A handler whose count is ahead of the heartbeats recorded
  may or may not find its event expired (`Enter`).
- `KeepAlive`: time in ticks since the action started; `count` is carried on from the message that
  started the handler. `startCheck` and `stopCheck` are `check`; the goroutine of a heartbeat is `beat`.
  `deadline` is the group's: a heartbeat starts a period of `HeartbeatTimeout` at the time it is recorded,
  while `CheckAt` goes by the start of the action and the count.
- `NodesQuery`: `state` and `answer` are the goroutines with their channels, `try` is `tryCounter`.
  Whether `nodes` notices an error depends on where it is when the request fails and on which case of
  its `select` is chosen. `had` is a history variable: the nodes that had shards all through a try.
- `Dispatcher`: every goroutine, channel and timer of `RunWithContext`. Sends on unbuffered channels
  are taken by the loop; `late` holds what was ready before the last tick and must happen before the
  next one, so that nothing but handlers and polling is late by more than a tick. A message received
  twice is a second receipt.
- `Windows`: `job[t]` is the goroutine of time `t`. Elasticsearch refuses a snapshot operation while
  another runs, which the code takes for an error. A sleep may end after the time due next. `old` is a
  history variable: what no window asked for when a goroutine listed the snapshots.
- `Cloudwatcher`: `generation` says which one runs; v1 starts a goroutine at each tick, v2 does one
  round after the other. A list of nodes or instances is sorted by name: `InOrder` makes it from how
  often each name is in it. What is computed over the nodes seen is a function of their positions in
  that list, and a role takes a part of them with their positions. `NodeMetrics` has the utilization of v2 as a fraction before it is divided,
  and of v1 as the two sums.
- `Health`: `initialShards` is a set of shards in the code, but all shard ids are the same empty
  string: it is nil, empty or has them all. Each listing has any set of states, UNASSIGNED included.
  The test whether the list is the first, its making, its filling, the loop over the shards
  (`Judge`) and `doneOnce` (`Pass`) are steps of their own, as nothing locks them. Scrapes of `/metrics` run
  the same checks as `/ready`.

Definitions marked `(mutant)` are plausible slips, each of which makes the property it is for fail;
no specification uses them.

## 3. What TLC checks

| Run | Shows | Bounds |
|---|---|---|
| `drainer_safety` | `TypeOK`, `AwaitedIsExcluded`, `ReleasedOnEvidence`, and that `Drainer` implements `Exclusions` (`ImplementsExclusions`) | two nodes, one termination handler, one spot handler, batches of one, failures and crashes at any point, nodes leave, shards are allocated at any moment; @SAFETY@ states |
| `drainer_exclusions` | `SettingsExclusive`, `NoLostExclusion` | two nodes that leave and come back, two handlers of batches of up to two, failures and crashes; 1.8 million states |
| `drainer_live` | `DrainedIsReleased`, `ShutdownCompletes`, `ExclusionsCleanedUp` | one node, one handler of each kind, shards allocated meanwhile; the emitter may hang |
| `events` | `DeletedIsEmitted`, `NothingVanishes`, `EventsFlow` | one message of each kind, channels of one, so that redelivery fills them; failures and crashes |
| `loops` | throttler: `EnablersAreFaithful`, `GroupsFollowVerdict`, `ResumeJustified`, `SuspendsWhenBad`, `ResumesWhenGood`; dispatcher: `WithinLimit`, `OneHandler`, `EveryMessageDone`, `EndsOnError`; `LoopsTypeOK` of both | throttler: two groups, one service, one failure, one change by somebody else; dispatcher: two messages, one handler at a time, one failure or crash, visibility of 6 to 8 ticks renewed 5 before its end |
| `services` | `TypesOK`, and the parts below | 0.81 million states |

The parts of `services`, each a question of its own:

| Part | Shows | Bounds |
|---|---|---|
| `Postponer` | `TimeoutIsReal`, `ExpiresAtHeartbeat` | a timeout of 6 (reconfigured up to 8, which the cache does not notice) and a global one of 24 ticks, delays of 1 and 2: enough heartbeats for the code's deadline to be 5 ticks ahead |
| `Lifecycler` | `VotingKept`, `VotingCleared`, `NeverForgotten` | two master-eligible nodes, two handlers, three messages, one failure or crash; two terminations with one heartbeat before the global timeout, or two launches with two, so that a count can be ahead of the heartbeats recorded |
| `KeepAlive` | `KeptUntilCheck` | a timeout of 9 and a global one of 24 ticks, a buffer of 3, a message with up to three heartbeats behind it |
| `NodesQuery` | `ShardsAreTold` | two nodes that join, leave, gain and lose shards at any moment, two tries |
| `Snapshooter` | `NewestSurvives`, `RecentSurvive`, `NoGapOpens` | every repository of up to two snapshots at any of 13 times, policies of at most one bucket of 4 and one of 8 units, one failure and any panics |
| `Windows` | `NothingSkipped`, `WantedAreKept`, `OldSnapshotsGo` | a window every 4 that keeps for 4 and one every 6 that keeps for 9, two goroutines at once, late by up to 3, so that a sleep may end after the time due next, one failure or crash |
| `Cloudwatcher` | `PairingHolds`, `PushedFigures` | two names, each listed up to twice, two rounds, batches of 20, three clusters of nodes of different roles |
| `Health` | its part of `TypesOK` | two requests, all lists of shard states, the node leaves and joins |

Every interleaving that matters takes two writers of the exclusion list and the poller, or one
handler with its listener and the poller; a second node tells apart what concerns a handler's own
node. Two groups are enough for a round that fails half-way; the order in which services are read is
told apart by the conditions that are read before and after them. Two handlers are enough for one to
clean up under the other, three messages for both and the replacement of one. Two snapshots and the
one the loop takes are enough for an empty, a single and a crowded bucket next to each other; widths
of 4 and 8 units make a quarter of the smallest bucket one unit. Windows every 4 and 6 have times of
their own and a common one. `CHECK_DEADLOCK FALSE` in `services`: several parts come to their bounds,
and a program that ended by itself stays ended; in `drainer_live`: a process whose emitter hangs stays
so. Of the steps of the modules TLC takes every one.

### What the code does not do

| Run | Property | |
|---|---|---|
| `batch` | `SpotBatchDrained` | `DrainNodes` returns at the first name that is excluded already and drops the rest of the batch (`elasticsearch_facade.go:105-107`). |
| `beat` | `OnlyFailuresStop` | With no request failing the drainer stops: a heartbeat cancelled by the drained event is taken for an error (`app.go:354-358`). |
| `cancel` | `CompletedOnEvent` | A cancelled context may let a handler complete the action of a node that is not drained (`app.go:337-343`). |
| `stuck` | `RunStops` | After `Main` left its loop, `Run` may wait for ever for a channel nobody reads, and the process hangs (`cloudwatch_event_emitter.go:70`). |
| `keep_panics` | `KeepReturns` | A bucket wider than an hour and without a snapshot makes `Keep` panic (`retention.go:68`, `88-97`). The run starts with a complete history and takes a snapshot every hour: thinning alone leads there, with buckets of one and three hours, two and three of them. |
| `lost_error` | `DrainedIsEmpty` | A request that fails before `nodes` reaches its `select` leaves both `errc` and `done` ready; when `done` is chosen the error is lost, and a node full of shards is returned without any (`elasticsearch_query.go:148`). |

Other disagreements met while modelling, which the models follow as the code has them:

- v2 snapshooter: `NewApp` never sets `app.health` (`snapshooter/app.go:41-76`), which `Main` reads to serve HTTP
  (`app.go:87`) and of which it sets a field (`app.go:103`): a nil pointer, so that the process panics at each
  start. `Snapshooter` models the loop behind it as if it were set.
- v1 snapshooter: the next time is reckoned from the clock once the sleep is over (`snap.go:48`). When that
  is not before the time due next (windows every 4 and 6: due at 4, woken at 6, next at 8), no
  snapshot is taken for the latter. `NothingSkipped` says that no other time is passed over.
- v1 snapshooter: the check that a snapshot is taken at its time is inverted, and panics when it is
  taken in its second (`cmd/snapshooter/main.go:144-148`). `Windows!SanityCheck`.
- v1 lifecycler: the condition of a termination dereferences a nil node when the node has left
  (`cmd/lifecycler/main.go:287-289`). An expired action returns before its clean-up, which leaves the
  node excluded and the vote count up (`main.go:206-211`), although the function that is skipped is to
  "Clean up the exclusion once the node is dead" (`main.go:167`); a crash loses the count, so that
  `KeepAlive` takes an action for expired that is not. Each handler has a command service, and so a
  `settingsMu`, of its own (`main.go:161`): drains and un-drains of two handlers undo each other. The list of
  exclusions may lose names to others' PUTs and keep names for ever, and no property of it is left to
  state.
- v1 `KeepAlive`: "keeps a lifecycle event in the Transition:Wait state as long as condition c returns false"
  (`lifecycle.go:144`). The group starts its period at the heartbeat, which is recorded about `CommBuffer`
  before the end of the period; the code takes it to be added to the end. So the group's second period
  ends about when the second check starts, and the action may expire during that check or any later one.
  `KeptUntilCheck` says up to where it is kept.
- v2 postponer: the same sum (`lifecycle_action_postponer.go:110`). Each timer is set for half of what is
  left until a deadline that runs ahead of the group's: with a hook of 6 minutes and heartbeats
  answered at once at minutes 3, 7.5 and 12.75, the group's deadlines are 9, 13.5 and 18.75, and the fourth
  is due at 18.375. The time in hand halves with every heartbeat, and once it is shorter than a request
  the action expires, long before the global timeout that `Postpone` is to postpone it until
  (`lifecycle_action_postponer.go:51-53`). `ExpiresAtHeartbeat` says how it may happen: at a heartbeat only.
- v1 squeues: a change of visibility that reaches SQS after the message was deleted ends `Run` with
  an error.
- v2 cloudwatcher: the check of the lengths compares a list with itself (`app.go:233`); a name that is
  listed twice ends the process each time. A role without disk sizes makes `Datum` panic.
- v1 cloudwatcher: the utilization of the old pool is divided by the whole heap, and excluded nodes
  are counted among the data nodes only; `NodeMetrics!Agree` compares what both mean alike.
- v1 healthcheck: "Only shards that are present when the check first runs are considered in future runs"
  (`ready_rolling_upgrade.go:23-24`, and `ready_rolling_upgrade_test.go:79-99`). The list the check asks for has
  no column of shard ids, all are empty, so that any shard that is INITIALIZING blocks the check as
  soon as the first list had one. And the list is shared without a lock: a request that comes between
  its making and its filling passes for good with shards that are INITIALIZING. What is left of the
  promise is not worth a property.

The exact limits of what holds are in the properties themselves. `ReleasedOnEvidence` is about the handlers
that an event lets go on, not those that a cancelled context does (`cancel`), and says which shards may
be overlooked: those that came after the poll had read the shards and before it emitted its event.
`AwaitedIsExcluded` exempts nodes that come back, which the code un-drains; `NothingVanishes` exempts
events emitted before `Main` registered its listeners; `ExclusionsCleanedUp` and `ShutdownCompletes` hold
but for an emitter that hangs; `NoGapOpens` exempts the last quarter of an hour of the policy's span, where
`redistributeBackups` hands a snapshot to the catchall bucket; `VotingCleared` exempts expired actions,
`NeverForgotten` an action whose count was lost, `PairingHolds` names listed twice.

### Fairness

Safety is checked without fairness. The liveness runs assume

- that goroutines keep running and requests are answered (weak fairness of the steps between them);
- that `settingsMu` starves nobody (strong fairness of what waits for it): a `sync.RWMutex` lets
  waiting writers in before later readers;
- that a `select` in a loop does not pass over a ready case for ever (strong fairness of
  `PostponeCancelled`, `TakeBatch`, `TakeTerm`): Go chooses among ready cases at random;
- that `Main` exits when every goroutine has ended; nothing makes the emitter of CloudWatch events end,
  which may hang instead;
- that Elasticsearch moves the shards off excluded nodes, and that SQS lets every message reappear
  and delivers each in the end, and that not every deletion of it fails.

The dispatcher assumes weak fairness of time, requests, handlers and the loop, and that a message
which is visible often enough is received (strong fairness of its receipt); its clock waits for what
is ready, as `late` says. Nothing is assumed of failures, and in the drainer nothing of timers or of
what the group does. `MCLoops` states, for each part it runs, the fairness of that part's `FairSpec`.

## 4. What is proved

The theorems hold for any sets of nodes, handlers, groups, services and messages, any batch sizes and
limits, with failures, crashes and allocation allowed or not, unless an assumption says otherwise. A
theorem rests on an inductive invariant, called `IInv` where there is one for the whole module; each
was checked by TLC on the instances of section 3 before it was proved.

| Module | Theorems (property) | Assumed of the constants |
|---|---|---|
| `DrainerProofs` | `TypeCorrect`, `ExclusiveWrites` (`SettingsExclusive`), `NoExclusionIsLost` (`NoLostExclusion`), `AwaitedNodesDrain` (`AwaitedIsExcluded`), `ExclusionsImplemented` (`ImplementsExclusions`), `ReleasesHaveEvidence` (`ReleasedOnEvidence`) | |
| `ServicesProofs`, of `Postponer` | `TypeCorrect`, `NoFalseTimeout` (`TimeoutIsReal`), `ExpiryIsAtHeartbeat` (`ExpiresAtHeartbeat`) | `TimingAssumption` |
| `EventFlowProofs` | `TypeCorrect`, `DeletedAfterEmitted` (`DeletedIsEmitted`), `NoEventVanishes` (`NothingVanishes`) | |
| `LoopsProofs`, of `Throttler` | `TypeCorrect`, `EnablersFollowGroups` (`EnablersAreFaithful`), `RoundsTakeEffect` (`GroupsFollowVerdict`), `ResumesAreJustified` (`ResumeJustified`) | |
| `LifecyclerProofs` | `TypeCorrect`, `VotersAreExcluded` (`VotingKept`), `LastClears` (`VotingCleared`), `PicksUpWhereItLeft` (`NeverForgotten`) | `ParametersOK`: the types of the parameters |
| `KeepAliveProofs` | `TypeCorrect`, `KeptBetweenChecks` (`KeptUntilCheck`) | `CommBufferCovers` |
| `SnapshooterProofs` | `TypeCorrect`, `NewestIsKept` (`NewestSurvives`), `RecentAreKept` (`RecentSurvive`), `NoGapIsOpened` (`NoGapOpens`) | `ParametersOK` |
| `DispatcherProofs` | `TypeCorrect`, `LimitHolds` (`WithinLimit`), `StaysReserved` (`OneHandler`) | `DispatcherFits` |
| `LoopsProofs`, of `MCLoops` | `LoopsTypeCorrect` (`LoopsTypeOK`), `LoopsLimitHolds`, `LoopsStayReserved` | as `MCLoops` has them, finitely many messages |
| `ServicesProofs`, of `Windows` | `ServicesWanted` (`WantedAreKept`), `ServicesNothingSkipped`, `ServicesOldSnapshotsGo` | `WindowsOK` |
| `ServicesProofs`, of `NodesQuery` | `ServicesShardsTold` (`ShardsAreTold`) | `ParametersOK`: at least one try |
| `ServicesProofs`, of `Cloudwatcher` | `ServicesPairing` (`PairingHolds`), `ServicesPushedFigures` (`PushedFigures`) | `ParametersOK`: the types of the parameters |
| `ServicesProofs`, of `MCServices` | `ServicesVotersAreExcluded`, `ServicesLastClears`, `ServicesPickUp`, `ServicesKeepAlive`, `ServicesPostpone`, `ServicesNewestSurvives`, `ServicesRecentSurvive`, `ServicesNoGapOpens`, `ServicesTypes` (`TypesOK`) | `ParametersFit` of `MCServices`: the assumptions of the parts |

The assumptions beyond types: `TimingAssumption` (`Delay + 2 * Lag < Timeout`) and `CommBufferCovers`
say that the buffer the code subtracts from a timeout is longer than the requests it is there for; in
`Dispatcher` it has a tick each for results, a notice, a request and an error, and `DispatcherFits`
adds that there are finitely many messages. The code has seconds there and minutes to hours in the
timeouts. `WindowsOK`: there is a window (`--window` is required). `ParametersOK` of `Snapshooter`: the widths of buckets are
increasing multiples of 4, so that quarters of them are whole numbers (the code's are hours to years), a
policy asks for some bucket, and the repository has no snapshot of a time after the first boot.

**Drainer.** `ExclusiveWrites` by `LockInv`: a goroutine between GET and PUT holds `settingsMu` with
the list as the server has it, and the poller holds it while it reads. The second part is needed
because the poller unlocks at the end of `GetState`: without it that unlock could free somebody else's
lock. `NoExclusionIsLost` follows, since `UndrainPut` is then the only step that shrinks the list.
`AwaitedNodesDrain` (`AwaitInv`) needs in addition that a termination handler has one name and that
what the poller will un-drain (`seenExcluded \ seenNodes`) holds no node still in the cluster other
than those that may come back (`SeenCovers`).

`ExclusionsImplemented` takes these invariants through the refinement mapping, action by action. A
PUT of a list that was fetched earlier is an atomic addition only because the list is still the same
(`LockInv`), and an atomic removal allowed by `Exclusions` only because nobody waits for what is
removed (`SeenCovers`); a handler that stops waiting is a release. The poll of a starting `Main` can
fail and restart the process, which must not disturb waiting handlers: `BootIdle`, there are none yet.

`ReleasesHaveEvidence` (`EvidenceInv`): from the reading of the shards to the event, whatever shards there
are the poll has seen, or their nodes are in `late` (`SeenHolding`). So a listener's event is about a
node that has no shards or is in `late`, and this lasts until the action is completed (`FiredOnEvidence`),
since by `AwaitInv` the node stays excluded and gets no more. `NoListener`: a handler has a listener only
while it waits.

**Postponer.** What holds is less than the code assumes, and the invariant has both clocks. `InTime` says that
the answer to a heartbeat comes within `Lag` of its timer, which is no more than a period before the
code's `timeout`; `Extended` that a recorded heartbeat gives the group a whole period from the timer
on; and `Covered` that the next timer, set for half of what is left to the code, fires before that period
ends or late by no more than the answer was. `Describing` is for the time before the first timer.

**EventFlow.** An action that deletes does so once nothing of the answer is left to push
(`AllPushed`), which holds because Run waits for the goroutines of all its emissions. For
`NoEventVanishes` each event of the answer Run is at work on is accounted for: still to be emitted, in
a channel, a batch or a handler, handled, or emitted to nobody (`Accounted`); and messages are deleted
once only (`GotUndeleted`). `BatchHasRoom` is needed because an event that is taken into a batch must
find room in it.

**Throttler.** The invariant relates each enabler to its group except while a request of it may have
been carried out unnoticed, which ends the process, and a verdict that is still good to the conditions
it rests on (`Grounded`).

**Lifecycler.** `VotersAreExcluded` is about a count, one lock and a request that clears everybody's
exclusion at once. The invariant `VoteInv` says that the count is at least the number of handlers
with a vote (`VotesCounted`), that between the count's reaching zero and the answer of the clearing
request nobody has a vote (`NobodyVotes`), and that nobody gets one then because the lock is held
(`LockHeld`). The other bound of the count is what `LastClears` needs: it exceeds the votes only by
the handlers that returned an error (`Gone`) or, once `leaked`, by expired actions. `Reasons` says for
each handler why it gives its message up, and `Replaced` that a handler about to delete the message it
replaced has left another in the queue; `PicksUpWhereItLeft` follows from
these. `TypeCorrect` includes that `votingCount` never falls below zero. The proof found a mistake of
the model: two handlers of one action, after a crash, could raise its heartbeats beyond the bound,
which `Extended` corrects.

**KeepAlive.** Checks are a period apart until the global timeout (`Checks`), and each heartbeat comes within
`Lag` of its check (`CheckInTime`, `BeatInTime`). So the period that a recorded heartbeat starts does not
end before the next check (`DeadlineCovers`), while the first, which the code reckons as the group does,
lasts until its heartbeat is recorded (`FirstPeriod`, `FirstRecorded`). `ExpiresAtDeadline` gives the
action's status from the deadline.

**NodesQuery.** What was asked at some time is still true of `had`, the nodes that have had shards
all through the try, since `had` only shrinks: `AnswerNamesHad`.

**Dispatcher.** `Counts` bounds the handlers together with those that the answer under way may add:
a new receive is only asked for with room for all of it. `StaysReserved` bounds from below how long a
message stays invisible, by what its goroutines are waiting for (`Margin`): the timer of the next
notice, a change of visibility asked for, the loop that has to take a notice. What is `late` has a
tick less to come. The second receipt of a message is then never used (`FirstOnly`).

**Windows.** `NextTime` says that `Next1` is the first time after now that any window asks for: the
least of the `NextMultiple`s, each of which is the least multiple of its window. `WantedAreKept` is
inductive by itself. `NothingSkipped` follows: what lies between now and the new `next` no window asks for.
`OldSnapshotsGo` could only fail if a listed snapshot were created again after it was looked at. It
cannot: only times that came and that the loop is past have goroutines and snapshots (`Started`, `Past`), so
that no time gets a second goroutine that could create its snapshot again (`Fresh`). What no window asked
for is deleted or still to be looked at by who listed it (`OldLooked`), since time makes no window ask for it again.

**Snapshooter.** What `Delete` returns is computed by folds over sequences, which the community modules
define as recursive functions. That such a function exists, and what it is at each number, is shown by
`Induct`, an induction that is stated of a set of numbers instead of a predicate (`FoldExists`,
`FoldSteps`). With it the sums of widths that make the ends of the buckets (`BucketsAre`), `Push` over all
marks (`PushFolded`) and the pass of `redistributeBackups` are taken step by step: each of its turns
takes from the bucket above, gives to it or does nothing (`TurnIs`). It takes no time down to an older
bucket unless that time is within a quarter of the smallest width of its end (`TurnRedistributes`), and
of two times of one bucket the later belongs there and the earlier, if not, is no further below
(`TurnTidies`). The first part of `Keep` marks all hourly times, the newest, and the oldest
of each bucket (`MarkedHas`), and what is marked is kept whatever the rest does, unless it panics
(`MarkedAreKept`). So a time that goes has an older one of its bucket that stays (`GapClosed`). The
inductive invariant carries this from the moment the list is made through the deletions one by one:
whatever is in `todo` is old enough (`TodoIsOld`) and has an older neighbour that is not in `todo`
(`GapsClose`).

**Cloudwatcher.** `ServicesPairing` rests on `InOrderSeen`: what a round has seen of the nodes is a
list of names in order, each once or twice, when it asks for the instances. If none is there twice,
each name is either in the cache or described, once, and the sorted instances are that very list
(`ListedOnce`). Hence only names listed twice lead to `MispairedTwice`. For `ServicesPushedFigures` the
slices that were pushed follow each other without a gap up to the last figure pushed (`SlicesPushed`),
and so hold each figure once (`SlicesOnce`), and no round of the second generation comes to its pushing with a
denominator of zero (`PanicFree`). That the generations agree (`GenerationsAgree`) is a fact about
sums: v1 adds up zeroes for the nodes that hold no data, v2 leaves those nodes out, and v1 subtracts
two sums where v2 adds up differences. A sum over a finite set is a fold that takes the elements in
an order of its own choice; that every order gives the same (`AnyOrder`) is shown by an induction over
the subsets of the set (`SetInduct`), from which `SumExists`, `SumIs`, `SumOfDifference` and `SumOfZeroes` follow. A role
with data nodes whose disks all have no size has the figures of disks in v2 only, and there v2
panics: this is the case the property leaves out.

**The sums.** Every behaviour of `MCServices` is one of `Postponer`, `NodesQuery`, `KeepAlive`,
`Snapshooter`, `Windows`, `Cloudwatcher` and `Health`, since the steps of the other programs leave their variables
alone, and of `Lifecycler` with the bound of the heartbeats that the program chosen goes with (`LifecyclerIsPart`); the same for `MCLoops`. So
what TLC checks of the sums, `TypesOK` included, follows from the theorems of their parts, and the separate instances there
and in the proofs (`L` and `LP`, `S` and `SP`, `D` and `DP`) are shown to have the same operators and steps.

**Model-checked only.** Liveness, which rests on fairness and `ENABLED`, out of the provers' reach:
`DrainedIsReleased`, `ShutdownCompletes`, `ExclusionsCleanedUp`, `EventsFlow`, `SuspendsWhenBad`,
`ResumesWhenGood`, `EveryMessageDone`, `EndsOnError`.
The properties of the `violation` runs, which the code does not have, need no proof.

## 5. What is not modelled

- Metrics, logging, flags, HTTP servers, the wording and encoding of requests and events
  (`v2/pkg/es`, `v2/pkg/events`, `pkg/es`, the glue): what the requests read and change is in the
  modules of their callers.
- v2 drainer: a hook reconfigured to a shorter timeout, which its cache does not notice.
- v2 snapshooter: `Ensure`, the dry run, and other writers of the repository.
- v1 snapshooter: `ensureSnapshotRepo`, durations in ISO 8601, and `RoundedTicker`, `Ceil` and `Prev`,
  which nothing uses.
- v1 healthcheck: `CheckLiveHEAD`, which has no state, and `--once`.
- v1 cloudwatcher: the figures of garbage collection, of the young and survivor pools, and peaks.
- v1 squeues: the random factor of the backoff, and the panic over a notice nobody takes in time,
  which the bounded delays exclude.

## 6. Plan

1. (done) `Drainer`, `Postponer`, `EventFlow`, `Throttler`, `Retention`, `Snapshooter`, the theorems.
2. (done) `Lifecycler`, `KeepAlive`, `NodesQuery`, `Dispatcher`, `Windows`, `Cloudwatcher`, `Health`;
   `Exclusions` and its refinement by `Drainer`.
3. (done) Proofs: `Drainer` implements `Exclusions`; every safety property of every part, and of the
   sums of parts that TLC runs.
4. (open) `NoEventVanishes` and `DeletedAfterEmitted` say of `EventFlow` what an abstract set of pending
   events would; it could be stated as a specification of its own, like `Exclusions`.
