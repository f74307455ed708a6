# Formal models of gradys-embedded

TLA+ models of the embedded service that flies one GrADyS protocol on a drone, and
of the plugins the protocols may use. TLC checks them on small instances; TLAPS
proves the theorems named below for every value of the constants. Paths without a
prefix are relative to `gradys_embedded/`.

## The system

| Component | Code | State | Operations | Hard part |
|---|---|---|---|---|
| Mission manager | `runner/mission.py` | state, run id, context, run directory, monitor | load, setup, start, stop, reset, note_landed, shutdown, delete_run | requests interleave at every `await` of load and setup; outcomes of runs on disk |
| Embedded runner | `runner/runner.py` | backend and its signature, encapsulator, telemetry and return tasks | start/stop_backend, bootstrap/teardown_protocol, goto_initial_position, request_return_to_launch, telemetry loop | fields read before an `await` and used after it; tasks that die unnoticed |
| Encapsulator, provider | `encapsulator/embedded.py` | active flag, timers, pending tasks | handle_*, finish, schedule/cancel_timer, commands | what was scheduled must not outlive finish() |
| Control API | `runner/control_panel.py` | none | one endpoint per mission operation | many clients at once |
| Configuration, CLI | `runner/configuration.py`, `config_file.py`, `cli.py` | immutable | validation | none |
| Data plane | `communication/*.py` | listener or session | serve, send, broadcast, close | I/O; a callback thread in `zenoh.py` |
| Raft node | `protocol/plugin/raft/raft_node.py` | term, vote, role, proposed and committed values, timers, counts of active nodes | six message handlers, three timers, propose_value, set_simulation_active | messages lost, repeated and reordered; two ways to count a majority |
| Failure detector | `protocol/plugin/raft/failure_detection/` | per node status and counters | record response, check on every n-th heartbeat | counters moved by different events |
| Raft facade, config, messages | `raft_consensus.py`, `raft_config.py`, `raft_message.py` | none of their own | prefix and forward | a default that is never applied |
| Dispatcher | `protocol/plugin/dispatcher.py` | handler chains | register, unregister, dispatch | a chain that changes while it is walked |
| Mission mobility | `protocol/plugin/mission_mobility.py` | mission, waypoint cursor, direction | start, stop, set waypoint, reverse, telemetry | ends of a mission; commands nobody waits for |
| Follow mobility | `protocol/plugin/follow_mobility.py` | followers with their rounds; leaders heard of | broadcast, scan, packets, follow_leader | two sides that each time the other out |
| Random mobility | `protocol/plugin/random_mobility.py` | the trip's handler | begin, finish, telemetry | a handler that comes and goes in use |
| Statistics | `protocol/plugin/statistics.py` | rows, flush counter | sampling timer, CSV files | a timer that reschedules itself after writing files |

The control API calls the mission manager, which drives the runner: it binds a
backend at load, flies the vehicle through uav_api at setup, binds an encapsulator
(protocol and provider) at start, and unbinds it at stop. The backend and the
telemetry loop read the runner's encapsulator at each delivery. The telemetry loop
also tells the manager when the vehicle has landed. A protocol may host plugins,
which hook its handlers through the dispatcher; the Raft plugin exchanges messages
with its peers over the data plane and runs on the provider's timers.

What makes each part correct: the mission manager implements the state machine its
documentation draws, its run archive tells the truth, and a stopped protocol is
silent; a provider's timers fire once and never after a cancel or the end; the Raft
nodes elect one leader a term, never take a vote back, and commit what a majority
holds; a node never ends up without a timer to act by; a mission's waypoints are flown
in the documented order, and all of them; leaders and followers come to agree on who
follows whom; a walk of a handler chain passes nobody over, and statistics lose no more
than what came since the last flush.

`PROJECT.json` lists the hazards, each at its line, with the properties that watch
it or the reason why none does; a note says what a listed property leaves open.

## Modules

| Module | What it is |
|---|---|
| `MissionLifecycle` | the mission manager with the runner's parts it drives, the vehicle, the telemetry loop and the process |
| `MissionDiagram` | the documented state machine, the abstract specification of the above |
| `MCMission` | instances of `MissionLifecycle` |
| `MissionLifecycle_proofs` | its theorems |
| `RaftNode` | the Raft nodes of one cluster and the network between them |
| `MCRaft` | instances of `RaftNode` |
| `RaftNode_proofs` | its theorems |
| `FailureDetector` | the failure detector of one node, whose verdict `RaftNode` leaves open |
| `MCDetector` | an instance of `FailureDetector` |
| `FailureDetector_proofs` | its theorems |
| `RaftProgress_proofs` | more theorems about `RaftNode`: timers, commits and where values come from |
| `EmbeddedProvider` | the encapsulators and providers of the missions of one process, their loop and the zenoh thread |
| `TimerService` | what `IProvider` promises of timers, the abstract specification of the above |
| `MCProvider`, `EmbeddedProvider_proofs` | its instance and its theorems |
| `MissionMobility` | the waypoint plugin with its commands on their way and the vehicle |
| `Patrol` | the documented route, the abstract specification of the above |
| `MCMobility`, `MissionMobility_proofs` | its instance and its theorems |
| `FollowMobility` | leaders and followers and the network between them |
| `MCFollow`, `FollowMobility_proofs` | its instance and its theorems |
| `PluginChains` | the dispatcher with statistics and random trips, the plugins that change chains in use |
| `MCPlugins`, `PluginChains_proofs` | its instance and its theorems |

### MissionLifecycle

Everything in the service runs on one asyncio loop, so code between two awaits is
atomic. A request that awaits is split exactly there: `pc[c]` names the await that
client c's request is suspended in, and `job[c]` is the local variable (the mission
context) it carries across.

- load: `LoadBegin` (the check for IDLE, the validation), `LoadFrame` (resolve_frame
  answered), `LoadBackendClosed` (stop_backend returned), `LoadBackendBound`
  (the listener became ready, died or timed out), `LoadBackendUnwound`, and in each of
  them `StartBackend` or `CommitLoad` as far as the code goes without awaiting.
- setup: `SetupBegin`, `SetupArmed`, `SetupAirborne`, `SetupArrived`, `SetupFails`.
- start, stop, reset and delete_run do not suspend and are one action each; stop is
  two, by the state it is called in.
- the telemetry loop reads the mission's frame in `TelemetryPoll`, uav_api samples in
  `TelemetrySample`, and the answer is used in `TelemetryDeliver`.
- `ProtocolMoves`, `ReturnDescends`, `ReturnLands`, `ReturnRefused` are the vehicle,
  `BackendDies` the listener's task ending by itself, `Restart` the process ending, in
  order or not, and booting again.

Each handler ends with a write of RUN_INFO.json, which may raise: `_write_run_info` guards
nothing, and only load catches what comes out of it. `Record` is a write that nothing but
the answer depends on, since the state is assigned before it; `Close` is a write and
`_finalize_run`, which a write that raises skips, so that the service is IDLE with its
context set until the next load. `unsaved` is a history variable, the runs whose last
write raised. A file that a failed write cut short is not told apart from one that kept
the outcome of before: either is replaced by the next write.

`state`, `context`, `lastRun` are the manager's fields; `_context` and `_run_dir`
are always set and cleared together and are one variable. `outcome[r]` is the
"outcome" in run r's RUN_INFO.json. `bound` is the runner's encapsulator; `live` are
the encapsulators whose finish() has not run, since one may be lost without having
been finished: an initialize() that raises leaves its encapsulator bound and live, marked
`raised`, and the next start binds another in its place. `stationed` is a history
variable: the run whose initial position the vehicle holds.

`MissionDiagram` is what mission.py:9-19 promises. A start that fails is not in that
documentation, so the diagram has `StartFails`, after which something that is still alive
(`stray`) may leave the initial position; nothing else of the promise is weakened.

The operations "load" and "setup" validate are not modelled beyond what decides the
control flow: whether there is an initial position, whether the frame has to be
looked up, and the backend's signature. A refused request changes nothing and is not
an action.

### RaftNode

One record per node holds the fields of its RaftNode object; `msgs` is every message
ever sent. Messages stay in `msgs`, so that each may be delivered late, out of order,
again or never. One action per timer and per message type, each with everything
the handler calls: adopting a higher term, stepping down, becoming leader with its
first heartbeat, the failure detector's check with the commit it may trigger.

Data is reduced to what the properties tell apart: one consensus variable, whose
proposed value is `cons` and committed one `comm`; `Cleared` stands for the
dictionary emptied by a commit. Time is left out: a timer fires at any moment it is
pending, and whether the active-node count is still fresh is left open. The failure
detector's verdict is any set of at most `MaxFailed` nodes, changed when a heartbeat
is sent; `FailureDetector` says which verdicts there are. A leader that finds a node
recovered tries to commit in the middle of its check, when some verdicts are new and
some are not; `Detected` allows every such moment.
`DetectorConfigured` says whether set_heartbeat_interval was called: if it was not,
the detector's check raises in the middle of the handler, and the model leaves what
follows undone.

### FailureDetector

The detector belongs to the node and outlives its leaderships: `Elected` and `Deposed`
do not touch it, as in the code. `peer[p]` holds FailureState's entries of peer p;
`heard` says whether it has a last response and `age` how many heartbeat intervals
ago that was. Every n-th `HeartbeatSent` runs `CheckPeer` on all peers. Heartbeats go
out by the timer and at each proposal, so they are not tied to `Tick`. The counters
stop at the thresholds they are compared with, which no comparison can tell from
counting on. `since` is a history variable, the heartbeats since the last answer.

### EmbeddedProvider

`stage[e]` is where encapsulator e is between its construction and the end of its
finish(); `bound` is the runner's. The loop runs one callback at a time: `busy` is the
protocol whose code it runs, and a callback is a `Deliver`, `HandlePacket`, `TimerFires`,
`Bootstrap` or `Finish` that makes it busy, any calls of the provider, and a `Return` (or
`FinishReturns`, with shutdown()). A protocol may also call its provider from tasks of its
own when no callback runs, even after finish(): `Calls` allows both.

A timer that asyncio has pending is in the provider's dictionary or was forgotten by it:
`timers[e]` are the names in the dictionary and `stray[e][n]` counts the forgotten handles
of a name. schedule_timer makes a handle stray when it overwrites it; a stray timer that
fires pops whatever the dictionary has, which is another handle's entry. `hushed` is a
history variable of the names cancelled and not scheduled since, for the documented
promise. What the timers of all names would do to each other is nothing, as no handler
looks at two names. `SampleSeen` and `SampleDispatched` are the two reads of the runner's
encapsulator by zenoh's callback.

`TimerService` is `IProvider`'s documentation. The provider implements it for protocols
that never schedule over a pending name (`TimersAsDocumented`), and not for `Careless`
ones (`AllTimersAsDocumented`, violated).

### MissionMobility

One action per call of the plugin (`StartMission`, `StopMission`, `SetWaypoint`,
`SetReversed`), `HandleTelemetry` for the handler it registers, and the world: `Sample`
is a poll, whose answer is old by the time it is handled; `latest` and `older` are the
GOTOs on their way, as each leaves in a task of its own that nobody waits for, and may be
refused; `Fly` moves the vehicle. `misled` is a history variable: the latest GOTO was
refused or overtook an earlier one, which no handler would notice. A place is a model
value; whether the vehicle is within tolerance of a waypoint is whether it is there. What the
plugin does with the cursor at the ends is `Progress`, line by line, and `Waypoint` reads a
negative cursor as Python does. An empty mission is in the model: start_mission sets the
state and then raises, and so does every later sample.

`Patrol` is the route that the comments of LoopMission and of the calls tell; `leg` is the
cursor counted from the start of the list. The history variable `asked` ties its steps to
the direction set_reversed was called with: `AlreadySo` if the node goes that way,
`TurnRound` if it does not and comes from a waypoint, which it then flies back to. `Refuse` is
the step the documentation does not have: at either end, where the node comes from no
waypoint, the code leaves it in the direction it had (see below).

### FollowMobility

Time is counted in broadcasts: a `Tick` is a round of broadcasts of the leaders that are up,
and between two of them the followers whose timer is due scan (`ScanEvery` ticks apart)
and what was sent is received, lost or left late. `age[l]` is a leader's
`_last_connection_from_follower`, in its rounds, and `heard[f]` a follower's
`_last_leader_broadcast`, in ticks; both are only compared with a timeout and stop
there. An answer is received within its tick, or is late. A leader's first broadcasts carry (0, 0, 0), as
told by no telemetry yet; `Elsewhere` stands for every position where no leader is.
The follower without a leader takes whichever the dictionary gives first, any of them in
the model, whatever `auto_follow` says, since the code does not read it.

### PluginChains

`chain[c]` is the list of handlers of method c, `walk` the call that is going through one:
the position counts, not the handler, so that a registration at the head while a call is
under way moves the rest on. The dispatcher's for loop is `Continue`. The protocol's own
method is the last handler of each chain and the place from which plugins are called.
Statistics' "time" and "tracked" files are rewritten one after the other within the
sampling handler or finish_statistics: `writing` is the one being rewritten, which was
emptied first, and `cut` the files that an error left short. `behind[r]` counts the rows that
are in memory and not in their file; the rows that packets add to the second file
(`TrackPacket`) are counted apart from the samples', as no flush counts them. `every` is the
wrapper's flush_every, 0 included. Whatever a row says is left out.
`due`, `ran`, `again` and `grown` are history variables of the call, for `WalksInFull`.

## Runs

| Run | Instance | Shows |
|---|---|---|
| `mission_operator` | 1 client, 2 transports, 2 runs, 2 starts, 1 restart; initialize() may raise and writes may fail | `TypeOK`, `StoppedProtocolIsSilent`, `NoAbandonedRun`, `DataPlaneOfMission`, `StartsAtInitialPosition`, the refinement `FollowsDiagram`, and that a stopped mission ends (`ReturnCompletes`) |
| `mission_concurrent` | 2 clients; the same failures | `QuietWhenIdle`, `RunInfoAgrees`, `OutcomesAreFinal` |
| `mission_setup_race` | 2 clients | violates `StartsAtInitialPosition`: of two loads that overlap, the later commits over the mission that is being set up, and that setup makes it READY |
| `provider` | 2 encapsulators, 1 timer name | `TypeOK`, `OverHoldsNothing`, `SilentAfterFinish`, the refinement `TimersAsDocumented`, and that nothing on the loop refers to a finished protocol in the end (`FinishedLeavesNothing`) |
| `provider_timers` | the same | violates `AllTimersAsDocumented`: a timer scheduled over a pending one |
| `mission_mobility` | 3 places, missions of 0, 1, 2 and 3 waypoints | `TypeOK`, `CursorInMission`, `FollowsWaypoint`, the refinement `FollowsRoute`, and that the mission is flown (`MissionIsFlown`) |
| `follow_mobility` | 2 leaders, one of them unsteady, 1 follower | `TypeOK`, `FollowsAvailable`, and that all come to agree (`FollowersSettle`) and to be in place (`FollowersArrive`) |
| `plugins` | 3 trips, flush_every 0 and 3 | `TypeOK`, `WalksInFull`, `LossIsCapped`, and that sampling goes on (`SamplingGoesOn`) |
| `raft_classic` | 3 nodes, fixed majorities | `TypeOK`, `ElectionSafety`, `VoteIsFinal`, `CommitsAreReplicated` |
| `raft_tolerant` | 3 nodes, counted majorities, detector | `ElectionSafety`, `LeaderBeats`, `TimersKeepRunning` |
| `raft_agreement` | 3 nodes, fixed majorities | violates `Agreement` |
| `failure_detector` | default thresholds, 1 peer | `TypeOK`, `FailureIsEarned`, `RecoveryIsCurrent`, and that silence and return are noticed (`SilenceIsNoticed`, `ReturnIsNoticed`) |

The three violations are disagreements between the code and its own documentation or
comments; `PROJECT.json` quotes the line each contradicts under "findings".

**Bounds.** Two runs and two starts are what a mission needs to meet the one before
it; two transports let a load reuse a backend or replace it; two clients are enough
for a request to resume in the middle of another, as no handler looks at more than
one other. One restart reaches every state a crash can leave, and the counter it
bounds is part of `NoAbandonedRun`. `TypeOK`'s other sets are finite by themselves.

Two encapsulators are a finished protocol and the one that took its place; nothing looks
at a third. One timer name is enough, as no handler looks at two. `MaxStray`, `MaxCommands`
and `MaxInbox` are 1: a forgotten handle, a task, or a packet already makes every
difference a second could, since each is handled by itself.

The missions of the waypoint plugin are an empty one, one of a single waypoint, where
both ends are the same; one of two; and one of three, which has a waypoint that is at
neither end. They share places, so that the vehicle may be at a waypoint of the next
mission by chance. `MaxOlder` 2 lets two commands be overtaken.

Two leaders and one follower are enough for a follower to lose one and take the other;
followers do not know of each other, and a leader keeps one entry for each. `Unsteady` says
which leaders may fail and come back: with both, nothing new happens but that there is
none, which the loss of every message shows too. Timeouts of 2 ticks are the least that
tell one missed round from two; one late message can be of either side.

Three trips nest handlers in the middle of a chain as well as at its ends. `Intervals`, the
values of flush_every, are 0, which asks for no periodic writes, and 3, the least that has
samples which flush, which do not, and which come right after. `MaxRows` 4 counts rows past
the flush that should have written them.

Three Raft nodes are the smallest cluster where a minority can be outvoted. Terms up
to 2 give an election and a contested successor; numbers up to 2 a value committed
and replaced. `Contenders` limits whose election timer may fire to two nodes, so that
the third is a voter; any node may still be silenced or wait for ever. `FewMessages`
stops exploring behaviours that have sent more than `MaxMessages` distinct messages: 9
are an election, a proposal, its acknowledgements and a second election. With
counted majorities 7 reach a discovery, an election, and heartbeats in doubt. The
proofs need none of these bounds.

The detector runs with the thresholds, the interval and the timeout it has by default.
The check treats each peer by itself, so that one peer shows everything; two messages
on their way let an answer come late and another twice.

**Symmetry.** Clients, transports, contenders, other nodes and values are each
interchangeable in every definition, so they are permuted in runs without liveness
properties where the size of the instance calls for it.

**Fairness.** Each liveness property rests on what asyncio and the vehicle do by
themselves, and on nothing that a peer, an operator or the network might not do.

- `ReturnCompletes`: the telemetry loop polls for ever and uses each answer (weak
  fairness of `TelemetryPoll`, `TelemetryDeliver`); a single poll may fail, but uav_api
  answers again and again (strong fairness of `TelemetrySample`); and a vehicle that
  accepted a return flies it (`ReturnDescends`, `ReturnLands`). No request, no restart and
  no failure is ever required to happen. The property exempts a return that uav_api
  refused, as the code only logs that and leaves the operator the reset.
- `FinishedLeavesNothing`: a callback returns (`Return`, `FinishReturns`), and the loop comes
  to every timer that is due and every packet handed to it, however often it is busy with
  another at that moment (strong fairness of `TimerFires`, `HandlePacket`).
- `MissionIsFlown`: samples are taken for ever, and one in infinitely many is handled
  (strong fairness of `HandleTelemetry`, as another callback may hold the loop); a command
  arrives or is refused; the vehicle flies to the destination it has. It is claimed of
  behaviours where from some time on the protocol calls nothing and the latest command is
  neither refused nor overtaken.
- `FollowersSettle`, `FollowersArrive`: broadcasts, scans, deliveries and telemetry go on
  (weak fairness of each). They are claimed of behaviours that are calm from some time on:
  nothing is lost or late, no leader fails, no protocol intervenes.
- `SamplingGoesOn`: handlers return, files are written or are not, and the loop comes to
  the statistics timer (strong fairness of `StatisticsTimer`). It is claimed while
  statistics are on and no write has failed: a failing write ends the sampling.
- the detector: time passes (`Tick`) and a leader's heartbeat timer, which each firing
  schedules again, keeps firing (`Heartbeat`); no message need ever arrive, no election
  happen, no peer come back.

**Deadlock** is checked in the mission, Raft and detector runs: the telemetry loop of the
service never ends, and a bounded cluster never stops, since messages can always be
delivered again. It is not checked where the part may really stop: a protocol may never
be bound, or nothing may be left that happens without a call from outside.

## Proofs

`MissionLifecycle_proofs`, first part, for any number of clients:
`MissionInv == TypeOK /\ QuietWhenIdle /\ OpenRun /\ UnusedRuns` is inductive.
`RunInfoAgrees` alone is not, since a delete is refused by comparing with `run_id`, and a
commit writes the next run's file: `OpenRun` adds that the open run was created and
is the last one, and `UnusedRuns` that no file precedes its run. The same lemmas show
of each step that it rewrites no final outcome. From it follow `QuietOutsideMissions`,
`RunInfoFollows` and `OutcomesStand`; `MissionTypes` needs only the types.

Second part, for `OneClient`: `ClientInv` adds where the client's only request can be
suspended (`Pending`: a load in IDLE, a setup in LOADED with the open mission as its
context, a load waiting for the listener it asked for) and that from LOADED on there is a
mission with its own data plane (`Opened`). `OneClientsDataPlane` follows from it, and so
does a count: besides the runs whose last write raised, only a restart leaves a run behind
without an outcome, and none but the open one, so there are never more of them than restarts
(`OneClientAbandonsNone`).

Third part, for `OneClient` again, whatever the protocols do in initialize() and whichever
writes fail: `mission_setup_race` has two clients, and shows that one is needed.
`OperatorInv` adds that an installed protocol is the open mission's, that none is alive
outside READY and RUNNING but those whose start failed (`Installed`), and that a READY
vehicle holds its position and is on no return while no such stray is alive
(`Stationed`). Every step preserves it and is a step of `MissionDiagram` or none, so the
service implements the diagram (`OperatorFollowsDiagram`), from which
`OperatorStartsAtPosition` follows in the abstract; `OperatorSilences` follows from the
invariant. The exceptions are part of the statements: a stray protocol is one whose
initialize() raised, and `unsaved` runs are those whose last write did.

`RaftNode_proofs`: `ElectionInv` is inductive for any finite set of nodes. Its parts: the
types; a node's ballot of its current term is its `votedFor` (`BallotsBind`); no two
ballots of one node and term differ (`BallotsUnique`); the votes a candidate counts were
cast (`VotesBacked`); who sent a heartbeat of a term had a quorum of ballots in it, its own
among them (`LeadersElected`). With fixed majorities the quorum is a majority of the nodes,
any two of which meet, so that a term has one leader. With counted ones it is two votes at
least, and quorums need not meet; but no node votes for two, so that each leader of a term
has a second voter that no other has and that does not lead, and the leaders are at most
half of the nodes (`FewLeadersPerTerm`). Four nodes can indeed have two.
`VotesAreFinal` follows from the same lemmas. A step that only touches what elections do
not look at is covered by one lemma (`AsideCareful`), which keeps the proof short.

`RaftProgress_proofs`: `ProgressInv` says what each node waits for (`Waits`: a leader for its
heartbeat timer alone; any other node that was never silenced for its election or
discovery timer), that an acknowledgement in the network was sent by a node that holds the
number (`ResponsesBacked`), and that what a leader counts as matched is backed so
(`MatchBacked`). `NobodyIsStuck` and `CommitsReachMajority` follow without conditions.
`LeadersBeat` assumes `DetectorConfigured`: without a heartbeat interval the detector's check
raises before the next heartbeat is scheduled, and a leader stops.

A second invariant of that module, `SourcesInv`, says that what a node holds, proposed or
committed, was in a heartbeat with a number and in a term that the node has reached. With
`LeadersElected` it gives `CommitsComeFromLeaders`: a committed value came out of a heartbeat
of an elected leader. `raft_agreement` shows why no more is claimed of what nodes commit:
they may hold different values under one number.

`FailureDetector_proofs`: `EarnedInv` is inductive for any peers and any configuration.
Beside the types it says that failures and answers are never counted together and that
all failures counted mean the verdict is given (`Consistent`), and that k failures
counted took k - 1 intervals of heartbeats and the beats since the last check (`Waited`).
The last is what makes `FailureIsEarned` inductive: a verdict looks at one check, the
property at all the heartbeats since the last answer. `FailuresAreEarned`,
`RecoveriesAreCurrent` and `DetectorTypes` follow.

`EmbeddedProvider_proofs`: `FinishedInv` adds to the types and `OverHoldsNothing` that the
protocol whose code the loop runs is not over (`NobodyOver`), from which `FinishedIsSilent`
follows for any protocols, `Careless` ones included. For the refinement `TimerInv` adds
that a protocol outside `Careless` never has a forgotten handle (`NoneStray`); then each step
is one of `TimerService` or none (`ProviderKeepsPromises`).

`MissionMobility_proofs`: `PlanInv` adds to the types and `CursorInMission` that an empty
mission stays at waypoint 0 (`EmptyWaits`); `MobilityInv` adds `FollowsWaypoint`. Both
hold for missions of any length, and so does the refinement (`RouteIsPatrolled`), with
set_reversed tied to the direction it was asked for and `Refuse` as its only undocumented
step: the abstract cursor is `waypoint % Len(mission)`, which is the waypoint everywhere but in a
reversed mission of one, where it is -1.

`FollowMobility_proofs`: `FollowsAvailable` is inductive with the types, for any numbers of
leaders and followers and any timeouts.

`PluginChains_proofs`, for any number of trips and any `flush_every`: `PluginInv` says what the
chains consist of (`ChainPart`: distinct handlers, the protocol's own last, a trip that is on
among them), how far a call is (`CallPart`, with `Walked`) and what the rows count
(`RowPart`). `Walked` is what makes `WalksInFull` provable: only the protocol's own handler, the
last of the list, changes chains (`OwnChanges`), so that until it runs the call has run
exactly what is ahead of its place in the list it began with, and afterwards everybody has
had a turn, whatever is taken out of the list or put at its head. `RowPart` keeps the next
sample pending or being taken, never both, and counts `since` against the rows of each file
where flush_every is not 0; `LossStaysCapped` follows. The lemmas about `RemoveFirst` and about putting a handler first are
proved from the library's facts about sequences.

Assumptions: the named ASSUMEs of the modules, that is, that the special values are
not in the sets they are told from, that the nodes are finite, that bounds are
natural numbers and thresholds at least 1, as the setters of FailureConfig demand. TLC
evaluates them in every run.

Only model-checked: the liveness properties (`ReturnCompletes`, `FinishedLeavesNothing`,
`MissionIsFlown`, `FollowersSettle`, `FollowersArrive`, `SamplingGoesOn`, `SilenceIsNoticed`,
`ReturnIsNoticed`), as liveness is beyond the prover. Every other property of a passing run
is stated by a theorem. `CommitsComeFromLeaders` is the other way round: it is proved and no
run states it.

## Where the code and its documentation part

Beside the three violations, these came up while modelling. What the properties do not
claim because of them is said at each property.

A constant shows one: `DetectorConfigured = FALSE` in RaftTolerant.cfg breaks `LeaderBeats`.

- "A stopped protocol can no longer command the vehicle or send messages" (the
  repository's README.md:196-197) is not true of a protocol whose initialize() raised: its
  encapsulator is bound and active (`runner/runner.py:345-346`), a second start replaces it
  without finishing it, and the stop finishes the second. `StoppedProtocolIsSilent` and
  `StartsAtInitialPosition` except it by name.
- "The loaded mission's effective configuration, or None while idle" (`runner/mission.py:303`)
  is not true after a write of the last outcome that raised: `_finalize_run` was skipped
  (`:496`-`501`, `:509`-`511`, `:471`-`476`). `QuietWhenIdle`, `RunInfoAgrees` and
  `NoAbandonedRun` except `unsaved` runs.
- set_reversed(True) makes the node "start travelling the mission in reverse order and when
  False in normal order" (`mission_mobility.py:217-218`), but not at the ends of the mission:
  on the way to the first waypoint set_reversed(True) overruns the start, which turns the
  direction back (`:102-107`), and the node flies on un-reversed; on the way to the last one
  set_reversed(False) overruns the end, and the node goes to the waypoint before that, still
  reversed. These are `Patrol`'s `Refuse`.
- A simulated outage uses up the election timer that fires in it, and a node that is
  switched on again may have none; `TimersKeepRunning` exempts nodes that were `hit`.
- A listener that died is reused by the next load of the same transport
  (`runner/runner.py:223` compares signatures only).
- A peer that never answered is never failed
  (`raft/failure_detection/failure_state.py:84`).
- `auto_follow` is never read: a follower without a leader takes one whatever it says
  (`follow_mobility.py:156` documents it, `:233` ignores it).
- `follower_timeout` is documented in seconds (`follow_mobility.py:48`) and compared with
  broadcast rounds (`:81`).
- finish_random_trip "does nothing" if no trip is ongoing (`random_mobility.py:116`), but
  raises before the first trip, as `_trip_ongoing` is not set (`:119`). A second
  initiate_random_trip leaves the handler of the first registered for ever.
- The timer that is pending when statistics finish is said to be swallowed
  (`statistics.py:43`), but its handler is unregistered by then, and it reaches the protocol's
  own handle_timer.
- Statistics files are rewritten in place (`statistics.py:203-204`), so that a process which
  ends within the write, or a write that fails, loses rows the file had; the comments (`:28-30`,
  `:198-200`) say that rewriting caps what an unclean shutdown costs. `LossIsCapped` excepts the
  file that is being rewritten, and what a failed rewriting left.
- The cap of flush_every is one of samples: rows that packets add to the tracked variables are
  not counted towards a flush (`statistics.py:78-82`), and any number of them may be lost.
- A reversed mission of one waypoint has its cursor at -1, which Python reads as the last.
- start_mission with an empty list sets the mission and then raises; from then on every
  sample raises before it reaches the protocol's own handler.

## Plan

Done: the mission manager and its diagram; the Raft node, its elections, commits and
timers; the failure detector; the provider and its timers; the plugins that fly and those
that change handler chains; the proofs of every safety
property.

Left, in this order:

1. Values: under which restrictions on proposals `Agreement` holds, as an invariant with
   a proof, beside the run that shows it violated.
2. stop() of a Raft node and the change of its known nodes while it runs, with the
   detector's add_node and remove_node.
3. A dispatcher that is disposed and wrapped anew, with statistics created a second time.
4. The protocol library: save, delete and resolve against loads and the run archive.

## Not modelled

Sockets, TLS, JSON, file contents, coordinates and other floating-point arithmetic,
logging and reports; the protocol library on disk and Python's module cache; the
resource monitor. The control API is represented by its clients, which may ask for
anything at any time. set_relative_position shifts every destination of a follower alike.
Which waypoint a random trip draws makes no difference to its handler. Examples, packaging
and documentation are not part of the service.
