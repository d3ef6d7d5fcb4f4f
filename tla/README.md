# Entropy Hunt in TLA+

A verification project for the Entropy Hunt drone swarm: how drones claim grid
cells, contest them, vote on contests, take back the cells of lost peers, share
their maps, and what the message buses and the control server under all this
promise. The modules are translated from the source; paths below are relative to
the repository's source tree. `PROJECT.json` maps every definition to the lines it models,
lists the hazards of the code with the properties that cover them, and the runs,
findings and theorems.

## 1. Inventory of the system

| Part | State | Operations | Talks to | Modelled in |
|---|---|---|---|---|
| Claim auction, `auction/protocol.py` | none | `resolve_conflict`, `_fallback_assignments` | called by every resolver and voter | `Auction` |
| Consensus resolver, `core/consensus.py` | `_round_id`, `_seen_votes`, `peer_ids` | `resolve_claims`, `confirm_release`, `sync_round_id`, one voting thread per peer | mesh inboxes `consensus::<peer>` | `QuorumRound` (with a mesh), `PeerClaims` (without) |
| Peer claim manager, `simulation/claim_manager.py` | pending, resolved and per-cell claims, processed rounds, released peers | `handle_claim`, `apply_round`, `detect_stale_peers`, `resolve_pending_claims`, `build_and_publish_claim` | resolver, mesh handler, mesh | `PeerClaims` |
| Peer mesh handler, `simulation/mesh_handler.py` | a `DroneState` and a certainty map per known peer | one handler per topic | claim manager by callbacks | `PeerClaims`, `MapGossip` |
| Peer runtime, `simulation/runtime.py` | clock, failure plan, reconnect backoff, own drone | `tick`: control file, failure, reconnect, heartbeat, stale peers, decay, inbox, resolve, move, claim, state, map | all of the above; one process per drone | `PeerClaims`, `MapGossip`, `LiveControl` |
| Drone state, `roles/drone.py` | cell, alive, reachable | assignment, clearing, stale, revive | shared by handler, manager and runtime | `PeerClaims`, `StubSim` |
| Heartbeat registry, `core/heartbeat.py` | last beat per peer, stale set | `beat`, `detect_stale` | beats are stamped by the sender's clock | `StubSim` |
| Certainty maps, `core/certainty.py`; selector, `core/selector.py` | certainty, stamp and author per cell | update, decay, timestamped merge, choice of the next cell | gossiped as snapshots and deltas | `MapGossip`; `Auction` |
| Stub simulation, `simulation/stub.py` | all drones in one process, release and target queues | tick, assign idle drones, heartbeats by quorum, recovery | resolver over the in-memory mesh | `StubSim` |
| FoxMQ bus, `core/mesh.py` | MQTT client, flags, reconnect timer, seen ids, inbox | connect, callbacks, publish, reconnect, close | MQTT broker | `FoxMQBus` |
| Vertex bus, `core/mesh.py`, `core/bridge.py`, `vertex-node/` | helper process, pipe, confirmation event, stall counter | start, publish, reader thread, close | helper, other nodes | `VertexBus` |
| In-memory, null and UDP buses, `core/mesh.py` | inboxes, seen ids | publish, poll | resolver, peers | as channels of the modules above |
| ROS 2 nodes, `ros2_ws/` | target, claims per cell, last result | a contest protocol of their own | ROS topics | `RosContest` |
| Snapshot server, `scripts/serve_live_runtime.py` | control file, snapshot cache | read, change, write back; cached GET | polled by the peers | `LiveControl` |
| Session launcher `runtime/*.ts`, proof logger `simulation/proof.py`, Webots adapter, Voronoi, dashboards, frontend, heatmap, command line | see section 5 | | | not modelled |

Where the difficulty is:

- *Claims and rounds.* Every peer decides contests alone, from its own view and its
  own counter of rounds; claims, rounds, states and heartbeats cross each other on
  a lossy, reordering mesh; clocks drift; suspected peers come back. Correct means: a
  drone gets a cell only by a round, one cell has one owner or two halves, no claim is
  forgotten, round numbers identify rounds.
- *Votes.* With a mesh, vote threads that overran their join live on and share
  inboxes with the next contest. Correct means: votes are what they say, and a minority
  that stalls costs nothing.
- *The fleet.* In the stub simulation failure, detection, release, rescue, recovery
  and two queues compete for the same idle drones, on values computed earlier in the tick.
  Correct means: no cell is given twice, no drone that beats dies, released cells
  and the forced target are served.
- *Maps.* Copies decay and are merged by timestamps of different clocks. Correct
  means: the order of merging does not matter, and finished cells are agreed on.
- *Buses.* Unlocked flags between three kinds of threads (FoxMQ), one event shared by all
  confirmations (vertex). Correct means: a lost connection is tried again, a
  confirmation counts once, a dead helper is given up and a slow one is not.
- *ROS contests.* Nobody is authoritative; losers are pushed to the right.
- *Control file.* Rewritten without a lock and read in the middle of it.

## 2. Modules

| Module | What it models |
|---|---|
| `Auction` | `resolve_conflict`: ranking, ties, losers, every fallback the selector may return. No variables. |
| `PeerClaims` | The peer runtimes: one process per drone, ticks, failures, the mesh as a set of messages on their way, the claim manager and the view of the drones. EXTENDS `Auction`. |
| `QuorumRound` | `resolve_claims` over the in-memory mesh: announcement, vote threads, joins with timeout, snapshot, collection, fallback votes, the exception. EXTENDS `Auction`. |
| `StubSim` | The tick of the stub simulation, step by step. EXTENDS `Auction`; `ResolveRaises` is the outcome of `QuorumRound`'s `Raise`. |
| `CompletionRegistry` | Abstract: cells are finished by a search, or left a rounding short of it, peers learn of finished cells, nobody forgets. |
| `MapGossip` | Certainty maps, decay, deltas and snapshots between drifting peers. Refines `CompletionRegistry`. |
| `FoxMQBus` | Threads, flags and timers of the FoxMQ bus, with its duplicate window. |
| `VertexBus` | Caller, reader thread and helper process of the vertex bus. |
| `RosContest` | Claims, contests and results of the ROS drones. |
| `LiveControl` | Request threads, control file, snapshot cache and polling peers. |
| `MC*` | Small instances for TLC and the reductions they use. |
| `Auction_proofs`, `PeerClaims_proofs`, `QuorumRound_proofs`, `MapGossip_proofs`, `FoxMQBus_proofs`, `VertexBus_proofs`, `StubSim_proofs` | Theorems about the module of that name. |
| `Periphery_proofs` | Theorems about `RosContest` and `LiveControl`, which share nothing. It extends both, so the definitions of `RosContest` that every specification has carry a prefix (`RosInit`, `RosNext`, `RosSpec`, `RosTypeOK`). |

Operators named `<Operator>_<Mistake>` are one-mistake variants (a dropped guard, a
missing synchronisation); they are used by no action. They are what a check puts
in the place of the operator to see that a property notices the mistake.

### PeerClaims and the code

A tick of `PeerRuntime.tick` is cut where another peer or the clock can come in
between; everything inside a step is one action.

| Action | Code |
|---|---|
| `BeginTick`, `Fail`, `Reconnect` | the clock, `_inject_failure` / `_inject_partition_failure`, `_attempt_reconnect` with the rejoin and state it publishes, `publish_heartbeat` |
| `DetectStale` | one turn of the loop of `detect_stale_peers`: release round, its publication and application, `mark_stale` |
| `HandleAlive`, `HandleDroneState`, `HandleClaim`, `HandleRound` | the handler of one message of the inbox |
| `BeginResolve` | the expiry at the head of `resolve_pending_claims` |
| `ResolveCell` | one turn of its loop: contest, publication, `apply_round`, claims marked resolved |
| `EndResolve` | removal of the resolved claims, caps of both id sets |
| `Act` | `_move_and_search`, `_maybe_claim_zone`, `publish_state` |

State: `now`, `phase` (where in the tick), `health` (failure plan and
`_peer_status`), `roundId`, `processed`, `pending`, `resolved`, `released`,
`view[p][q]` (`peer_drones` of p), `part` (reason and subzone of the own seat),
`net` (messages on their way to a peer), and the history `decided`.

Abstractions, each also named in the module:

- Time is in seconds, per peer, and moves by the length of the peer's tick (`tick`).
  That length is any of `TickLengths`, again in every tick: the control file may change it at
  any time. Delay and expiry of claims (`Delay`, `TTL`) follow the length of the moment, as
  in `claim_manager.py:160-175`. Peers drift by interleaving; nothing ties their clocks except
  in the synchronous runs.
- A heartbeat timeout may strike any peer of `Suspectable` at any tick: more
  than the registry allows, so the safety results cover it.
- A message may stay in `net` for ever (loss), be taken late or out of order. It
  is taken once: the UDP bus drops ids it has seen.
- The certainty map and selector return any cell that is not excluded. A drone may
  find its cell searched at any tick, and may decline to claim (everything
  searched, or the survivor found).
- `target_cell` and `claimed_cell` are set and cleared together by every writer and
  are one field.
- `_update_quorum` only changes the names in votes a resolver without a mesh makes
  up; `_quiesce_claims` is called by nobody. Both are left out, as are survivor
  messages. Map messages are `MapGossip`'s, the control file is `LiveControl`'s.

### QuorumRound and the code

`stage` is the program counter of `resolve_claims`; `thread[k][p]` is the vote
thread of peer p in contest k. A thread's poll and its vote are two actions,
because the lock covers each of them only. `Join` waits for every thread except those
of `stalling`, whose join times out; which peers stall is chosen among `MayStall` at the
start. The initiator is the first claimant, as
`_assign_idle_drones` groups them. The resolver's `peer_ids` never change in
the stub simulation. Left out: results in the inboxes (nobody reads them), the
inbox cap, the cap of 2000 seen votes.

### StubSim and the code

`step` is the place in `tick`: `fail`, `recover`, `beat`, `observe`, `mark`, `move`, then the
assignment of idle drones `arm`, `rescue`, `release`, `target`, `select`, `resolve`; `initialise` is a
tick without its first and its moving part. One action per called method, and one turn of a
loop per action where the loop's order matters (`MarkDroneStale`, `ServeRelease`, `Resolve`).
`taken` is the set of claimed cells computed before the loop over contests, kept
because the code does not recompute it. A run has `Duration` ticks and ends (`RunEnds`).
Abstractions: a tick is a second; a drone needs `work` ticks more for its cell, travel
included, so positions and certainty values are gone, and any drone may be the nearest
for the rescue. Heartbeats may be lost, by their sender to all observers at once, as
`failure/network_injector.py:43` drops them, or on the way to one; `Gap[o][d]` bounds
for how long observer o goes without those of d.

### MapGossip and the code

`local[p]` is a peer's own map, `copy[p][q]` its copy of q's, `completed[p]` its
`completed_cells`. Actions: the tick with decay, the search with the delta it publishes,
the snapshot every `Interval` ticks, the receipt of a message, its loss. A peer of `Rejoining`
may publish its snapshot in any tick, since it does so when it rejoins the mesh. A certainty is a
natural number in a unit finer than the four digits `to_rows` keeps (`certainty.py:254`): maps are
sent and remembered through `Rounded`, of which the assumption says that it is monotone, leaves rounded
values and the first certainty alone, and no more; the update of a single cell is sent as it is.
`visited_cells` is the same code with a lower threshold and is left out.

### FoxMQBus and the code

`pc` places the caller (`main`), the client's loop (`loop`) and every timer inside
the methods they run. `_schedule_reconnect`, `_do_reconnect` and the timer's part of
`close()` are cut at every line that touches an unlocked field: the limit (`Check`), the
test of the flag (`Test`), the flag (`Flag`), the counter (`Count`, one step for
`+= 1`), the new timer (`Make`), `daemon` (`Daemon`) and `start()` (`Start`), which both go
through the field; the flag (`Fire`), the field (`Unset`), the test of client and closing (`Ask`)
and the call. A thread that finds in the field no timer, or one that runs already,
dies of the exception (`Dies`), and the history variable `crashed` notes it. The MQTT client is external: it may open, accept, refuse or
drop a connection and redeliver a message, in the orders its callbacks allow.
Back-off delays are left out, since an armed timer may fire at any time: the bus
has to be right for any delay.

### VertexBus and the code

`publish` is cut into clearing the event, testing the process, writing, and
waiting, because the reader thread and the helper act in between. Lines of the
helper are counted, not spelled: a marker line confirms whoever waits. `verdicts` is the
history of publishes (confirmed, stalled, local only).

### RosContest and the code

One row of the grid, since fallbacks stay in it. A drone's timer callback with its
claim, pruning and contests is one action per drone, the receipt of a claim and of a result
others. The 30 seconds after which a claim is trimmed are reduced to: a tick may trim any
claim whose drone is no longer claiming the cell.

### LiveControl and the code

A POST is split where the file changes: reading and the change, truncation
(`Open`), writing (`Write`). A change may keep the time stamp of the one before (`Stamp`):
truncation and writing are closer together than file times are apart. A
peer's look at the file compares times and parses, then applies; the history `reading` notes a peer
that has read the file between two changes of one time stamp. The snapshot directory
changes when control.json does. The threads of `Reader` share the cache: each takes the signature (`Sign`),
finds it in the cache (`Hit`) or not (`Miss`), merges, stores the payload, stores the signature, and
answers with whatever the cache holds by then. Two that fill the cache together may leave the older
payload under the newer signature; the history `crowded` notes that until a thread has filled it alone. An event
stream makes the same call over and over and is a reader too.

## 3. Runs

| Run | Question | Bounds | Result |
|---|---|---|---|
| `peer_foxmq` | Under every fault: does a resolve pass leave anything due, does a claim expire undecided at the peer that made it other than by a tick shortened by more than a third, do a peer's own rounds keep distinct numbers and apply, can anything but a new round give a drone a cell, can anything but another peer's release silence one? `TypeOK`, `NoOverdueClaim`, `OwnClaimDecided`, `OwnIdsDiffer`, `OwnRoundsApply`, `CellOnlyByRound`, `DeadByRelease` | 2 peers, 1 cell, 3 ticks of 4 s, the last of peer 1 possibly of 1 s, delay of 2 ticks, one suspectable and crashing, id sets capped at 1 | holds, 2.0 million states |
| `peer_lockstep` | With two drones and no fault at all, has a cell that was won one owner? `WinnersExclusive` | 2 drones, 3 cells, 3 synchronous ticks | holds, 1.5 million states |
| `peer_conflict` | The same for every cell, fallbacks included: `Exclusive` | the same | violated (finding 1) |
| `quorum_stalled` | Whoever stalls, does the call end and are collected votes real; does one stalled voter of three cost a quorum? `TypeOK`, `RealQuorum`, `LeadStands`, `MinorityStallHarmless`, `ResolveEnds` | 3 peers, 2 contests, one peer or all may stall | holds, 135 000 states |
| `quorum_fabricated` | Were the votes of a contested round cast? `VotesWereCast` | the same | violated (finding 2) |
| `stub_sim` | Who may share a cell, who may die, may the run die of an unanswered contest after its start, does recovery hold, are released cells served, does the run end with the forced target found? `TypeOK`, `SharedOnlyAfterRelease`, `OnlySilentDie`, `RaiseOnlyAtStart`, `RecoveryHolds`, `ReleasedIsServed`, `ForcedTargetIsFound` | 3 drones, 4 cells, 8 ticks, the times of the schedule at 1 to 4, the beats of one drone lost to all for a tick or to one observer for two | holds, 1.7 million states |
| `map_gossip` | Is the merged map independent of the order of merging, does hearsay come back, do quiet peers agree, are the finished cells a registry? `TypeOK`, `MergedIsLatest`, `NoEcho`, `QuiescentAgreement`, `RegistrySpec` (refinement of `CompletionRegistry`) | 3 peers, 1 cell, two peers search, 2 ticks of one peer and 1 of the others, 6 messages under way, 1 loss | holds, 568 000 states |
| `foxmq_bus` | Is a dying thread the only way to lose the way back to the broker, and is a message in the inbox only once in a window? `TypeOK`, `WayBack`, `OnceInWindow` | 2 timers, 2 attempts, 3 messages, window of 2 | holds, 2.0 million states |
| `vertex_bus` | Which lines confirm, what does a dead helper cost, when is the bridge given up? `TypeOK`, `NoLineTwice`, `DeadHelperStalls`, `DeadHelperIsLeft`, `GivenUpInARow` | 6 messages, 1 packet heard, threshold 3 | holds, 238 000 states |
| `vertex_strict` | Does a strict bus stay off the in-process fallback? `StrictNeverFallsBack` | the same | violated (finding 3) |
| `ros_contest` | How far do contests push a drone, and off the grid? `RosTypeOK`, `PushedByRank` | 3 drones on 3 cells launched at the first, one fails, 1 or 2 results under way to a drone | holds, 1.3 million states |
| `live_control` | What do POSTs, half-read files, equal time stamps and a shared cache lose, and until when? `TypeOK`, `SequentialPostsStick`, `AnswerIsFresh`, `SettlesOnFile` | 2 POST threads, 2 readers, 1 peer, 2 keys, 2 POSTs | holds, 501 000 states |

Why the bounds show what they should:

- Two peers are enough for both sides of every race between a decision and a
  message about it. Three ticks let a claim be made, travel, mature and be
  decided; it expires where the last tick is short, a second instead of four, and
  `OwnClaimDecided` without its exception is violated there. That exception follows from
  the code's own arithmetic: the third tick comes an old tick and a new one after the claim, and a
  claim lives for four new ones. A cap of one makes eviction happen at every second round.
- The contests of `QuorumRound` are a lone claim, a tie of two and an early claim
  against nearer ones; three peers make a quorum two, so one stalled voter is a
  minority and two are not. Two rounds let a thread of the first contest disturb
  the second.
- In `stub_sim` the failed drone drops off, is condemned by a majority of two, its cell
  released, and served by an idle drone or one rescued from its work, while the target is forced
  and the failed drone revived; a cell takes up to three ticks, so that nobody may be idle when it
  is released. A beat lost to everybody for as long as the timeout, and one observer who misses it for
  longer, make a minority of wrong votes. Eight ticks are enough for the forced target on every path of
  this instance; with seven `ForcedTargetIsFound` is violated. It also counts a run in which the survivor's cell
  was searched to the end before its unlock time, as somebody's fallback: the forcing then ends without a find.
- In `map_gossip` one search finishes the cell if it follows one decay; after two it leaves the
  cell a rounding short, which a receiver of the map counts as finished and the searcher does not. The peer that only listens
  holds copies of both others, in either order of hearing, with stamps of either being the larger.
- In `foxmq_bus` two timers, the caller and the client's loop can be inside
  `_schedule_reconnect` at once, and two attempts reach the limit; four remembered messages are two
  windows. Reconnects are scheduled while the inbox holds one message at most (`EarlyLosses`), and nothing
  is published or explored once the bus is closed.
- In `vertex_bus` six messages are one under way when the helper dies, the stalls that give it
  up, one before and one after.
- `ros_contest` has three drones on three cells, all launched at the first: the second may be pushed by
  one cell and there is room for two, and the last loses contests on two cells. With as many cells as
  drones nobody is pushed past the last cell, so the clamp there is exercised by no
  step of this run; `ContestsStayOnGrid` covers it for any grid. `FewResults` bounds the results under way: those to the
  last drone may overtake each other.
- In `live_control` a behaviour has peers and POSTs one after the other, or readers (`Apart`): readers and peers share
  nothing but the file, and to a reader overlapping POSTs are changes of the file like others. Without
  `crowded` or `reading` the properties that name them are violated.
- `PollRunsOut` and `TickRunsOut` (action constraints) let a peer that has begun on
  its inbox finish its tick at once. What it does then touches only its own state and
  adds messages to others; it commutes with the steps left out. With
  `TickRunsOut` the opening of the tick is included, which is sound only where
  nobody fails and nobody is suspected, as in the two lockstep runs.
- `FirstIsNear` is a bound, not a symmetry. In `PeerClaims` the claims of drone 1 have the
  small distance, so it is nearer or ties; in `StubSim` the first claimant of a cell is as
  near as any, so the failing drone, the second, has half of the cell or a fallback when it fails.
- The view `WithoutHistory` drops `decided`, which no action reads and the properties
  of the two lockstep runs do not mention.
- Symmetry is used only for safety: the timers of `foxmq_bus`, the peers and the cells
  of `map_gossip` are interchangeable.
- `ros_contest` and `live_control` check deadlock; the others end by
  design, at `config.duration`, at a bound, by `close()` or with an exception.

Fairness. `PeerClaims`, `MapGossip`, the buses and `RosContest` state none: their properties are about
safety, and a mesh that loses messages with peers that stop justifies no more.
`QuorumRound` assumes that the calling thread runs (`WF(Main)`) and that the vote threads
of peers outside `stalling` do: they are threads of one live process that block only on
short-held locks. `StubSim` needs none: `run()` is a loop over a fixed number of ticks, so what must have
happened is an invariant of its end (`ForcedTargetIsFound`). `LiveControl` assumes that a request that has begun ends and that peers
go on ticking; no request has to come.

### Findings

1. `Exclusive` (`simulation/claim_manager.py:85`). The README speaks of conflicts
   resolved through Byzantine-fault-tolerant consensus over a P2P mesh. In the peer
   runtime each peer's resolver has no mesh: it decides alone and numbers the
   round from its own counter. The other peer has used the same number for a
   round of its own and drops the message. In the counterexample, with no loss and no
   failure, both peers give the contested cell to drone 1, but their selectors, which look
   at maps of their own, send the loser to different cells. Drone 2 works on the cell
   its own peer picked; peer 1 believes it elsewhere, and drone 1 claims and wins that
   very cell when it is done with its first.
   What remains true of two drones without faults is `WinnersExclusive`, checked by `peer_lockstep`
   and proved (section 4). Of three it is not, in lockstep either, as a simulation of
   that instance shows: the round of the second peer that gives drone 1 its cell may come to the third before
   drone 1's own state of the tick before, which empties the cell in the third peer's view again;
   drone 3 then claims and wins it. Nothing orders the messages of two senders, and a state carries no
   round number.
2. `VotesWereCast` (`core/consensus.py:315`). The audit says consensus collects
   real votes over the mesh. When at least one vote arrives but fewer than a
   quorum, the call returns a vote of every peer for its own decision, indistinguishable
   from collected votes. `RealQuorum` says the other return path is sound.
3. `StrictNeverFallsBack` (`core/mesh.py:445`). With `--mesh real` the constructor raises
   instead of falling back, and says that falling back "is not allowed". `publish` does not
   look at the strict flag: after three stalls in a row it closes the bridge and delivers
   in the process for the rest of the run. The run shows it with a helper that died.

## 4. Theorems

TLAPS checks these for all values of the constants allowed by the named assumptions
(`AuctionAssumption`: drones, cells and distances are numbers, `None` is neither a
cell nor a drone; `PeerClaimsAssumption`, `QuorumRoundAssumption`, `MapGossipAssumption`,
`FoxMQBusAssumption`, `VertexBusAssumption`, `RosContestAssumption` with `NoneAssumption`, `LiveControlAssumption`
with `TextAssumption`: ranges of the parameters, finite sets of actors, markers that are no data).
The runs evaluate all of them.

| Theorem | States | Invariant |
|---|---|---|
| `AwardType` | every claimant ends a contest with a seat on a cell | none: about operators |
| `AwardExclusive` | one contest gives no cell to two drones, except as two halves | none |
| `TypeCorrect` | `[]TypeOK` of `PeerClaims` | `TypeInv` |
| `IdsNeverRepeat`, `OwnRoundsAlwaysApply` | `[]OwnIdsDiffer`, `OwnRoundsApply` | `CounterInv` |
| `NoClaimOverdue`, `OwnClaimsAreDecided`, `CellsComeByRounds` | `[]NoOverdueClaim`, `OwnClaimDecided`, `CellOnlyByRound` | `ClaimInv` |
| `DeadOnlyByRelease` | `[]DeadByRelease` | `SilenceInv` |
| `WinnersKeepTheirCells` | `InLockstep` implies `[]WinnersExclusive` | `LockInv` |
| `QuorumsAreReal`, `LeadsStand` | `[]RealQuorum`, `[]LeadStands` of `QuorumRound` | `RoundInv` |
| `RoundTypeCorrect` | `[]TypeOK` of `QuorumRound` | `TypeInv` |
| `MinorityStallsAreHarmless` | `[]MinorityStallHarmless` | `SteadyInv` |
| `MergedHoldsLatest` | `[]MergedIsLatest` of `MapGossip` | `GossipTypeCorrect`'s types; about a fold |
| `GossipTypeCorrect`, `NothingEchoes`, `QuietPeersAgree` | `[]TypeOK`, `[]NoEcho`, `[]QuiescentAgreement` of `MapGossip` | `GossipInv` |
| `MapsImplementRegistry` | `Spec => RegistrySpec`, the refinement of `CompletionRegistry` | `GossipInv` |
| `FoxTypeCorrect`, `AlwaysAWayBack` | `[]TypeOK`, `[]WayBack` of `FoxMQBus` | `FoxInv` |
| `RememberedOnce` | `[]OnceInWindow` of `FoxMQBus` | `WindowInv` |
| `BusTypeCorrect`, `LinesCountOnce`, `DeathIsNoticed`, `DeadBridgesClose`, `OnlyRunsClose` | `[]TypeOK`, `[]NoLineTwice`, `[]DeadHelperStalls`, `[]DeadHelperIsLeft`, `[]GivenUpInARow` of `VertexBus` | `BusInv` |
| `StubTypeCorrect` | `[]TypeOK` of `StubSim` | `StubType` |
| `OnlyStartRaises` | `TwoCells` implies `[]RaiseOnlyAtStart` | `StartInv` |
| `BeatingDronesLive`, `RecoveryLasts`, `ReleasesServed` | `HeardInTime` implies `OnlySilentDie`, `[]RecoveryHolds`, `[]ReleasedIsServed` | `MeshInv` |
| `CellsAreShared` | `TwoCells` and `HeardInTime` imply `[]SharedOnlyAfterRelease` | `ShareInv` |
| `ContestsStayOnGrid`, `NoDronePushedTooFar` | `[]RosTypeOK`, `[]PushedByRank` of `RosContest` | `PushInv` |
| `ControlTypeCorrect`, `SequentialPostsAreKept`, `AnswersAreFresh` | `[]TypeOK`, `[]SequentialPostsStick`, `[]AnswerIsFresh` of `LiveControl` | `ControlInv` |

**The auction.** `RankInjective`: two claims have different ranks, by `PrecedesTotal` and
`PrecedesStrict`; `SeatsOnContested`: only ranks 0 and 1 can keep the contested cell;
`PicksDiffer`: a later loser's free cells exclude the earlier picks. `AwardExclusive` is about
one contest and marks where finding 1 comes from: one contest never hands a cell out
twice, two peers' contests do.

**Round numbers.** `OwnIdsDiffer` is not inductive: nothing in it relates a new number to the old ones.
`CounterInv` adds that the counter is at least every number the peer has processed
(`RoundsBelow`) and every number of its own rounds (`DecidedBelow`). It is
`sync_round_id` and the increment before use that preserve it, and the two
theorems follow because a new round is numbered above the counter.

**Claims.** `ClaimInv` has three parts besides the types. `MailFromOthers`: no message comes back to its sender, so
a peer's own view changes only by itself and by rounds. `InTime`: between ticks a claim of the peer's own
is younger than the delay by the present length of the tick, and either new or a tick old at least. The next
tick may have any length, and delay and expiry with it. With a delay of one tick the claim is then
due and cannot have expired; with the two of foxmq it can, if the new length is less than two thirds of
the old one, which is the exception in `OwnClaimDecided`.
`NothingDue`: after the resolve pass of a tick nothing pending is due, until the clock moves.
`SilenceInv` adds that a release on its way was decided by its sender (`FromDecider`), from which it
follows that a peer marks itself dead only on another's decision.

**Winners in lockstep.** `WinnersKeepTheirCells` assumes `InLockstep`: synchronous ticks, the local
transport, no failure plan, no suspicion, ticks of one length, a cap of at least two and at most two peers, but any cells,
distances and duration. It is the setting of `peer_lockstep`; the invariant uses each of these conditions, and
for a third peer the property is false (finding 1). Nothing in the code compares the two peers' rounds, so the invariant says
why they agree. `StepInv`: the peers are at most a tick apart, what was sent in a tick is taken
before the next resolve pass, and a claim is decided in the tick after it was made. `RoundInv`: the peers hold the
same claims, but for contests one has decided already (`Agreed`); those rounds are on
their way to the other, numbered without a gap above its counter, in the order of the cells, and seat the winners
as its own decision would (`Numbered`, `NewsSorted`, `NewsDecides`). So a peer takes a round for a contest it has open and
applies it, or decides the contest itself under the same number and drops the other's; the number may
only be one of the last two, which the cap spares (`LateRounds`, `LastTwo`). The fallbacks
of the losers may differ, which is finding 1, and `Settles` leaves them out. `OwnerInv`: a
winner's cell is known to the other peer, or the round that says so is on its way and no older state message comes
after it (`Told`, `Knows`); whoever knows it does not claim that cell (`Respects`); a winner
claims nothing. A contest settled next cannot be for a cell the other drone holds (`HoldersApart`).
`SettleForetold` and `SettleFresh` are the two ways a contest ends.

**Votes.** `RoundInv` of `QuorumRound` follows a vote on its path. Wherever it lies (snapshot,
inbox, collected), a thread cast it (`PathInv`); the votes of one contest agree, because
a voter's own map changes only fallbacks (`LeadFixed`) and votes of the present contest
name its lead (`CastInv`); so two votes of one voter in a contest are one vote, a
quorum of votes is a quorum of voters (`QuorumOfVoters`), and no majority can differ
from the lead (`MajorityOfOne`). The branch of `resolve_claims` that
reorders the assignments (`core/consensus.py:330-342`) is dead code.
`SteadyInv` follows the vote of a peer that does not stall. None of its threads outlives a
contest (`NoneLeft`), so only its own thread of the present one empties its inbox;
until the joins its thread is polling with the call in the inbox, voting, or done with its
vote in the snapshot (`InTime`); afterwards, if the initiator is steady too, its vote is in the
snapshot, in the initiator's inbox or collected (`InSight`), and a voter marked as seen in
this contest is one collected in it (`SeenReceived`). When the inbox is empty of votes
every steady peer has been counted, and an injection of them into the votes
makes a quorum (`SteadyQuorum`).

**Maps.** `GossipInv`: rows of q's map, in its own map, in copies or in messages, show
a cell above its first certainty only if q searched it and finished, before or after rounding, only if somebody
left it so (`MapsHonest`, `MailHonest`). That needs no timestamps: decay only
lowers, rounding is monotone and does nothing more the second time, and deltas carry q's own cells. `NobodyLeftOut`: while nothing is lost, whoever does not know
of a finished cell has a delta about it under way. `KnownIsShown`, every cell held finished was finished or
left within a rounding of that, gives the refinement; a search that ends there is `Approach` of the registry. What the four
digits cost is in `QuiescentAgreement`: peers may differ for good over such a cell, and over no other.
`MergedIsLatest` holds in every state, because of what the fold over the copies computes
(`FoldLatest`): a merge of two entries is one of them and at least as new as both (`NewerPicks`), and the
fold over a set of copies is one merge with the fold over a set smaller by one (`MergedUnfolded`, `FoldExists`). The
induction over the size of the set is spelled out on the set of sizes for which the claim holds (`EverySize`).

**FoxMQ.** The flag `_reconnect_scheduled` is tested and set without a lock, so two
threads can both make a timer, and the name of one is forgotten. What is inductive is
`Backed`: behind a set flag stands an armed timer, a thread between raising the flag and
starting its timer, or the death of one, since the flag is cleared by a timer's own thread only.
`Returning` follows the thread that noticed the loss through the cut test, and the timer's
through its call. `Limited` bounds by how much the unlocked counter may pass its
limit: an attempt for every other thread.

The exception in `WayBack` is a weakness of the code. A timer fires and clears the flag
(`mesh.py:885`); the client's loop, disconnected again, passes the test, sets the flag and puts its
new timer into the field (871, 899); the first timer clears the field (886); the loop dies at
900. The flag is up, nothing is armed, and when the first timer's own reconnect
fails, its `_schedule_reconnect` returns at 869. Without `crashed` TLC finds this in 27 steps. No comment or
document promises otherwise, so it is no finding of a run, and the theorem says
that it is the only way to lose the way back.

The window of seen ids is not the newest part of the inbox: `publish` and the client's thread each store a
message and then remember its id, in two steps, so a message may come into the inbox before another one
and be remembered after it. `WindowInv` says how far that goes. An id in flight is in the
inbox and not yet remembered; all ids remembered after x, or in flight, came into the inbox after x too, except
one at most (`InOrder`), so an id that has left the window left it after `SeenCap - 1` others (`Gone`), and one
that comes again is stored at least a window later than before.

**Vertex.** `Earned`: an event seen by a waiting caller was set after its publish cleared it, so
confirmations never outnumber lines read; `Accounted`: lines are relayed messages, packets and the
announcement; `Ordered`: the pipe is a queue without repetition; `Counted`: the stall counter
counts the last verdicts; `Mourned`: past the test of the process, a dead helper died under this very publish.

**The stub simulation.** `StubType` adds to `TypeOK` that a drone with a cell has work left on it, without which
the last tick of a search would count below zero. The other three invariants rest on it.
`StartInv` is about the exception nobody catches: before the clock runs every drone is idle and nobody has a cell, so the
first pass picks one cell for all of them, its contest sets `contention_complete`, and from then on the selector
gives no cell to two claims of a pass (`OneContest`). It needs `TwoCells`, a grid larger than the survivor's cell: on the
grid of that one cell, blocked until its time, the first contest would come later.
`MeshInv` counts observers. A drone that has just beaten is missed by those only that may go without its beats for longer than
the timeout (`Heard`); at most one drone is off the mesh (`OneFailure`), so `HeardInTime`, at most half as many such observers as there are
other drones, keeps them short of a majority of whoever is online (`NoBeatingDroneCondemned`). So
only the drone of the scheduled failure is ever marked dead, once, one cell is released in a run, and one drone is enough to serve
it (`OneRelease`, `Attended`). The hypothesis is about the losses, not the code. A lost publish counts for every observer at
once, so it says that no drone loses its beats to all for longer than the timeout, nor comes back from a failure
unheard. The option `--packet-loss` drops beats at random and keeps to that only with luck: when it does not, a
live drone is declared dead, and the four theorems, `CellsAreShared` among them, say nothing of the rest of that run.
`ShareInv` adds what the two queues and the contests rely on: a target waiting in its queue is held by nobody online unless it is
the released cell, and then no idle drone is left to claim anything (`TargetFree`), and what is claimed is
held by nobody (`ClaimsFree`). In the first contest `AwardExclusive` does the rest; later ones have one claim (`LoneWinner`).

**ROS.** `ClaimsReach`: every claim, wherever it is (in a claimant's map, under way, in a result), is for a cell its drone
may reach by its rank; a loser is not the smallest contender, so one step right stays within
its own rank.

**Control file.** While no POST overlapped another one, one thread at most is at work, what it will write is the
last settings with its own over them, and the file is those settings except between truncation and
writing (`FileInv`). `CacheInv` has three parts. What a reader has merged is no older than the signature it took
(`TimesInv`). A reader that fills the cache alone holds what is no older than the cache's signature and
than those of all readers about to answer (`AloneInv`): they took theirs, and whoever wrote the cache's was done, before it read. So once it has
stored, the cache is right again, and it stays so until two fill it together (`CalmInv`).

Only model-checked: the liveness properties `ResolveEnds` and `SettlesOnFile`
(fairness and `ENABLED` are out of the prover's reach), `ForcedTargetIsFound`, which depends on how the times of the
schedule relate to the duration, and whatever a run finds violated.

## 5. Not modelled

- The session launcher (`runtime/*.ts`) supervises operating system processes; its state and
  its races are those of processes and signals outside the program.
- The proof logger (`simulation/proof.py`) is a buffered append-only file nothing reads before the
  run is over.
- The Webots adapter wraps the peer runtime with physics. The Voronoi partition, dashboards, frontend,
  heatmap and exports present state and decide nothing; the command line parses arguments.
- The selector's scores are floating-point arithmetic over the map. The models let it choose any
  cell it may, so what holds for them holds for any score.
- The vertex node's table of peers (discovery, eviction): the Python side keeps no state about
  it, and `VertexBus` models the one helper by what it relays, hears and prints.
- The framing of the snapshot server's event streams (their reading of the cache is a GET's) and the content of merged payloads; ROS telemetry and the
  operator node, which only listen; survivor messages, whose receipts are only counted.
- Exact heartbeat registries of drifting peers: in `PeerClaims` a suspicion may strike at any time,
  which covers any drift. `StubSim` has the registries of the stub simulation, whose drones share a clock.
- History, topic patterns and caps of the in-memory bus; signatures, rate limits and back-off delays of the others.

Hazards that no property covers have a note in `PROJECT.json` that says why.
