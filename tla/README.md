# DroneSwarmSim: a TLA+ verification project

This directory holds TLA+ modules that model the control logic of
DroneSwarmSim, the TLC configurations that model-check them, and TLAPS proofs
of the properties that matter most. `PROJECT.json` is the machine-readable
index: components, runs, mutants, the map from definitions to source lines,
findings, hazards and theorems.

Paths below are relative to the repository; `W/` stands for
`src/ws_px4_ros/src/` and `EP/` for `W/ego-planner-swarm/src/planner/`.

## 1. The system

The repository is a ROS 2 workspace (one ROS 1 package set, RACER, is kept
beside it) that flies PX4 drones in simulation: visual SLAM gives odometry, an
EGO planner replans B-spline trajectories around obstacles and around the other
drones, a trajectory server samples them, and small PX4 modes and mode executors
pass the samples to the autopilot or land on an ArUco marker.

The last column says which module models the component; "-" means none, for the
reasons in section 5.

| Component | State | Operations | Talks to | Module |
|---|---|---|---|---|
| Replanning state machine (`EP/plan_manage/src/ego_replan_fsm.cpp`) | execution state, goal, trigger, emergency flag, trajectory in force, other drones' trajectories, startup chain | exec timer (10 ms), safety timer (20 ms), odometry, goal, trigger, broadcast, startup-chain callbacks; nested spins in `init` and `planNextWaypoint` | planner manager, grid map, trajectory server, other drones | `EgoReplanFSM`, `SwarmStartup` |
| Planner manager (`planner_manager.cpp`) | local and global trajectory, trajectory buffer of the swarm | `reboundReplan`, `EmergencyStop`, `checkCollision`, `planGlobalTraj` | state machine (calls) | `EgoReplanFSM` (outcomes) |
| Trajectory server (`traj_server.cpp`) | B-spline received, its start time, last yaw | `bsplineCallback`, 10 ms `cmdCallback` | autonomous navigation mode | - |
| Swarm bridge (`EP/rosmsg_tcp_bridge`) | one TCP connection to the next drone, UDP sockets, shared buffers | chain messages over TCP, trajectories and odometry over UDP broadcast | bridges of other drones | `TcpBridge` (TCP) |
| Grid map (`EP/plan_env/src/grid_map.cpp`) | occupancy and inflation buffers, depth/odometry freshness | sensor callbacks, `updateOccupancyCallback` timer | state machine (collision queries, depth timeout) | `EgoReplanFSM` (depth watchdog) |
| Autonomous navigation (`W/urop_navigation_control`) | executor state, mode activation, readiness for a waypoint | arm, ascend, navigate; goal handshake with the planner; lifecycle node transitions | PX4, planner | `AutoNavigation` |
| Precision landing (`W/precision_landing`) | executor state, one mode per phase, last marker pose | arm, take off, fly up, find marker, move above, descend, land | PX4, marker detector | `PrecisionLanding` |
| RACER exploration (`W/RACER/swarm_exploration`) | exploration state, hierarchical grid ownership, pending pairwise request, other drones' states | `FSMCallback`, state/opt/opt-response/trajectory messages and timers | other drones | `RacerPairOpt` (exchange of cells) |
| RACER multi-map manager | chunk lists per drone | chunk stamps and chunk exchange | other drones | `MultiMap`, `ChunkGossip` |
| Test node (`W/test_node`) | offboard state, service flags | arm/offboard request sequence, circle flight | PX4 | - |
| Transforms (`W/tf2_transforms`, `W/px4_ros_utils`, `slam_ekf2_odometry.cpp`) | latest message, first-message offset | republishing | SLAM, PX4 | - |
| Launch (`src/ws_px4_ros/launch`, `src/isaac_ros_ws/launch`) | processes started | sequencing on process events | all | - |

`W/rtabmap_ros`, the LKH solver, the simulators under `uav_simulator`, the
optimisers and searches (`bspline_opt`, `path_searching`) and the empty
submodules (PX4, `px4_ros2`, Isaac ROS) are third-party or numerical code: they
appear in the models as environment only.

### What is hard about it

* **Callbacks in any order.** The planner is single-threaded, but a timer, a
  broadcast, a goal and the depth timeout may come in any order and each changes
  the same state; none of them checks what another has just decided.
* **Spinning while spinning.** `planNextWaypoint` spins the node until the
  machine is in EXEC_TRAJ. In `init` that is legal, in a callback rclcpp throws.
* **Implicit flags.** `flag_escape_emergency_` is never initialised and is set on
  one of four paths; `flag_depth_odom_timeout_`, `have_recv_pre_agent_` and
  several flags of the PX4 modes are set and never cleared.
* **Messages between drones** are sent once (startup chain), broadcast without
  order (trajectories), answered once with a timeout (grid reallocation), or asked
  for again and again (map chunks).
* **Mode executors** that continue, or silently stop, on a failed phase, and
  modes whose members survive from one activation to the next.

The list with lines is `hazards` in `PROJECT.json`.

### Correctness of each component

* State machine: it evaluates a trajectory only when there is one; what it
  executes leads to the current goal; an emergency leads to a stop that stays;
  waypoints are visited in order; a start needs its trigger; nothing hangs.
* Startup chain and bridge: a drone plans only after all those before it; the
  chains the bridge publishes were sent, in order, at most once, except for what
  it takes for a chain in the place of one that is lost.
* Exploration: a grid cell is never owned by two drones, and never by none; a
  chunk of the map is the same on every drone and reaches all of them.
* Landing: `land()` is called only at the height of the pad of this flight, of which
  the descent has heard; before that the drone sinks only from above the height of
  `InitialFlyUpMode` down to it; and only the active mode commands.
* Navigation: the first goal reaches the planner, no later one takes it down unless
  a signal was late, and a failed phase leaves nobody in charge of nothing.

## 2. Modules

### `EgoReplanFSM` — the replanning state machine

One variable per member of `EGOReplanFSM` that the control reads
(`exec_state`, `have_trigger`, `have_target`, `have_new_target`, `wp_id`,
`end_pt`, `enable_fail_safe`, `flag_escape_emergency`, ...), `local_data` for
the planner manager's trajectory, and three that tell what the environment did
(`have_odom`, `slow`, `depth_timeout`). `pc` says where the process is: inside
`init()`, in the nested spin of `planNextWaypoint`, in `rclcpp::spin`, or down.

| Code | Actions |
|---|---|
| `execFSMCallback` (one case of the switch per action) | `ExecInit`, `ExecWaitTarget`, `ExecSequentialStart`, `ExecGenNewTraj`, `ExecReplanTraj`, `ExecNextPreset`, `ExecFinish`, `ExecReplanDue`, `ExecEmergencyStop` |
| `checkCollisionCallback` (depth check, then scan) | `SafetyNoThreat`, `SafetyNearThreat`, `SafetyFarThreat` |
| subscriptions | `odometryCallback`, `triggerCallback`, `waypointCallback`, `BroadcastBsplineCallback`, `swarmTrajsCallback` |
| `init` / `planNextWaypoint` | `readGivenWps`, `NestedSpinEnds` |
| grid map watchdog, clock | `DepthLost`, `TimePasses` |

A trajectory is abstracted to its kind (none, moving, stop), the goal it was
planned for, whether its local target is that goal (`atEnd`), whether it is so
short that its first two thirds are over once it has ended (`brief`), and how
far it has been executed (`age`: new, replan due, over, over for more than the
0.25 s a broadcast may be old). Planning may succeed or fail at every attempt;
a scan may find nothing, a collision within `emergency_time_`, or a later one.

**Runs.** `ego_manual` (MANUAL_TARGET, as `slam_navigation_launch.py:247` sets it: two
goals, which is enough for a goal to be superseded): stops, goals and liveness. `ego_swarm` (a
preset tour of drone 1, which has a predecessor and a successor: three waypoints,
first, middle, last; chains of 0, 1 and 2 trajectories, too short, right, too
long; real-world start with a trigger): startup, broadcasts and waypoints.
`ego_depth_lost` is a violation, see section 4. `EgoManual.cfg` disables the
deadlock check because the process may really go down: a goal that comes in the
middle of a plan makes `planNextWaypoint` spin a node that is being spun.

**Fairness.** `FairSpec` assumes weak fairness of the exec timer, the safety
timer, the end of `init` and the passing of time. One executor thread serves
both timers and every callback returns, so neither timer can be starved. Of
planning only the first attempt for a new target is fair, because the code calls
the planner and then clears `have_new_target_`, whether the plan succeeds or
not. Nothing is assumed of goals, triggers, broadcasts, odometry or the success
of planning; `EmergencyAnswered` holds although planning may fail forever.

### `SwarmStartup`, `StartOrder` — the startup chain

Several planners, each the machine above reduced to what concerns the chain:
`have_recv_pre_agent`, the buffer `chain`, its state with all the states that
follow a trajectory merged. `link[d]` carries the chains from drone d to d + 1;
it loses but does not reorder, which is what `LossyFifo` says of the TCP bridge
for the chains that were sent.
The actions are `ReadGivenWps`, `ExecInit`, `ExecWaitTarget`, `SequentialStart`,
`GenNewTraj`, `Replan`, `EmergencyRestart`, `Finish`, `SwarmTrajs` (the
subscription), `LoseChain` and `Restart` of a process.
`StartOrder` is the promise: the sequential starts follow the ids. That
`SwarmStartup` keeps it is the property `StartOrderImplemented`.

**Run.** `swarm_startup`: three drones, the smallest swarm with a first, a
middle and a last one; up to two completed tours and one restart, so that a
chain is sent again and a drone forgets one; links two messages deep.

### `TcpBridge`, `LossyFifo` — one link of the bridge

The sender's `main` and callback, the receiver's thread, and the bytes between
them as *parts* of messages, the unit in which a read may split the stream. A
read may return any number of parts. Nothing frames a message: the receiver
publishes what it deserialises whenever its length is that of the read. Of a
read that begins with a message this is exactly that message; of bytes from the
middle of one it may be anything, such as the last 16 bytes of a chain, taken for
a chain without trajectories (`Garbage`). What does not match is dropped, and a
garbled read may end the process. Connections are tried once, accepted once, and
lost when a process stops. `LossyFifo` is the promise: the oldest message that
waits arrives, or the oldest ones up to some message are lost, or something that
nobody sent arrives in the place of one that is lost. The refinement maps the
messages that wait to those of which nothing has been read. `SwarmStartup` uses
the promise without its last part: there a chain is lost or whole.
What a planner does with a chain of a wrong number of trajectories is in
`EgoReplanFSM` (`ego_swarm`).

**Run.** `tcp_bridge`: messages of one and of three parts (whole, split and merged
reads all occur, and two wrong chains from one message), four messages, three stops
(either side twice, the other once).

### `RacerPairOpt`, `GridOwnership` — the exchange of grid cells

Each drone has `swarm_state` (what it knows of every drone, itself included, as
in the code), the pending allocation, and the stamps of what it has handled.
`optTimerCallback` picks a partner and divides the cells, `optMsgCallback`
accepts or rejects, `optResMsgCallback` applies; `droneStateTimerCallback`
broadcasts; `PlanGridTour` is the update of the own cells when a motion is
planned; the rest are the changes of state that decide whether a drone explores.
Time is a counter; intervals are numbers of ticks; a message stays in `net`
until it is too old, so it arrives in any order and, with `repeat_send_num > 1`,
more than once. `GridOwnership` is the promise: cells have one owner, change
hands between two drones in one step, and are given up only when explored.
Because the partner applies an allocation before the requester does, the mapping
(`Effective`) counts the requester's part as soon as an acceptance is on its way.

**Runs.** `racer_pair`: every request is answered before the requester's next
attempt (`AttemptInterval > MaxDelay`), and the age accepted of a state is less than
the interval between exchanges with one partner (`PairOptInterval > Fresh`). Under
these two conditions two drones keep ownership, which section 3 proves. Both launch
files meet the second: the age is 0.2 s, `pair_opt_interval` is 2.0 s
(`single_drone_planner_realworld.xml:119`) or 0.5 s (`single_drone_planner.xml:126`).
`attempt_interval`, 0.4 s and 0.1 s there, matters for the age only when the partner
has just exchanged with a third drone: then only the partner's own check of it rejects the
request. `racer_lossy`: without these conditions
and with every fault at once, an accepted request is not also rejected and
nothing is applied that the partner has not accepted; the type invariant is
checked here, where the most can happen. `racer_solver` (violation): a solver that
fails to divide two cells (a single one is not given to it) empties both drones.
`racer_pair` checks the same property, `ConsistentExchange`, without that failure.
`MCRacerPairOpt` declares what only TLC needs: cells
are interchangeable (`GridSymmetry`, used for a safety property), and
`RelevantPart` leaves out what the drone of highest id knows of the others, which
no action reads since that drone never sends a request. Two drones and one cell
are enough for an exchange to meet a late, repeated or overtaken message; what a
third drone adds is only covered where there is a proof (section 3).

### `MultiMap`, `ChunkGossip` — the exchange of map chunks

`chunks[d][s]` is the vector `multi_map_chunks_[s - 1].chunks_` of drone d, with
placeholders (`Empty`) where the code keeps chunks whose `empty_` is set, and
`NeedQuery` for an own chunk whose occupancy has not been read; `idx_list[d][s]`
is the list of intervals the code keeps beside it. The interval arithmetic
(`findMissedChunkIds`, `mergeChunkIds` and what they call) is translated as
operators over sequences of pairs; a loop of the code is a function of the number
of its rounds (`done`, `output` and `list` inside `RemoveRedundant`, `mergeChunkIds`
and `ListOf`). The numbers of chunks are ints: `MultiMapAssumption` keeps them within
`Infinite`, the largest one, up to which `findMissedChunkIds` takes its complement.

| Code | Definition |
|---|---|
| `findMissedChunkIds`, `findIntersect` | the same, with `NotInOther` for the complement |
| `mergeChunkIds` | the same: `Widened` (an interval that meets others), `Inserted` (one that meets none), then `RemoveRedundant`, which is `Join` from left to right |
| list of the buffered numbers in `chunkTimerCallback` | `ListOf` |
| `updateMapChunk` | `updateMapChunk`: a number of new addresses, of which whole chunks are cut |
| `stampTimerCallback` | `stampTimerCallback`: the lists sent last, which any drone may hear at any later time, several times or never |
| `stampMsgCallback`, `sendChunks`, `getOccOfChunk` | `stampMsgCallback`, `Sends`, `Queried` |
| `chunkCallback`, `chunkTimerCallback` (the chunks; `insertChunkToMap` is numerical) | `chunkCallback`, `chunkTimerCallback`, `Insert` |
| the network | `Lose`; a chunk in `net` may arrive at everybody, again and again |

`ChunkGossip` is the promise, stated without lists, buffers or messages: chunks of
a drone are appended without gaps, settled once by their owner, and only learnt as
the owner settled them; nothing held is lost or changed. `GossipImplemented` maps
the vectors of `MultiMap` to it.

`updateMapChunk` inserts no chunk when the buffer holds exactly `chunk_size_`
addresses, since the comparison of its loop is strict, and then calls `back()` of
the vector; on an empty one that is undefined, and the model ends the process.

**Runs.** `multi_map`: two drones and the ground node; drone 1 makes up to two
chunks of two addresses each, adding one to three at a time, so that the buffer
gets less than, exactly and more than a chunk; one message on its way, the others
being lost at once, which is also how they are delayed past a newer stamp. The two
chunks may come in either order, so that placeholders appear and are filled. The
chunks of other owners would travel independently. `ListOpsExact` compares the
interval operators with set difference and union on all pairs of lists of numbers
up to 5: two or three intervals, which lie apart, touch, overlap and contain each
other. `multi_map_live`: three drones and the ground node (which sends nothing),
one chunk; a chunk may travel by relay.

**Fairness.** The two timers of a drone are weakly fair, and so is the handling of
a stamp that is sent again and again; the arrival of a chunk is strongly fair: what
is sent again and again at last arrives. A network that drops every copy would
refute anything, and the code has no other answer to loss than to send again.

### `PrecisionLanding` — an executor and four modes

`runState` is the executor's function of the same name. `pending` is the state whose
callback PX4 owes; `Succeeded`, `Ended`, `ModeCompleted` and `Takeover` are the
answers it may give. Of each mode there are its subscription and timer (`running`),
the members that survive an activation (`lastArucoPosition`, `targetZ`), and one
action per callback: `position_poll`, `emitCircleWaypoints`, `tvecRvecCallback`,
`arucoCallback`, `checkCompletion`, `arucoMarkerCallback`, `check_landing`. PX4 and
its library are not in `src/`; they are modelled from how the executor uses them.
`Fly` moves the drone by one level or to the place of the setpoint, never below what
it stands on.

The phases go on after a failure, and may complete without a marker
(`MoveAboveMarkerMode` compares with the origin at first). `heard`, a history variable,
says that `DescendMode` has heard of the pad in this flight; it is reset when the
executor is activated, `targetZ` is not. That `land()` is called only at the height of
the pad of this flight (`LandsAtMarkerHeight`) rests in a first flight on `targetZ`
starting as NaN, with which every comparison is false, and in a later one on the height
at which the modes fly: the `targetZ` of the flight before is below it. This is the
assumption `PadAssumption`: the pads are lower than `Lift`, the least that a takeoff
reaches. A pad as high as the drone flies would end a later descent at once, wherever
the drone is (`hazards`). Nothing in the code checks that the drone is above the pad, only its
height, and the properties say no more.

Heights are levels `0 .. Ceiling`. A takeoff ends at any of `Lift .. Ceiling`, for the
altitude that the executor passes (5.0) is one above mean sea level to PX4, and does not
lower the drone; the pilot may take the drone anywhere. `Top`, the z of
`InitialFlyUpMode`, bounds nothing: a drone handed over above it sinks to it before any
marker has been seen, and `DescendsToMarker` names this exception.

**Run.** `precision_landing`: two pads at different places and heights, two
activations, so that members from the first landing are there in the second; levels
0 and 1 for the pads, 2 for the least takeoff, 3 for `InitialFlyUpMode` and 4 above it,
so that every order of the heights occurs that the assumptions allow.

**Fairness and timing.** `Fly` waits while `check_landing` is due or a completion is
on its way: a level takes seconds and `check_landing` comes once a second. For
`PhaseEnds` the answers of PX4, the timers, the marker being seen and the drone
following its setpoint are weakly fair; without a marker the search never ends, and
the code means it not to. Takeovers and failures are not fair.

### `AutoNavigation` — executor, lifecycle node, first goal

The executor (`Activate`, `Armed`, `Ascended`, `Takeover`), the two modes
(`checkAscended`, `sendWaypoint`), the lifecycle node and its asynchronous requests
(`Configure`, `Configured`, `handle_response_1`, `Activated`), and of the planner what
concerns the goal (`sendWaypointSignal`, `waypointCallback`, `execFSMCallback`).
`StartPlanner` is external: the entries of `slam_navigation_launch.py` that would start
the executor (:541-544) and, when the lifecycle node becomes active, the planner
(:545-555) are commented out, no live code starts either, and the model lets the planner
come up at any time. It composes what `EgoReplanFSM` shows of a
single planner, that a goal in the wrong state takes the process down, with the
process that sends the goals: `PlannerSurvives` says that it happens only after a *late*
signal, because the planner stops signalling once it has a goal. A signal is late
(`IsLate`) when it goes out before odometry has come, or before the one of a second ago
has been answered and the goal handled. Nothing in the code rules that out; the history
variable `late` only remembers it. In a run with a late signal the planner does go down
(`hazards`).

**Run.** `auto_navigation`: two activations of the executor, up to two signals on
their way, late ones included. The second ascent never completes, its subscription having been dropped by
the first deactivation; `FirstAscentEnds` is therefore stated of the first.

**Fairness.** PX4 and the node answer, messages and odometry arrive, timers run, the
drone climbs while the ascend mode commands it to, and somebody starts the planner.
Nothing is assumed of the pilot.

## 3. What is proved

The `*_proofs` modules are checked by TLAPS for every value of the constants that the
modules' named assumptions allow.

**`EgoReplanFSM_proofs`**

* `TypeCorrect`, `TrajectoryBeforeUseCorrect`, `GoalFollowedCorrect`: any
  target mode, waypoints, goals and other drones. The last two are inductive
  together with the type invariant.
* `StopIssuedCorrect`, `IdleHasNoTargetCorrect` assume `LoneManual` (manual
  goals, no other drone), the parameters of `slam_navigation_launch.py`. The first needs it: with other
  drones TLC finds a violation at once (section 4). Neither is inductive by itself:
  `EscapeInv` adds that the flag is up while a moving trajectory is in force, and in
  which states the machine may be with the stop trajectory or with none, so that a
  stop that the flag suppresses is always one already issued.
* `StoppedForGoodCorrect` assumes no other drone, `TriggeredStartCorrect` preset
  waypoints, in any swarm: a broadcast may send off only a drone that has flown
  before. Each assumption is one whose absence is a hazard in `PROJECT.json`.
* `WaypointsInOrderCorrect`: any number of waypoints, any swarm. `TourInv`
  ties the waypoint index to the goal and says that `init` has not touched it.

**`SwarmStartup_proofs`**: `StartupTypeCorrect`, `ChainsCompleteCorrect`,
`NoSilentWaitCorrect`, `StartOrderImplementedCorrect`, for any number of drones,
losses and restarts. The inductive invariant `StartupInv` adds to the properties that
started drones are downward closed, that a link is used only by a drone that has
started, that hearing from the predecessor means it has started (`OrderInv`), and that
the first drone's buffer holds nothing but its own trajectory (`ChainInv`). The
refinement follows: a first sequential start is a step of `StartOrder`, every other
step, a repeated start included, is a stutter.

**`TcpBridge_proofs`**: `BridgeTypeCorrect`, `DeliveredInOrderCorrect` (the
chains published were sent, in this order, at most once; before one that was never sent,
and between two chains around it, a chain is missing) and the refinement `FifoCorrect`,
for messages of any sizes and any number of restarts. `OrderInv` adds to the order of
what is published that everything in the stream is newer, and the first part of a message
newer than everything before it too. `FramedInv` says that the messages in the stream do
not get older and that from any part on the rest of its message follows, and then only
newer ones, so that a read of the right length at the beginning of a message takes that
message and no more. Then such a read is `Deliver` of the oldest message; a read from the
middle that is published is `Misdeliver`, and one that is dropped `LoseUpTo`, of the
message of the last part it takes; the end of the receiver is `LoseUpTo` the last message
sent, and the rest are stutters.

**`RacerPairOpt_proofs`**: any number of drones, any cells, any intervals, with
losses, repetitions and reordering. `PairOptTypeCorrect`; `OneAnswerCorrect`, the
copies of a request get one answer; `AppliedByBothCorrect`, a response is applied only
for an allocation its sender has applied. Both rest on `ExchangeInv`: requests on their
way are not newer than the pending one, which is not newer than the last attempt; what a
partner has handled is not newer than what is pending, answers are not newer than what
their sender has handled; and an acceptance of the pending request implies that the
partner's last interaction with the requester carries its stamp. So these two hold in
swarms of three and more, which the runs do not reach. `IdleOwnsNothingCorrect` assumes
a solver that does not fail and frontiers that do not run out.

`OwnershipCorrect` proves the refinement of `GridOwnership`; `OneOwnerCorrect` draws from
it that no cell has two owners; `ConsistentExchangeCorrect` shows that what is accepted
and what is applied covers all that the two drones owned, the property that `racer_pair`
checks and `racer_solver` violates. All three are for two drones, for any cells and
intervals, any number of copies of a request, and any order of arrival, and assume what `racer_pair` assumes: `Reliable`,
`AttemptInterval > MaxDelay`, `PairOptInterval > Fresh`, a solver that does not fail and no
rediscovery. Frontiers may run out. The code does not ensure these conditions, except that
the launch files set `PairOptInterval > Fresh`; `racer_solver` shows what becomes of
`ConsistentExchange` when a solver fails. The runs choose small values, the proof needs only the
inequalities. It rests on `RoundInv`, the state of a round of drone 1's attempts:

* `RequestInv`: a request not yet handled is the pending one, no answer to it exists, and
  its two halves are apart and cover all that both drones own *now*; so drone 2 may take
  its half whenever the request comes;
* `ResponseInv`: an acceptance not yet applied answers the pending request, and drone 1
  still owns no more than the allocation names, which is what lets `Effective` count the new
  half before drone 1 has it;
* `KnownInv`: what drone 1 has of drone 2, or will have from a broadcast on its way, is a
  superset of what drone 2 owns, unless it is older than the last acceptance. This is
  where `PairOptInterval > Fresh` is needed: a state older than the last exchange cannot be
  fresh when the next one is allowed;
* `ClaimInv` and `AppliedInv`: nobody owns a cell or has heard of one before drone 1 has
  claimed them, and what drone 2 has accepted, drone 1 has applied or is about to.

Drone 2 never sends a request, as the code only lets a drone of lower id send to one of
higher id, so the round has one initiator. `StepOwnership` then maps accepting to
`Exchange`, planning to `Explore` or `Claim`, and all other steps to stutters.

**`ChunkGossip_proofs`**: `NothingLostCorrect` (a step takes no chunk and changes no settled
one), `HeldAsSettledCorrect` (what a drone holds of another is settled and equal to what the
owner holds), `OwnWithoutGapsCorrect`, for any number of drones and chunks. Through
`GossipImplemented` they hold of `MultiMap`.

**`MultiMap_proofs`**: `TypeCorrect`, `ListsExactCorrect`, `ListOpsExactCorrect`,
`SameContentsCorrect` and the refinement `GossipCorrect`, for any number of drones, any
`chunk_size_`, any number of chunks up to the largest int, batches of any size, and a network
that loses, repeats and reorders; the run has two drones with chunks, and lists of numbers up
to 5. The proof has three layers.

1. *Recursion.* The library's induction theorems take a predicate, which no prover here can
   instantiate. `SetInduction` is induction over the numbers for a set instead, derived from
   their well-foundedness; with it `RecursionExists` gives a definition by recursion over
   `0 .. n` a solution, so that the functions in `RemoveRedundant`, `mergeChunkIds` and
   `ListOf` have the values their equations say, and `BoundedInduction` gives properties of
   these values.
2. *Lists.* A list whose intervals are `Apart` is determined by the numbers it names
   (`SameIdsSameList`). `WidenedExact` and `InsertedExact` say that before
   `RemoveRedundant` the list has the right numbers and its intervals rise, though they may
   touch or overlap; `RemoveRedundantExact` that it then brings them apart without losing a
   number. Hence `MergeExact` (union), `MissedExact` (difference: the complement of a list,
   with its first interval, gaps and open end, names what the list does not) and `ListOfExact`,
   and from these `OpsExactOnLists` for all lists.
3. *Exchange.* `IInv` adds to exact lists that no own chunk is a placeholder (`OwnInv`), that
   the lists that were sent are apart, and, the heart of it, that every copy of a chunk,
   wherever it is (held by another, in a buffer, or on its way), is settled: its owner has it
   with these contents (`CopiesInv`). `SameContents` speaks of held copies only and is not
   inductive, since a buffered copy becomes a held one. What is sent has been queried, because
   the interval arithmetic finds no chunk missing that the sender does not hold
   (`SendsHeld`): the safety of the contents rests on that of the lists. For the refinement,
   `updateMapChunk` is `Insert` of `ChunkGossip`, `stampMsgCallback` is `Settle`,
   `chunkTimerCallback` is `Learn`, or they are not seen; everything else is a stutter.

`ExchangeLosesNothing` applies `ChunkGossip_proofs` to it: no step of the exchange takes a
chunk from a drone or changes a settled one.

**`PrecisionLanding_proofs`**: `LandingTypeCorrect`, `OneModeCommandsCorrect`,
`LandsAtMarkerHeightCorrect`, `DescendsToMarkerCorrect`, for any places, heights, pads below
`Lift` and number of landings. `ControlInv` says what PX4 may be doing in each phase. `AirInv`:
until the descent has heard of the pad, a mode flies, and leads, no lower than `Lift`;
`HeightInv`: `targetZ` is NaN, or below `Lift` and, once the pad of this flight has been
heard of, its height, and the drone is there from the completion of the descent on. The
two together exclude that `check_landing` succeeds with the `targetZ` of an earlier flight
(`LandingChecked`). `DownInv` says that a setpoint below the drone exists only where the
descent has heard of the pad, or is that of `InitialFlyUpMode`.

**`AutoNavigation_proofs`**: `NavigationTypeCorrect`; `PlannerSurvivesCorrect`, with
`GoalInv`: as long as no signal was late, a signal or a goal is on its way, never both, and
only while the planner waits for its first goal; `FailureEndsProcessCorrect`.

Only model-checked: all liveness (TLAPS does not handle fairness and ENABLED). Every
other property of a passing run is stated by a theorem.
Each property of a passing run also has a mutant: a variant of one definition, such as a
dropped guard, under which TLC finds the property violated.

## 4. Disagreements between the code and what it says

Each has a run that ends in a violation.

| Run | What happens |
|---|---|
| `ego_depth_lost` | "Depth Lost! EMERGENCY_STOP" is overridden by the scan of the same callback, with the fail-safe already off |
| `racer_solver` | The empty allocation of a solver that failed to divide two cells is sent and applied: all cells of the two drones are lost |

Where the code does something surprising that none of its comments, tests or documents
rules out, there is a hazard in `PROJECT.json` and no run:

* a broadcast takes a stopped drone out of EMERGENCY_STOP with
  `flag_escape_emergency_` down, and its next emergency issues no stop;
* a drone whose odometry and trigger come while it is still in `init()` plans out of
  turn and never sends its chain;
* a preset tour that starts through SEQUENTIAL_START begins with the emergency flag down;
* `drone_id = -1` writes through `back()` of an empty vector, and so does a first buffer
  of exactly `chunk_size_` addresses in `updateMapChunk`;
* the simulation's `attempt_interval` of 0.1 s lets a drone use a state of its partner
  that is older than the partner's last exchange with a third drone;
* a second ascent in one process never completes;
* a goal that answers a late signal takes the planner down;
* the entries of `slam_navigation_launch.py` that would start the navigation executor and the
  planner are commented out (:541-555).

## 5. What is not modelled, and why

* **Numerical code**: the B-spline optimiser, A* and kinodynamic searches, occupancy and
  distance updates, frontier and viewpoint computation, the mapping between levels of the
  grid, controllers. In `EgoReplanFSM` a plan simply succeeds or fails; in `RacerPairOpt`
  every division of the cells is possible.
* **Third-party code**: `rtabmap_ros`, LKH with its two copies, `backward.hpp`, the
  simulators and visualisers. It is most of the 150 000 lines of the repository, and the
  repository uses it as it is. The lines that `map` names are therefore some 2 % of all
  lines; they are those of the state machines and protocols of section 2.
* **Trajectory server**: a register of the latest trajectory sampled by a timer; its
  content is the arithmetic of time and yaw.
* **Offboard test node, circle flight, keyboard mode**: alone with the autopilot, launched
  by nothing or without state worth protecting. The condition of the circle flight on its
  height can never be true.
* **Transforms, odometry bridges, marker detector**: conversions of single messages.
* **Launch files**: apart from parameters, which the models take over, they only order
  the start of processes, and what would start the navigation executor and the planner is
  commented out. The models let their processes come up in any order.
* **UDP part of the bridge**: it keeps no state. That broadcasts are lost, late or
  reordered is what `BroadcastBsplineCallback` of `EgoReplanFSM` is exposed to. The
  forwarding of stops is commented out in `main()`.
* **RACER motion planning and trajectory broadcasts**: nothing in the exchange of cells
  depends on them. Restarts are left out of `RacerPairOpt` and `MultiMap` because nothing
  is kept or announced over one, and no code handles it.
* **Three drones in the exchange of cells**: an exhaustive run is out of reach.
  `OwnershipImplemented` is claimed for two drones; a cell of a third drone that has not
  been heard of counts as missed and may be divided by two others (listed as a hazard).

What could follow: the conditions under which three drones keep ownership; the
trajectory server composed with late broadcasts, should it gain control of its own.
