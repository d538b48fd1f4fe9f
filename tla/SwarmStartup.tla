---------------------------- MODULE SwarmStartup ----------------------------
(***************************************************************************)
(* The start of a swarm of EGO planners with preset waypoints.  Drone d     *)
(* sends the "startup chain", the first trajectories of the drones 0 .. d,  *)
(* to drone d + 1 (publishSwarmTrajs, over /drone_d_planning/swarm_trajs or *)
(* the TCP bridge), which waits for it in SEQUENTIAL_START.                 *)
(*                                                                         *)
(* Each drone is EgoReplanFSM reduced to what concerns the chain: every     *)
(* state in which a trajectory is followed is EXEC_TRAJ here.  A link loses *)
(* messages but neither reorders nor repeats them (LossyFifo).              *)
(***************************************************************************)
EXTENDS Integers, Sequences

CONSTANTS
  N,              \* number of drones; their ids are 0 .. N - 1
  realworld,      \* fsm/realworld_experiment: start only when triggered
  MaxFinishes,    \* bound: completed tours, all drones together
  MaxRestarts,    \* bound: restarts of a planner process
  MaxInFlight     \* depth of the QoS of the chain topic

ASSUME SwarmStartupAssumption ==
  /\ N \in Nat \ {0}
  /\ realworld \in BOOLEAN
  /\ MaxFinishes \in Nat /\ MaxRestarts \in Nat
  /\ MaxInFlight \in Nat \ {0}

Drones == 0 .. N - 1

VARIABLES
  exec_state, have_odom, have_trigger,
  have_target,          \* readGivenWps was reached; it stays so
  have_recv_pre_agent,
  chain,                \* ids of the trajectories in multi_bspline_msgs_buf_
  link,                 \* link[d]: chains on their way from d to d + 1
  planned,              \* drones with a trajectory of their own
  chained,              \* drones that have ever taken their sequential start
  lost,                 \* drones that ever missed a chain sent to them
  finishes, restarts    \* counters for the bounds

control == <<have_odom, have_trigger, have_target>>
counters == <<finishes, restarts>>
history == <<chained, lost>>
vars == <<exec_state, control, have_recv_pre_agent, chain, link, planned,
          history, counters>>

ExecStates == {"INIT", "WAIT_TARGET", "SEQUENTIAL_START", "GEN_NEW_TRAJ", "EXEC_TRAJ"}

\* The trajectories of the drones 0 .. n - 1.
Prefix(n) == [i \in 1 .. n |-> i - 1]

Init ==
  /\ exec_state = [d \in Drones |-> "INIT"]
  /\ have_odom = [d \in Drones |-> FALSE]
  /\ have_trigger = [d \in Drones |-> ~realworld]
  /\ have_target = [d \in Drones |-> FALSE]
  /\ have_recv_pre_agent = [d \in Drones |-> FALSE]
  /\ chain = [d \in Drones |-> <<>>]
  /\ link = [d \in Drones |-> <<>>]
  /\ planned = {} /\ chained = {} /\ lost = {}
  /\ finishes = 0 /\ restarts = 0

Enter(d, s) == exec_state' = [exec_state EXCEPT ![d] = s]

-----------------------------------------------------------------------------
(* One drone.                                                              *)

Odometry(d) ==
  /\ have_odom' = [have_odom EXCEPT ![d] = TRUE]
  /\ UNCHANGED <<exec_state, have_trigger, have_target, have_recv_pre_agent,
                 chain, link, planned, history, counters>>

Trigger(d) ==
  /\ have_trigger' = [have_trigger EXCEPT ![d] = TRUE]
  /\ UNCHANGED <<exec_state, have_odom, have_target, have_recv_pre_agent,
                 chain, link, planned, history, counters>>

\* The end of init().  A machine that is already in WAIT_TARGET plans at once.
ReadGivenWps(d) ==
  /\ ~have_target[d] /\ have_odom[d] /\ have_trigger[d]
  /\ have_target' = [have_target EXCEPT ![d] = TRUE]
  /\ \/ exec_state[d] = "WAIT_TARGET" /\ Enter(d, "GEN_NEW_TRAJ")
     \/ exec_state[d] # "WAIT_TARGET" /\ UNCHANGED exec_state
  /\ UNCHANGED <<have_odom, have_trigger, have_recv_pre_agent, chain, link,
                 planned, history, counters>>

ExecInit(d) ==
  /\ exec_state[d] = "INIT" /\ have_odom[d]
  /\ Enter(d, "WAIT_TARGET")
  /\ UNCHANGED <<control, have_recv_pre_agent, chain, link, planned, history, counters>>

ExecWaitTarget(d) ==
  /\ exec_state[d] = "WAIT_TARGET" /\ have_target[d] /\ have_trigger[d]
  /\ Enter(d, "SEQUENTIAL_START")
  /\ UNCHANGED <<control, have_recv_pre_agent, chain, link, planned, history, counters>>

\* Mutant of ChainWithOwn: appends without a look at the size.
ChainWithOwnAppended(d) == Append(chain[d], d)

\* Mutant of ChainWithOwn: the own trajectory carries the successor's id.
ChainWithOwnMislabelled(d) ==
  IF Len(chain[d]) = d + 1 THEN [chain[d] EXCEPT ![d + 1] = d + 1]
  ELSE IF Len(chain[d]) = d THEN Append(chain[d], d + 1)
  ELSE chain[d]

\* publishSwarmTrajs(true): the buffer with the drone's own trajectory put
\* last.  Of the wrong size, it is sent as it is.
ChainWithOwn(d) ==
  IF Len(chain[d]) = d + 1 THEN [chain[d] EXCEPT ![d + 1] = d]
  ELSE IF Len(chain[d]) = d THEN Append(chain[d], d)
  ELSE chain[d]

\* Mutant of SequentialStart: does not wait for the predecessor.
SequentialStartUnordered(d) ==
  /\ exec_state[d] = "SEQUENTIAL_START"
  /\ have_odom[d] /\ have_target[d] /\ have_trigger[d]
  /\ Len(link[d]) < MaxInFlight
  /\ Enter(d, "EXEC_TRAJ")
  /\ chain' = [chain EXCEPT ![d] = ChainWithOwn(d)]
  /\ link' = [link EXCEPT ![d] = Append(@, chain'[d])]
  /\ planned' = planned \cup {d}
  /\ chained' = chained \cup {d}
  /\ UNCHANGED <<control, have_recv_pre_agent, lost, counters>>

\* Mutant of SequentialStart: the chain is not sent.
SequentialStartSilent(d) ==
  /\ exec_state[d] = "SEQUENTIAL_START"
  /\ d = 0 \/ have_recv_pre_agent[d]
  /\ have_odom[d] /\ have_target[d] /\ have_trigger[d]
  /\ Len(link[d]) < MaxInFlight
  /\ Enter(d, "EXEC_TRAJ")
  /\ chain' = [chain EXCEPT ![d] = ChainWithOwn(d)]
  /\ planned' = planned \cup {d}
  /\ chained' = chained \cup {d}
  /\ UNCHANGED <<control, have_recv_pre_agent, link, lost, counters>>

SequentialStart(d) ==
  /\ exec_state[d] = "SEQUENTIAL_START"
  /\ d = 0 \/ have_recv_pre_agent[d]
  /\ have_odom[d] /\ have_target[d] /\ have_trigger[d]
  /\ Len(link[d]) < MaxInFlight
  /\ Enter(d, "EXEC_TRAJ")
  /\ chain' = [chain EXCEPT ![d] = ChainWithOwn(d)]
  /\ link' = [link EXCEPT ![d] = Append(@, chain'[d])]
  /\ planned' = planned \cup {d}
  /\ chained' = chained \cup {d}
  /\ UNCHANGED <<control, have_recv_pre_agent, lost, counters>>

\* From the end of init() or after an emergency stop: no chain is sent.
GenNewTraj(d) ==
  /\ exec_state[d] = "GEN_NEW_TRAJ"
  /\ Enter(d, "EXEC_TRAJ")
  /\ planned' = planned \cup {d}
  /\ UNCHANGED <<control, have_recv_pre_agent, chain, link, history, counters>>

\* An emergency stop (the safety timer is off in WAIT_TARGET) and its end.
EmergencyRestart(d) ==
  /\ d \in planned /\ exec_state[d] # "WAIT_TARGET"
  /\ Enter(d, "GEN_NEW_TRAJ")
  /\ UNCHANGED <<control, have_recv_pre_agent, chain, link, planned, history, counters>>

\* A broadcast of another drone collides, or the safety timer finds a way out
\* of a far collision: replanning from the current trajectory, in any state.
Replan(d) ==
  /\ d \in planned
  /\ exec_state[d] = "WAIT_TARGET" => N > 1
  /\ Enter(d, "EXEC_TRAJ")
  /\ UNCHANGED <<control, have_recv_pre_agent, chain, link, planned, history, counters>>

\* The tour is complete: it starts over at the next trigger.
Finish(d) ==
  /\ exec_state[d] = "EXEC_TRAJ"
  /\ finishes < MaxFinishes /\ finishes' = finishes + 1
  /\ Enter(d, "WAIT_TARGET")
  /\ have_trigger' = [have_trigger EXCEPT ![d] = FALSE]
  /\ UNCHANGED <<have_odom, have_target, have_recv_pre_agent, chain, link,
                 planned, history, restarts>>

\* The planner process of drone d is stopped and started again.
Restart(d) ==
  /\ restarts < MaxRestarts /\ restarts' = restarts + 1
  /\ Enter(d, "INIT")
  /\ have_odom' = [have_odom EXCEPT ![d] = FALSE]
  /\ have_trigger' = [have_trigger EXCEPT ![d] = ~realworld]
  /\ have_target' = [have_target EXCEPT ![d] = FALSE]
  /\ have_recv_pre_agent' = [have_recv_pre_agent EXCEPT ![d] = FALSE]
  /\ chain' = [chain EXCEPT ![d] = <<>>]
  /\ planned' = planned \ {d}
  /\ lost' = lost \cup {d}
  /\ UNCHANGED <<link, chained, finishes>>

-----------------------------------------------------------------------------
(* The chain arrives at drone d, or is lost.                               *)

\* swarmTrajsCallback: the buffer is overwritten before the message is
\* checked; without odometry, or with a wrong size, it counts for nothing.
SwarmTrajs(d) ==
  /\ d >= 1 /\ link[d - 1] # <<>>
  /\ chain' = [chain EXCEPT ![d] = Head(link[d - 1])]
  /\ link' = [link EXCEPT ![d - 1] = Tail(@)]
  /\ \/ /\ have_odom[d] /\ Len(Head(link[d - 1])) = d
        /\ have_recv_pre_agent' = [have_recv_pre_agent EXCEPT ![d] = TRUE]
        /\ UNCHANGED lost
     \/ /\ ~(have_odom[d] /\ Len(Head(link[d - 1])) = d)
        /\ lost' = lost \cup {d}
        /\ UNCHANGED have_recv_pre_agent
  /\ UNCHANGED <<exec_state, control, planned, chained, counters>>

LoseChain(d) ==
  /\ d >= 1 /\ link[d - 1] # <<>>
  /\ link' = [link EXCEPT ![d - 1] = Tail(@)]
  /\ lost' = lost \cup {d}
  /\ UNCHANGED <<exec_state, control, have_recv_pre_agent, chain, planned,
                 chained, counters>>

Next == \E d \in Drones :
  \/ Odometry(d) \/ Trigger(d) \/ ReadGivenWps(d)
  \/ ExecInit(d) \/ ExecWaitTarget(d) \/ SequentialStart(d)
  \/ GenNewTraj(d) \/ EmergencyRestart(d) \/ Replan(d) \/ Finish(d) \/ Restart(d)
  \/ SwarmTrajs(d) \/ LoseChain(d)

Spec == Init /\ [][Next]_vars

-----------------------------------------------------------------------------
(* Properties.                                                             *)

\* Every variable stays within its type.
TypeOK ==
  /\ exec_state \in [Drones -> ExecStates]
  /\ have_odom \in [Drones -> BOOLEAN]
  /\ have_trigger \in [Drones -> BOOLEAN]
  /\ have_target \in [Drones -> BOOLEAN]
  /\ have_recv_pre_agent \in [Drones -> BOOLEAN]
  /\ chain \in [Drones -> Seq(Drones)]
  /\ link \in [Drones -> Seq(Seq(Drones))]
  /\ planned \subseteq Drones /\ chained \subseteq Drones /\ lost \subseteq Drones
  /\ finishes \in Nat /\ restarts \in Nat

\* The chain that drone d sends holds exactly the trajectories of the drones
\* 0 .. d, in this order, whatever was lost, overwritten or restarted before;
\* so the error branch of publishSwarmTrajs ("Wrong traj nums and drone_id
\* pair") is never taken by a drone that has heard from its predecessor.
ChainsComplete ==
  \A d \in Drones :
    /\ \A i \in 1 .. Len(link[d]) : link[d][i] = Prefix(d + 1)
    /\ d >= 1 /\ have_recv_pre_agent[d] => chain[d] \in {Prefix(d), Prefix(d + 1)}

\* The sequential starts follow the order of the ids: the abstract StartOrder.
StartsInOrder == INSTANCE StartOrder
StartOrderImplemented == StartsInOrder!Spec

\* No drone waits in silence: once its predecessor has taken its sequential
\* start, a drone has its chain, or the chain is on its way, unless the drone
\* missed it or was restarted since.
NoSilentWait ==
  \A d \in Drones : d >= 1 /\ d - 1 \in chained =>
    have_recv_pre_agent[d] \/ link[d - 1] # <<>> \/ d \in lost

=============================================================================
