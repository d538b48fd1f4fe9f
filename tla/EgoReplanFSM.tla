---------------------------- MODULE EgoReplanFSM ----------------------------
(***************************************************************************)
(* The replanning state machine of the EGO planner (class EGOReplanFSM of  *)
(* ego_replan_fsm.cpp).  The node runs on one single-threaded executor, so *)
(* each callback (exec timer, safety timer, odometry, goal, trigger,       *)
(* broadcast and swarm messages) is one atomic action; the only place      *)
(* where callbacks run inside another call is the nested spin of           *)
(* planNextWaypoint, modelled by pc = "nested".                            *)
(*                                                                         *)
(* Geometry is abstracted to what the control decides on: whether planning *)
(* succeeds, whether the trajectory in force leads to the goal itself, how *)
(* far its execution has progressed, and what the collision scans report.  *)
(***************************************************************************)
EXTENDS Integers

CONSTANTS
  target_type,     \* "MANUAL_TARGET" or "PRESET_TARGET"  (fsm/flight_type)
  waypoint_num,    \* number of preset waypoints          (fsm/waypoint_num)
  realworld,       \* fsm/realworld_experiment: start only when triggered
  drone_id,        \* manager/drone_id; -1 (or less) is a lone drone
  OtherDrones,     \* ids of the other drones whose broadcasts are received
  Goals,           \* points an operator may send in MANUAL_TARGET mode
  SwarmMsgSizes,   \* numbers of trajectories a MultiBsplines may hold
  NoPoint          \* end_pt before any target was set

Manual == target_type = "MANUAL_TARGET"
Preset == target_type = "PRESET_TARGET"
Points == IF Preset THEN 0 .. waypoint_num - 1 ELSE Goals

ASSUME EgoReplanAssumption ==
  /\ Manual \/ Preset
  /\ waypoint_num \in Nat \ {0}
  /\ realworld \in BOOLEAN
  /\ drone_id \in Int
  /\ OtherDrones \subseteq Nat \ {drone_id}
  /\ SwarmMsgSizes \subseteq Nat
  /\ NoPoint \notin Points

VARIABLES
  pc,                    \* where the process is, see PcStates
  exec_state,            \* FSM_EXEC_STATE
  have_odom, slow,       \* odometry seen; its last speed was below 0.1 m/s
  have_trigger, have_target, have_new_target,
  wp_id, end_pt,         \* preset waypoint index, current goal
  enable_fail_safe,
  flag_escape_emergency, \* never initialised by the code
  local_data,            \* trajectory in force, also the last one published
  depth_timeout,         \* GridMap's flag_depth_odom_timeout_, never cleared
  swarm_trajs_buf,       \* drones with a usable entry in swarm_trajs_buf_
  multi_bspline_size,    \* multi_bspline_msgs_buf_.traj.size()
  have_recv_pre_agent

goalVars  == <<have_target, have_new_target, wp_id, end_pt>>
swarmVars == <<swarm_trajs_buf, multi_bspline_size, have_recv_pre_agent>>
envVars   == <<have_odom, slow, depth_timeout>>
vars == <<pc, exec_state, have_trigger, enable_fail_safe,
          flag_escape_emergency, local_data, goalVars, swarmVars, envVars>>

ExecStates == {"INIT", "WAIT_TARGET", "GEN_NEW_TRAJ", "REPLAN_TRAJ",
               "EXEC_TRAJ", "EMERGENCY_STOP", "SEQUENTIAL_START"}

\* "init":   inside init(), spinning the node until odometry and trigger came
\* "nested": inside init(), in the nested spin of planNextWaypoint
\* "spin":   in rclcpp::spin(node) of main()
\* "down":   the process ended in an exception or in undefined behaviour
PcStates == {"init", "nested", "spin", "down"}
Running == pc # "down"

\* How far the trajectory has been executed: up to replan_thresh_, past it,
\* past its end, and past its end by more than the 0.25 s within which a
\* neighbour's trajectory may have started (BroadcastBsplineCallback).
Ages == {"new", "due", "over", "old"}
Kinds == {"none", "moving", "stop"}

\* goal: the end_pt it was planned for; atEnd: its local target is that goal;
\* brief: shorter than the 3 * 0.25 s that keep its first two thirds in the
\* past once it is over.
Trajectories == [kind : Kinds, goal : Points \cup {NoPoint},
                 atEnd : BOOLEAN, brief : BOOLEAN, age : Ages]
NoTraj == [kind |-> "none", goal |-> NoPoint, atEnd |-> FALSE,
           brief |-> FALSE, age |-> "old"]
StopTraj == [kind |-> "stop", goal |-> NoPoint, atEnd |-> FALSE,
             brief |-> FALSE, age |-> "new"]
PlannedTo(p) ==
  {t \in [kind : {"moving"}, goal : {p}, atEnd : BOOLEAN,
          brief : BOOLEAN, age : {"new"}] : t.brief => t.atEnd}

-----------------------------------------------------------------------------

Init ==
  /\ pc = IF Preset THEN "init" ELSE "spin"
  /\ exec_state = "INIT"
  /\ have_odom = FALSE /\ slow \in BOOLEAN
  /\ have_trigger = ~realworld
  /\ have_target = FALSE /\ have_new_target = FALSE
  /\ wp_id = 0 /\ end_pt = NoPoint
  /\ enable_fail_safe \in BOOLEAN                \* fsm/fail_safe
  /\ flag_escape_emergency \in BOOLEAN
  /\ local_data = NoTraj
  /\ depth_timeout = FALSE
  /\ swarm_trajs_buf = {} /\ multi_bspline_size = 0
  /\ have_recv_pre_agent = FALSE

\* callReboundReplan, over all the attempts of the calling planFrom...Traj
ReplanSucceeds ==
  /\ local_data' \in PlannedTo(end_pt)
  /\ have_new_target' = FALSE
ReplanFails ==
  /\ have_new_target' = FALSE
  /\ UNCHANGED local_data

\* The goal becomes p: what planNextWaypoint assigns before it changes state.
\* planGlobalTraj cannot fail: it always has a start and an end point.
SetTarget(p) ==
  /\ end_pt' = p
  /\ have_target' = TRUE
  /\ have_new_target' = TRUE

\* publishSwarmTrajs(true): the startup chain.  A lone drone (drone_id = -1)
\* with an empty buffer writes through back() of an empty vector: undefined.
PublishStartupChain ==
  \/ /\ multi_bspline_size = drone_id + 1
     /\ multi_bspline_size = 0
     /\ pc' \in {pc, "down"}
     /\ UNCHANGED multi_bspline_size
  \/ /\ multi_bspline_size = drone_id + 1
     /\ multi_bspline_size # 0
     /\ UNCHANGED <<multi_bspline_size, pc>>
  \/ /\ multi_bspline_size = drone_id
     /\ multi_bspline_size' = multi_bspline_size + 1
     /\ UNCHANGED pc
  \/ /\ multi_bspline_size \notin {drone_id, drone_id + 1}
     /\ UNCHANGED <<multi_bspline_size, pc>>

-----------------------------------------------------------------------------
(* execFSMCallback: one action per case of its switch.                     *)

ExecInit ==
  /\ Running /\ exec_state = "INIT" /\ have_odom
  /\ exec_state' = "WAIT_TARGET"
  /\ UNCHANGED <<pc, have_trigger, enable_fail_safe, flag_escape_emergency,
                 local_data, goalVars, swarmVars, envVars>>

\* Mutant of ExecWaitTarget: does not wait for the trigger.
ExecWaitTargetUntriggered ==
  /\ Running /\ exec_state = "WAIT_TARGET" /\ have_target
  /\ exec_state' = "SEQUENTIAL_START"
  /\ UNCHANGED <<pc, have_trigger, enable_fail_safe, flag_escape_emergency,
                 local_data, goalVars, swarmVars, envVars>>

ExecWaitTarget ==
  /\ Running /\ exec_state = "WAIT_TARGET" /\ have_target /\ have_trigger
  /\ exec_state' = "SEQUENTIAL_START"
  /\ UNCHANGED <<pc, have_trigger, enable_fail_safe, flag_escape_emergency,
                 local_data, goalVars, swarmVars, envVars>>

ExecSequentialStart ==
  /\ Running /\ exec_state = "SEQUENTIAL_START"
  /\ drone_id <= 0 \/ have_recv_pre_agent
  /\ have_odom /\ have_target /\ have_trigger
  /\ \/ /\ ReplanSucceeds
        /\ exec_state' = "EXEC_TRAJ"
        /\ PublishStartupChain
     \/ /\ ReplanFails
        /\ UNCHANGED <<exec_state, multi_bspline_size, pc>>
  /\ UNCHANGED <<have_trigger, have_target, wp_id, end_pt, enable_fail_safe,
                 flag_escape_emergency, swarm_trajs_buf, have_recv_pre_agent,
                 envVars>>

\* Mutant of ExecGenNewTraj: does not raise flag_escape_emergency_.
ExecGenNewTrajFlagDown ==
  /\ Running /\ exec_state = "GEN_NEW_TRAJ"
  /\ \/ ReplanSucceeds /\ exec_state' = "EXEC_TRAJ"
     \/ ReplanFails /\ UNCHANGED exec_state
  /\ UNCHANGED <<pc, have_trigger, have_target, wp_id, end_pt,
                 enable_fail_safe, flag_escape_emergency, swarmVars, envVars>>

ExecGenNewTraj ==
  /\ Running /\ exec_state = "GEN_NEW_TRAJ"
  /\ \/ /\ ReplanSucceeds
        /\ exec_state' = "EXEC_TRAJ"
        /\ flag_escape_emergency' = TRUE
     \/ /\ ReplanFails
        /\ UNCHANGED <<exec_state, flag_escape_emergency>>
  /\ UNCHANGED <<pc, have_trigger, have_target, wp_id, end_pt,
                 enable_fail_safe, swarmVars, envVars>>

ExecReplanTraj ==
  /\ Running /\ exec_state = "REPLAN_TRAJ"
  /\ \/ ReplanSucceeds /\ exec_state' = "EXEC_TRAJ"
     \/ ReplanFails /\ UNCHANGED exec_state
  /\ UNCHANGED <<pc, have_trigger, have_target, wp_id, end_pt,
                 enable_fail_safe, flag_escape_emergency, swarmVars, envVars>>

\* Mutant of ExecNextPreset: the bound is off by one.
ExecNextPresetOffByOne ==
  /\ Running /\ exec_state = "EXEC_TRAJ"
  /\ Preset /\ wp_id < waypoint_num
  /\ wp_id' = wp_id + 1
  /\ SetTarget(wp_id')
  /\ exec_state' = "REPLAN_TRAJ"
  /\ UNCHANGED <<pc, have_trigger, enable_fail_safe, flag_escape_emergency,
                 local_data, swarmVars, envVars>>

\* Mutant of ExecNextPreset: goes on with the trajectory to the old waypoint.
ExecNextPresetNoReplan ==
  /\ Running /\ exec_state = "EXEC_TRAJ"
  /\ Preset /\ wp_id < waypoint_num - 1
  /\ wp_id' = wp_id + 1
  /\ SetTarget(wp_id')
  /\ UNCHANGED <<pc, exec_state, have_trigger, enable_fail_safe,
                 flag_escape_emergency, local_data, swarmVars, envVars>>

\* EXEC_TRAJ, a preset waypoint other than the last one is near: go for the
\* next one.  The state is EXEC_TRAJ, so planNextWaypoint does not spin.
ExecNextPreset ==
  /\ Running /\ exec_state = "EXEC_TRAJ"
  /\ Preset /\ wp_id < waypoint_num - 1
  /\ wp_id' = wp_id + 1
  /\ SetTarget(wp_id')
  /\ exec_state' = "REPLAN_TRAJ"
  /\ UNCHANGED <<pc, have_trigger, enable_fail_safe, flag_escape_emergency,
                 local_data, swarmVars, envVars>>

\* Mutant of ExecFinish: a tour may start over at any waypoint.
ExecFinishAnywhere ==
  /\ Running /\ exec_state = "EXEC_TRAJ"
  /\ local_data.atEnd /\ local_data.age \in {"over", "old"}
  /\ have_trigger' = FALSE
  /\ \/ Preset /\ wp_id' = 0 /\ SetTarget(wp_id')
     \/ ~Preset /\ have_target' = FALSE
        /\ UNCHANGED <<wp_id, end_pt, have_new_target>>
  /\ exec_state' = "WAIT_TARGET"
  /\ UNCHANGED <<pc, enable_fail_safe, flag_escape_emergency, local_data,
                 swarmVars, envVars>>

\* Mutant of ExecFinish: keeps have_target_.
ExecFinishKeepsTarget ==
  /\ Running /\ exec_state = "EXEC_TRAJ"
  /\ local_data.atEnd /\ local_data.age \in {"over", "old"}
  /\ have_trigger' = FALSE
  /\ exec_state' = "WAIT_TARGET"
  /\ UNCHANGED <<pc, enable_fail_safe, flag_escape_emergency, local_data,
                 goalVars, swarmVars, envVars>>

\* EXEC_TRAJ, the trajectory to the goal itself has been flown to its end.
\* In PRESET_TARGET mode the tour starts over, but waits for a new trigger.
ExecFinish ==
  /\ Running /\ exec_state = "EXEC_TRAJ"
  /\ local_data.atEnd /\ local_data.age \in {"over", "old"}
  /\ Preset => wp_id = waypoint_num - 1     \* else the waypoint is near
  /\ have_trigger' = FALSE
  /\ \/ Preset /\ wp_id' = 0 /\ SetTarget(wp_id')
     \/ ~Preset /\ have_target' = FALSE
        /\ UNCHANGED <<wp_id, end_pt, have_new_target>>
  /\ exec_state' = "WAIT_TARGET"
  /\ UNCHANGED <<pc, enable_fail_safe, flag_escape_emergency, local_data,
                 swarmVars, envVars>>

\* Mutant of ExecReplanDue: a trajectory that has ended is never replanned.
ExecReplanDueBeforeEnd ==
  /\ Running /\ exec_state = "EXEC_TRAJ"
  /\ local_data.age = "due"
  /\ exec_state' = "REPLAN_TRAJ"
  /\ UNCHANGED <<pc, have_trigger, enable_fail_safe, flag_escape_emergency,
                 local_data, goalVars, swarmVars, envVars>>

\* EXEC_TRAJ, replan_thresh_ has passed (and, for a trajectory that leads to
\* the goal, the end is neither reached nor closer than no_replan_thresh_).
ExecReplanDue ==
  /\ Running /\ exec_state = "EXEC_TRAJ"
  /\ local_data.age \in (IF local_data.atEnd THEN {"due"} ELSE {"due", "over", "old"})
  /\ exec_state' = "REPLAN_TRAJ"
  /\ UNCHANGED <<pc, have_trigger, enable_fail_safe, flag_escape_emergency,
                 local_data, goalVars, swarmVars, envVars>>

\* Mutant of ExecEmergencyStop: restarts without the fail-safe switch.
ExecEmergencyStopAlwaysRestarts ==
  /\ Running /\ exec_state = "EMERGENCY_STOP"
  /\ \/ /\ flag_escape_emergency
        /\ local_data' = StopTraj
        /\ UNCHANGED exec_state
     \/ /\ ~flag_escape_emergency
        /\ slow
        /\ exec_state' = "GEN_NEW_TRAJ"
        /\ UNCHANGED local_data
  /\ flag_escape_emergency' = FALSE
  /\ UNCHANGED <<pc, have_trigger, enable_fail_safe, goalVars, swarmVars,
                 envVars>>

\* Mutant of ExecEmergencyStop: the two branches are swapped.
ExecEmergencyStopSwapped ==
  /\ Running /\ exec_state = "EMERGENCY_STOP"
  /\ \/ /\ flag_escape_emergency
        /\ enable_fail_safe /\ slow
        /\ exec_state' = "GEN_NEW_TRAJ"
        /\ UNCHANGED local_data
     \/ /\ ~flag_escape_emergency
        /\ local_data' = StopTraj
        /\ UNCHANGED exec_state
  /\ flag_escape_emergency' = FALSE
  /\ UNCHANGED <<pc, have_trigger, enable_fail_safe, goalVars, swarmVars,
                 envVars>>

ExecEmergencyStop ==
  /\ Running /\ exec_state = "EMERGENCY_STOP"
  /\ \/ /\ flag_escape_emergency
        /\ local_data' = StopTraj
        /\ UNCHANGED exec_state
     \/ /\ ~flag_escape_emergency
        /\ enable_fail_safe /\ slow
        /\ exec_state' = "GEN_NEW_TRAJ"
        /\ UNCHANGED local_data
  /\ flag_escape_emergency' = FALSE
  /\ UNCHANGED <<pc, have_trigger, enable_fail_safe, goalVars, swarmVars,
                 envVars>>

execFSMCallback ==
  \/ ExecInit \/ ExecWaitTarget \/ ExecSequentialStart \/ ExecGenNewTraj
  \/ ExecReplanTraj \/ ExecNextPreset \/ ExecFinish \/ ExecReplanDue
  \/ ExecEmergencyStop

-----------------------------------------------------------------------------
(* checkCollisionCallback, the 20 ms safety timer.                         *)

SafetyActive == exec_state # "WAIT_TARGET" /\ local_data.kind # "none"

\* What the scan of the rest of the trajectory may find: nothing, something
\* within emergency_time_, something later.  A stop trajectory is one point,
\* so whatever blocks it blocks its first sample.
Threats ==
  IF local_data.age \in {"over", "old"} THEN {"free"}
  ELSE IF local_data.kind = "stop" THEN {"free", "near"}
  ELSE {"free", "near", "far"}

\* The state and the fail-safe switch after the depth check of the callback.
StateAfterDepthCheck ==
  IF depth_timeout THEN "EMERGENCY_STOP" ELSE exec_state
DepthCheckDisablesFailSafe ==
  enable_fail_safe' = (enable_fail_safe /\ ~depth_timeout)

SafetyNoThreat ==
  /\ Running /\ SafetyActive /\ "free" \in Threats
  /\ DepthCheckDisablesFailSafe
  /\ exec_state' = StateAfterDepthCheck
  /\ UNCHANGED <<pc, have_trigger, flag_escape_emergency, local_data,
                 goalVars, swarmVars, envVars>>

SafetyNearThreat ==
  /\ Running /\ SafetyActive /\ "near" \in Threats
  /\ DepthCheckDisablesFailSafe
  /\ exec_state' = "EMERGENCY_STOP"
  /\ UNCHANGED <<pc, have_trigger, flag_escape_emergency, local_data,
                 goalVars, swarmVars, envVars>>

\* "Make a chance": replan at once; the outcome decides the state, whatever
\* the depth check of the same callback had set.
SafetyFarThreat ==
  /\ Running /\ SafetyActive /\ "far" \in Threats
  /\ DepthCheckDisablesFailSafe
  /\ \/ ReplanSucceeds /\ exec_state' = "EXEC_TRAJ"
     \/ ReplanFails /\ exec_state' = "REPLAN_TRAJ"
  /\ UNCHANGED <<pc, have_trigger, flag_escape_emergency, have_target, wp_id,
                 end_pt, swarmVars, envVars>>

checkCollisionCallback == SafetyNoThreat \/ SafetyNearThreat \/ SafetyFarThreat

-----------------------------------------------------------------------------
(* Subscriptions.                                                          *)

odometryCallback ==
  /\ Running
  /\ have_odom' = TRUE
  /\ slow' \in BOOLEAN
  /\ UNCHANGED <<pc, exec_state, have_trigger, enable_fail_safe, goalVars,
                 flag_escape_emergency, local_data, swarmVars, depth_timeout>>

\* Only PRESET_TARGET subscribes to /traj_start_trigger.
triggerCallback ==
  /\ Running /\ Preset
  /\ have_trigger' = TRUE
  /\ UNCHANGED <<pc, exec_state, enable_fail_safe, flag_escape_emergency,
                 local_data, goalVars, swarmVars, envVars>>

\* Mutant of waypointCallback: a goal in EXEC_TRAJ does not replan.
waypointCallbackNoReplan(p) ==
  /\ Running /\ Manual
  /\ SetTarget(p)
  /\ \/ exec_state = "WAIT_TARGET" /\ exec_state' = "GEN_NEW_TRAJ"
     \/ exec_state = "EXEC_TRAJ" /\ UNCHANGED exec_state
  /\ UNCHANGED <<pc, wp_id, have_trigger, enable_fail_safe, local_data,
                 flag_escape_emergency, swarmVars, envVars>>

\* Mutant of waypointCallback: a goal in WAIT_TARGET is left to the timer.
waypointCallbackNoStart(p) ==
  /\ Running /\ Manual
  /\ SetTarget(p)
  /\ \/ exec_state = "WAIT_TARGET" /\ UNCHANGED exec_state
     \/ exec_state = "EXEC_TRAJ" /\ exec_state' = "REPLAN_TRAJ"
  /\ UNCHANGED <<pc, wp_id, have_trigger, enable_fail_safe, local_data,
                 flag_escape_emergency, swarmVars, envVars>>

\* planNextWaypoint(p) on behalf of waypointCallback, in a callback of the
\* executor that spins the node.  In any state but WAIT_TARGET and EXEC_TRAJ
\* it calls spin_some on that same node, which rclcpp refuses by throwing.
waypointCallback(p) ==
  /\ Running /\ Manual
  /\ SetTarget(p)
  /\ \/ /\ exec_state = "WAIT_TARGET"
        /\ exec_state' = "GEN_NEW_TRAJ" /\ UNCHANGED pc
     \/ /\ exec_state = "EXEC_TRAJ"
        /\ exec_state' = "REPLAN_TRAJ" /\ UNCHANGED pc
     \/ /\ exec_state \notin {"WAIT_TARGET", "EXEC_TRAJ"}
        /\ pc' = "down" /\ UNCHANGED exec_state
  /\ UNCHANGED <<wp_id, have_trigger, enable_fail_safe, local_data,
                 flag_escape_emergency, swarmVars, envVars>>

\* Mutant of MayCollide: the check of the first start time is missing.
MayCollideBeforeFirst ==
  \/ local_data.age \in {"new", "due"}
  \/ local_data.age = "over" /\ local_data.brief
  \/ local_data.kind = "none"

\* checkCollision(id): never before the first trajectory, and only while its
\* first two thirds can still overlap a trajectory that starts now.
MayCollide ==
  /\ local_data.kind # "none"
  /\ \/ local_data.age \in {"new", "due"}
     \/ local_data.age = "over" /\ local_data.brief

\* A neighbour's trajectory that started within 0.25 s (others are dropped).
BroadcastBsplineCallback(id) ==
  /\ Running
  /\ \/ /\ swarm_trajs_buf' = swarm_trajs_buf \ {id}    \* it is too far away
        /\ UNCHANGED exec_state
     \/ /\ swarm_trajs_buf' = swarm_trajs_buf \cup {id}
        /\ \/ UNCHANGED exec_state
           \/ MayCollide /\ exec_state' = "REPLAN_TRAJ"
  /\ UNCHANGED <<pc, have_trigger, enable_fail_safe, flag_escape_emergency,
                 local_data, goalVars, multi_bspline_size,
                 have_recv_pre_agent, envVars>>

\* The predecessor's startup chain of n trajectories.  The buffer is
\* overwritten before the message is checked.
swarmTrajsCallback(n) ==
  /\ Running /\ drone_id >= 1
  /\ multi_bspline_size' = n
  /\ \/ /\ have_odom /\ n = drone_id
        /\ have_recv_pre_agent' = TRUE
        /\ \E near \in SUBSET (OtherDrones \cap 0 .. n - 1) : swarm_trajs_buf' = near
     \/ /\ ~(have_odom /\ n = drone_id)
        /\ UNCHANGED <<have_recv_pre_agent, swarm_trajs_buf>>
  /\ UNCHANGED <<pc, exec_state, have_trigger, enable_fail_safe, local_data,
                 flag_escape_emergency, goalVars, envVars>>

-----------------------------------------------------------------------------
(* PRESET_TARGET: the rest of init(), after odometry and trigger came.     *)

readGivenWps ==
  /\ pc = "init" /\ Preset /\ have_odom /\ have_trigger
  /\ wp_id' = 0
  /\ SetTarget(0)
  /\ \/ /\ exec_state = "WAIT_TARGET"
        /\ exec_state' = "GEN_NEW_TRAJ" /\ pc' = "spin"
     \/ /\ exec_state = "EXEC_TRAJ"
        /\ exec_state' = "REPLAN_TRAJ" /\ pc' = "spin"
     \/ /\ exec_state \notin {"WAIT_TARGET", "EXEC_TRAJ"}
        /\ pc' = "nested" /\ UNCHANGED exec_state
  /\ UNCHANGED <<have_trigger, enable_fail_safe, flag_escape_emergency,
                 local_data, swarmVars, envVars>>

\* The nested spin of planNextWaypoint sees EXEC_TRAJ.
NestedSpinEnds ==
  /\ pc = "nested" /\ exec_state = "EXEC_TRAJ"
  /\ exec_state' = "REPLAN_TRAJ"
  /\ pc' = "spin"
  /\ UNCHANGED <<have_trigger, enable_fail_safe, flag_escape_emergency,
                 local_data, goalVars, swarmVars, envVars>>

-----------------------------------------------------------------------------
(* Environment.                                                            *)

\* GridMap's updateOccupancyCallback latches the loss of odometry or depth.
DepthLost ==
  /\ Running /\ ~depth_timeout
  /\ depth_timeout' = TRUE
  /\ UNCHANGED <<pc, exec_state, have_trigger, enable_fail_safe, goalVars,
                 flag_escape_emergency, local_data, swarmVars, have_odom, slow>>

TimePasses ==
  /\ Running /\ local_data.age # "old"
  /\ local_data' = [local_data EXCEPT !.age =
       CASE @ = "new" -> "due" [] @ = "due" -> "over" [] OTHER -> "old"]
  /\ UNCHANGED <<pc, exec_state, have_trigger, enable_fail_safe, goalVars,
                 flag_escape_emergency, swarmVars, envVars>>

Next ==
  \/ execFSMCallback
  \/ checkCollisionCallback
  \/ odometryCallback
  \/ triggerCallback
  \/ \E p \in Goals : waypointCallback(p)
  \/ \E id \in OtherDrones : BroadcastBsplineCallback(id)
  \/ \E n \in SwarmMsgSizes : swarmTrajsCallback(n)
  \/ readGivenWps
  \/ NestedSpinEnds
  \/ DepthLost
  \/ TimePasses

Spec == Init /\ [][Next]_vars

\* Both timers keep firing (one executor thread, every callback returns),
\* init() goes on once its condition holds, and time passes.  Of planning, only
\* the first attempt for a new target is fair, for it changes the state even
\* when it fails: nothing says that planning ever succeeds.
Fairness ==
  /\ WF_vars(ExecInit \/ ExecWaitTarget \/ ExecNextPreset \/ ExecFinish
             \/ ExecReplanDue \/ ExecEmergencyStop)
  /\ WF_vars(have_new_target
             /\ (ExecSequentialStart \/ ExecGenNewTraj \/ ExecReplanTraj))
  /\ WF_vars(checkCollisionCallback)
  /\ WF_vars(readGivenWps)
  /\ WF_vars(NestedSpinEnds)
  /\ WF_vars(TimePasses)
FairSpec == Spec /\ Fairness

-----------------------------------------------------------------------------
(* Properties.                                                             *)

\* Every variable stays within its type.
TypeOK ==
  /\ pc \in PcStates
  /\ exec_state \in ExecStates
  /\ have_odom \in BOOLEAN /\ slow \in BOOLEAN
  /\ have_trigger \in BOOLEAN
  /\ have_target \in BOOLEAN /\ have_new_target \in BOOLEAN
  /\ wp_id \in 0 .. waypoint_num - 1
  /\ end_pt \in Points \cup {NoPoint}
  /\ enable_fail_safe \in BOOLEAN
  /\ flag_escape_emergency \in BOOLEAN
  /\ local_data \in Trajectories
  /\ depth_timeout \in BOOLEAN
  /\ swarm_trajs_buf \subseteq OtherDrones
  /\ multi_bspline_size \in Nat
  /\ have_recv_pre_agent \in BOOLEAN

\* The states that evaluate the trajectory in force (REPLAN_TRAJ through
\* planFromCurrentTraj, EXEC_TRAJ and EMERGENCY_STOP) are never entered before
\* there is one, whichever callback comes first: a neighbour's broadcast, the
\* depth timeout or a goal.
TrajectoryBeforeUse ==
  exec_state \in {"REPLAN_TRAJ", "EXEC_TRAJ", "EMERGENCY_STOP"} =>
    local_data.kind # "none"

\* In EXEC_TRAJ the trajectory in force was planned for the current goal: a
\* goal that arrives during the flight, an emergency stop or a neighbour's
\* broadcast never leaves the drone executing a plan for a superseded goal.
GoalFollowed ==
  exec_state = "EXEC_TRAJ" =>
    local_data.kind = "moving" /\ local_data.goal = end_pt

\* callEmergencyStop is skipped only to avoid repeating it: whenever the
\* machine is in EMERGENCY_STOP with flag_escape_emergency_ down, the
\* trajectory in force is already a stop trajectory.
StopIssued ==
  exec_state = "EMERGENCY_STOP" /\ ~flag_escape_emergency =>
    local_data.kind = "stop"

\* A drone that has stopped in EMERGENCY_STOP with its fail-safe switched off
\* (the depth image was lost) stays there, with the stop trajectory in force.
StoppedForGood ==
  [][ /\ exec_state = "EMERGENCY_STOP" /\ local_data.kind = "stop"
      /\ ~enable_fail_safe
      => exec_state' = "EMERGENCY_STOP" /\ local_data'.kind = "stop" ]_vars

\* In MANUAL_TARGET mode an idle machine has no goal left, so the start of
\* the swarm chain (SEQUENTIAL_START) is never taken.
IdleHasNoTarget ==
  Running => /\ exec_state \in {"INIT", "WAIT_TARGET"} => ~have_target
             /\ exec_state # "SEQUENTIAL_START"

\* In PRESET_TARGET mode a drone that waits for its trigger starts only when
\* triggered; only one that has flown before may be sent off by a neighbour's
\* broadcast instead, to REPLAN_TRAJ and not through the startup chain.
TriggeredStart ==
  [][ exec_state = "WAIT_TARGET" /\ exec_state' # "WAIT_TARGET"
      => \/ have_trigger
         \/ local_data.kind # "none" /\ exec_state' = "REPLAN_TRAJ" ]_vars

\* The preset tour advances only from a trajectory flown to the current
\* waypoint, one waypoint at a time, and starts over only after the last one.
WaypointsInOrder ==
  [][ wp_id' # wp_id =>
        /\ local_data.goal = wp_id
        /\ \/ wp_id' = wp_id + 1
           \/ wp_id = waypoint_num - 1 /\ wp_id' = 0 ]_vars

\* The callback that detects the loss of depth leaves the machine in
\* EMERGENCY_STOP.
DepthLostStops ==
  [][ enable_fail_safe /\ ~enable_fail_safe'
      => exec_state' = "EMERGENCY_STOP" ]_vars

\* An emergency is answered: the stop trajectory comes into force, or a later
\* safety scan or broadcast found a way out.
EmergencyAnswered ==
  exec_state = "EMERGENCY_STOP" ~>
    (local_data.kind = "stop" \/ exec_state # "EMERGENCY_STOP" \/ pc = "down")

\* A goal accepted while flying or idle reaches the planner, unless an
\* emergency or a crash comes first.
NewTargetPlanned ==
  have_new_target ~>
    (~have_new_target \/ exec_state = "EMERGENCY_STOP" \/ pc = "down")

\* A trajectory flown to its end is not executed forever: the machine
\* finishes, replans or stops.
NoHangAtEnd ==
  (exec_state = "EXEC_TRAJ" /\ local_data.age \in {"over", "old"}) ~>
    (exec_state # "EXEC_TRAJ" \/ local_data.age = "new" \/ pc = "down")

=============================================================================
