------------------------- MODULE EgoReplanFSM_proofs ------------------------
(* Proofs about the replanning state machine, for any number of preset      *)
(* waypoints, goals and other drones.                                       *)
EXTENDS EgoReplanFSM, TLAPS

-----------------------------------------------------------------------------
(* Trajectories.                                                           *)

LEMMA PlannedToType ==
  ASSUME NEW p \in Points \cup {NoPoint}
  PROVE  PlannedTo(p) \subseteq Trajectories
BY DEF PlannedTo, Trajectories, Kinds, Ages

\* A new plan is a moving trajectory to the goal it was planned for.
LEMMA PlannedToGoal ==
  ASSUME NEW p, NEW t \in PlannedTo(p)
  PROVE  t.kind = "moving" /\ t.goal = p
BY DEF PlannedTo

LEMMA ConstantTrajTypes == NoTraj \in Trajectories /\ StopTraj \in Trajectories
BY DEF NoTraj, StopTraj, Trajectories, Kinds, Ages

\* Growing older changes nothing but the age.
LEMMA Aging ==
  ASSUME TypeOK, TimePasses
  PROVE  /\ local_data' \in Trajectories
         /\ local_data'.kind = local_data.kind
         /\ local_data'.goal = local_data.goal
BY DEF TypeOK, TimePasses, Trajectories, Ages

-----------------------------------------------------------------------------
(* Type correctness.                                                       *)

LEMMA FirstWaypoint == 0 \in 0 .. waypoint_num - 1 /\ (Preset => 0 \in Points)
BY EgoReplanAssumption DEF EgoReplanAssumption, Points

LEMMA InitTypeOK == Init => TypeOK
<1> SUFFICES ASSUME Init PROVE TypeOK
  OBVIOUS
<1>1. have_trigger \in BOOLEAN
  BY EgoReplanAssumption DEF Init, EgoReplanAssumption
<1>2. wp_id \in 0 .. waypoint_num - 1
  BY FirstWaypoint DEF Init
<1>3. pc \in PcStates /\ exec_state \in ExecStates
  BY DEF Init, PcStates, ExecStates
<1> QED
  BY <1>1, <1>2, <1>3, ConstantTrajTypes DEF Init, TypeOK

LEMMA ExecTypeOK == TypeOK /\ execFSMCallback => TypeOK'
<1> SUFFICES ASSUME TypeOK, execFSMCallback PROVE TypeOK'
  OBVIOUS
<1> USE DEF TypeOK, ExecStates, PcStates, goalVars, swarmVars, envVars
<1>0. PlannedTo(end_pt) \subseteq Trajectories
  BY PlannedToType
<1>1. CASE ExecInit
  BY <1>1 DEF ExecInit
<1>2. CASE ExecWaitTarget
  BY <1>2 DEF ExecWaitTarget
<1>3. CASE ExecSequentialStart
  <2>1. local_data' \in Trajectories /\ have_new_target' \in BOOLEAN
    BY <1>0, <1>3 DEF ExecSequentialStart, ReplanSucceeds, ReplanFails
  <2>2. /\ multi_bspline_size' \in Nat
        /\ pc' \in PcStates
    BY <1>3 DEF ExecSequentialStart, PublishStartupChain
  <2>3. exec_state' \in ExecStates
    BY <1>3 DEF ExecSequentialStart
  <2> QED
    BY <1>3, <2>1, <2>2, <2>3 DEF ExecSequentialStart
<1>4. CASE ExecGenNewTraj
  <2>1. local_data' \in Trajectories /\ have_new_target' \in BOOLEAN
    BY <1>0, <1>4 DEF ExecGenNewTraj, ReplanSucceeds, ReplanFails
  <2>2. exec_state' \in ExecStates /\ flag_escape_emergency' \in BOOLEAN
    BY <1>4 DEF ExecGenNewTraj
  <2> QED
    BY <1>4, <2>1, <2>2 DEF ExecGenNewTraj
<1>5. CASE ExecReplanTraj
  <2>1. local_data' \in Trajectories /\ have_new_target' \in BOOLEAN
    BY <1>0, <1>5 DEF ExecReplanTraj, ReplanSucceeds, ReplanFails
  <2>2. exec_state' \in ExecStates
    BY <1>5 DEF ExecReplanTraj
  <2> QED
    BY <1>5, <2>1, <2>2 DEF ExecReplanTraj
<1>6. CASE ExecNextPreset
  BY <1>6, EgoReplanAssumption
     DEF ExecNextPreset, SetTarget, Points, EgoReplanAssumption
<1>7. CASE ExecFinish
  BY <1>7, FirstWaypoint DEF ExecFinish, SetTarget
<1>8. CASE ExecReplanDue
  BY <1>8 DEF ExecReplanDue
<1>9. CASE ExecEmergencyStop
  BY <1>9, ConstantTrajTypes, ZenonT(40) DEF ExecEmergencyStop
<1> QED
  BY <1>1, <1>2, <1>3, <1>4, <1>5, <1>6, <1>7, <1>8, <1>9 DEF execFSMCallback

LEMMA SafetyTypeOK == TypeOK /\ checkCollisionCallback => TypeOK'
<1> SUFFICES ASSUME TypeOK, checkCollisionCallback PROVE TypeOK'
  OBVIOUS
<1> USE DEF TypeOK, ExecStates, PcStates, goalVars, swarmVars, envVars,
            DepthCheckDisablesFailSafe, StateAfterDepthCheck
<1>0. PlannedTo(end_pt) \subseteq Trajectories
  BY PlannedToType
<1>1. CASE SafetyNoThreat
  BY <1>1 DEF SafetyNoThreat
<1>2. CASE SafetyNearThreat
  BY <1>2 DEF SafetyNearThreat
<1>3. CASE SafetyFarThreat
  BY <1>0, <1>3, ZenonT(40) DEF SafetyFarThreat, ReplanSucceeds, ReplanFails
<1> QED
  BY <1>1, <1>2, <1>3 DEF checkCollisionCallback

LEMMA NextTypeOK == TypeOK /\ [Next]_vars => TypeOK'
<1> SUFFICES ASSUME TypeOK, [Next]_vars PROVE TypeOK'
  OBVIOUS
<1> USE DEF TypeOK, ExecStates, PcStates, goalVars, swarmVars, envVars
<1>1. CASE execFSMCallback
  BY <1>1, ExecTypeOK
<1>2. CASE checkCollisionCallback
  BY <1>2, SafetyTypeOK
<1>3. CASE odometryCallback
  BY <1>3 DEF odometryCallback
<1>4. CASE triggerCallback
  BY <1>4 DEF triggerCallback
<1>5. ASSUME NEW p \in Goals, waypointCallback(p) PROVE TypeOK'
  BY <1>5, EgoReplanAssumption
     DEF waypointCallback, SetTarget, Points, Manual, Preset
<1>6. ASSUME NEW id \in OtherDrones, BroadcastBsplineCallback(id) PROVE TypeOK'
  BY <1>6 DEF BroadcastBsplineCallback
<1>7. ASSUME NEW n \in SwarmMsgSizes, swarmTrajsCallback(n) PROVE TypeOK'
  <2>1. multi_bspline_size' \in Nat
    BY <1>7, EgoReplanAssumption DEF swarmTrajsCallback, EgoReplanAssumption
  <2>2. /\ swarm_trajs_buf' \subseteq OtherDrones
        /\ have_recv_pre_agent' \in BOOLEAN
    BY <1>7 DEF swarmTrajsCallback
  <2> QED
    BY <1>7, <2>1, <2>2 DEF swarmTrajsCallback
<1>8. CASE readGivenWps
  BY <1>8, FirstWaypoint DEF readGivenWps, SetTarget
<1>9. CASE NestedSpinEnds
  BY <1>9 DEF NestedSpinEnds
<1>10. CASE DepthLost
  BY <1>10 DEF DepthLost
<1>11. CASE TimePasses
  BY <1>11, Aging DEF TimePasses
<1>12. CASE UNCHANGED vars
  BY <1>12 DEF vars
<1> QED
  BY <1>1, <1>2, <1>3, <1>4, <1>5, <1>6, <1>7, <1>8, <1>9, <1>10, <1>11, <1>12
     DEF Next

\* The variables keep their types, whatever the constants.
THEOREM TypeCorrect == Spec => []TypeOK
BY InitTypeOK, NextTypeOK, PTL DEF Spec

-----------------------------------------------------------------------------
(* What the far-threat branch of the safety timer presupposes.             *)

LEMMA FarMeansMoving ==
  ASSUME TypeOK, SafetyFarThreat
  PROVE  local_data.kind = "moving"
BY DEF TypeOK, SafetyFarThreat, SafetyActive, Threats, Trajectories, Kinds

-----------------------------------------------------------------------------
(* No state uses a trajectory before there is one.                         *)

LEMMA NextTrajectoryBeforeUse ==
  TypeOK /\ TrajectoryBeforeUse /\ [Next]_vars => TrajectoryBeforeUse'
<1> SUFFICES ASSUME TypeOK, TrajectoryBeforeUse, [Next]_vars
             PROVE  TrajectoryBeforeUse'
  OBVIOUS
<1> USE DEF TrajectoryBeforeUse, goalVars, swarmVars, envVars
<1>1. CASE execFSMCallback
  <2>1. CASE ExecInit \/ ExecWaitTarget \/ ExecNextPreset \/ ExecFinish \/ ExecReplanDue
    BY <2>1 DEF ExecInit, ExecWaitTarget, ExecNextPreset, ExecFinish, ExecReplanDue
  <2>2. CASE ExecSequentialStart \/ ExecGenNewTraj \/ ExecReplanTraj
    BY <2>2, PlannedToGoal
       DEF ExecSequentialStart, ExecGenNewTraj, ExecReplanTraj, ReplanSucceeds, ReplanFails
  <2>3. CASE ExecEmergencyStop
    BY <2>3 DEF ExecEmergencyStop, StopTraj
  <2> QED
    BY <1>1, <2>1, <2>2, <2>3 DEF execFSMCallback
<1>2. CASE checkCollisionCallback
  <2>1. CASE SafetyNoThreat \/ SafetyNearThreat
    BY <2>1 DEF SafetyNoThreat, SafetyNearThreat, SafetyActive
  <2>2. CASE SafetyFarThreat
    BY <2>2, PlannedToGoal
       DEF SafetyFarThreat, SafetyActive, ReplanSucceeds, ReplanFails
  <2> QED
    BY <1>2, <2>1, <2>2 DEF checkCollisionCallback
<1>3. CASE odometryCallback \/ triggerCallback \/ DepthLost
  BY <1>3 DEF odometryCallback, triggerCallback, DepthLost
<1>4. ASSUME NEW p \in Goals, waypointCallback(p) PROVE TrajectoryBeforeUse'
  BY <1>4 DEF waypointCallback
<1>5. ASSUME NEW id \in OtherDrones, BroadcastBsplineCallback(id)
      PROVE  TrajectoryBeforeUse'
  BY <1>5 DEF BroadcastBsplineCallback, MayCollide
<1>6. ASSUME NEW n \in SwarmMsgSizes, swarmTrajsCallback(n) PROVE TrajectoryBeforeUse'
  BY <1>6 DEF swarmTrajsCallback
<1>7. CASE readGivenWps \/ NestedSpinEnds
  BY <1>7 DEF readGivenWps, NestedSpinEnds
<1>8. CASE TimePasses
  BY <1>8, Aging DEF TimePasses
<1>9. CASE UNCHANGED vars
  BY <1>9 DEF vars
<1> QED
  BY <1>1, <1>2, <1>3, <1>4, <1>5, <1>6, <1>7, <1>8, <1>9 DEF Next

\* The states that evaluate the trajectory in force are never entered before
\* there is one: in a swarm of any size, in both target modes.
THEOREM TrajectoryBeforeUseCorrect == Spec => []TrajectoryBeforeUse
<1>1. Init => TrajectoryBeforeUse
  BY DEF Init, TrajectoryBeforeUse
<1> QED
  BY <1>1, TypeCorrect, NextTrajectoryBeforeUse, PTL DEF Spec

-----------------------------------------------------------------------------
(* The trajectory executed leads to the current goal.                      *)

LEMMA NextGoalFollowed ==
  TypeOK /\ GoalFollowed /\ [Next]_vars => GoalFollowed'
<1> SUFFICES ASSUME TypeOK, GoalFollowed, [Next]_vars PROVE GoalFollowed'
  OBVIOUS
<1> USE DEF GoalFollowed, goalVars, swarmVars, envVars
<1>1. CASE execFSMCallback
  <2>1. CASE ExecInit \/ ExecWaitTarget \/ ExecNextPreset \/ ExecFinish \/ ExecReplanDue
    BY <2>1 DEF ExecInit, ExecWaitTarget, ExecNextPreset, ExecFinish, ExecReplanDue
  <2>2. CASE ExecSequentialStart \/ ExecGenNewTraj \/ ExecReplanTraj
    BY <2>2, PlannedToGoal
       DEF ExecSequentialStart, ExecGenNewTraj, ExecReplanTraj, ReplanSucceeds, ReplanFails
  <2>3. CASE ExecEmergencyStop
    BY <2>3 DEF ExecEmergencyStop
  <2> QED
    BY <1>1, <2>1, <2>2, <2>3 DEF execFSMCallback
<1>2. CASE checkCollisionCallback
  <2>1. CASE SafetyNoThreat \/ SafetyNearThreat
    BY <2>1 DEF SafetyNoThreat, SafetyNearThreat, StateAfterDepthCheck
  <2>2. CASE SafetyFarThreat
    BY <2>2, PlannedToGoal DEF SafetyFarThreat, ReplanSucceeds, ReplanFails
  <2> QED
    BY <1>2, <2>1, <2>2 DEF checkCollisionCallback
<1>3. CASE odometryCallback \/ triggerCallback \/ DepthLost
  BY <1>3 DEF odometryCallback, triggerCallback, DepthLost
<1>4. ASSUME NEW p \in Goals, waypointCallback(p) PROVE GoalFollowed'
  BY <1>4 DEF waypointCallback
<1>5. ASSUME NEW id \in OtherDrones, BroadcastBsplineCallback(id) PROVE GoalFollowed'
  BY <1>5 DEF BroadcastBsplineCallback
<1>6. ASSUME NEW n \in SwarmMsgSizes, swarmTrajsCallback(n) PROVE GoalFollowed'
  BY <1>6 DEF swarmTrajsCallback
<1>7. CASE readGivenWps \/ NestedSpinEnds
  BY <1>7 DEF readGivenWps, NestedSpinEnds
<1>8. CASE TimePasses
  BY <1>8, Aging DEF TimePasses
<1>9. CASE UNCHANGED vars
  BY <1>9 DEF vars
<1> QED
  BY <1>1, <1>2, <1>3, <1>4, <1>5, <1>6, <1>7, <1>8, <1>9 DEF Next

\* In EXEC_TRAJ the trajectory in force was planned for the current goal,
\* whatever goals, broadcasts and emergencies came in between.
THEOREM GoalFollowedCorrect == Spec => []GoalFollowed
<1>1. Init => GoalFollowed
  BY DEF Init, GoalFollowed
<1> QED
  BY <1>1, TypeCorrect, NextGoalFollowed, PTL DEF Spec

-----------------------------------------------------------------------------
(* The emergency flag of a lone drone whose goals arrive one by one.  (With  *)
(* preset waypoints, or with other drones, the property fails.)             *)

LoneManual == Manual /\ OtherDrones = {}

\* Why the flag tells whether the stop was issued: it is up as long as a plan
\* is in force, the stop trajectory is only in force where nothing else is
\* expected, and the two states without the flag's protection are idle.
EscapeInv ==
  /\ TrajectoryBeforeUse
  /\ StopIssued
  /\ IdleHasNoTarget
  /\ pc \in {"spin", "down"}
  /\ local_data.kind = "moving" => flag_escape_emergency
  /\ local_data.kind = "stop" => exec_state \in {"EMERGENCY_STOP", "GEN_NEW_TRAJ"}
  /\ local_data.kind = "none" => exec_state \in {"INIT", "WAIT_TARGET", "GEN_NEW_TRAJ"}

LEMMA InitEscapeInv == LoneManual /\ Init => EscapeInv
BY DEF LoneManual, Manual, Preset, Init, EscapeInv, TrajectoryBeforeUse,
       StopIssued, IdleHasNoTarget, NoTraj

LEMMA ExecEscapeInv ==
  ASSUME LoneManual, TypeOK, EscapeInv, execFSMCallback
  PROVE  EscapeInv'
<1> USE DEF LoneManual, Manual, Preset, EscapeInv, TrajectoryBeforeUse, StopIssued,
            IdleHasNoTarget, Running, goalVars, swarmVars, envVars
<1>0. /\ exec_state \in ExecStates /\ local_data.kind \in Kinds
      /\ flag_escape_emergency \in BOOLEAN
  BY DEF TypeOK, Trajectories
<1>1. CASE ExecInit \/ ExecReplanDue
  BY <1>1 DEF ExecInit, ExecReplanDue
<1>2. CASE ExecWaitTarget
  BY <1>2 DEF ExecWaitTarget
<1>3. CASE ExecSequentialStart
  BY <1>3 DEF ExecSequentialStart
<1>4. CASE ExecGenNewTraj
  BY <1>0, <1>4, PlannedToGoal DEF ExecGenNewTraj, ReplanSucceeds, ReplanFails
<1>5. CASE ExecReplanTraj
  BY <1>0, <1>5, PlannedToGoal DEF ExecReplanTraj, ReplanSucceeds, ReplanFails, Kinds
<1>6. CASE ExecNextPreset
  BY <1>6 DEF ExecNextPreset
<1>7. CASE ExecFinish
  BY <1>0, <1>7 DEF ExecFinish, Kinds
<1>8. CASE ExecEmergencyStop
  BY <1>0, <1>8 DEF ExecEmergencyStop, StopTraj
<1> QED
  BY <1>1, <1>2, <1>3, <1>4, <1>5, <1>6, <1>7, <1>8 DEF execFSMCallback

LEMMA SafetyEscapeInv ==
  ASSUME LoneManual, TypeOK, EscapeInv, checkCollisionCallback
  PROVE  EscapeInv'
<1> USE DEF EscapeInv, TrajectoryBeforeUse, StopIssued, IdleHasNoTarget,
            Running, goalVars, swarmVars, envVars
<1>0. local_data.kind \in {"none", "moving", "stop"}
  BY DEF TypeOK, Trajectories, Kinds
<1>1. CASE SafetyNoThreat
  BY <1>0, <1>1 DEF SafetyNoThreat, SafetyActive, StateAfterDepthCheck
<1>2. CASE SafetyNearThreat
  BY <1>0, <1>2 DEF SafetyNearThreat, SafetyActive
<1>3. CASE SafetyFarThreat
  BY <1>3, FarMeansMoving, PlannedToGoal
     DEF SafetyFarThreat, ReplanSucceeds, ReplanFails
<1> QED
  BY <1>1, <1>2, <1>3 DEF checkCollisionCallback

LEMMA NextEscapeInv ==
  LoneManual /\ TypeOK /\ EscapeInv /\ [Next]_vars => EscapeInv'
<1> SUFFICES ASSUME LoneManual, TypeOK, EscapeInv, [Next]_vars PROVE EscapeInv'
  OBVIOUS
<1> USE DEF EscapeInv, TrajectoryBeforeUse, StopIssued, IdleHasNoTarget,
            Running, goalVars, swarmVars, envVars
<1>1. CASE execFSMCallback
  BY <1>1, ExecEscapeInv
<1>2. CASE checkCollisionCallback
  BY <1>2, SafetyEscapeInv
<1>3. CASE odometryCallback \/ triggerCallback \/ DepthLost
  BY <1>3 DEF odometryCallback, triggerCallback, DepthLost
<1>4. ASSUME NEW p \in Goals, waypointCallback(p) PROVE EscapeInv'
  BY <1>4 DEF waypointCallback, SetTarget
<1>5. ASSUME NEW id \in OtherDrones, BroadcastBsplineCallback(id) PROVE EscapeInv'
  BY <1>5 DEF LoneManual
<1>6. ASSUME NEW n \in SwarmMsgSizes, swarmTrajsCallback(n) PROVE EscapeInv'
  BY <1>6 DEF swarmTrajsCallback
<1>7. CASE readGivenWps \/ NestedSpinEnds
  BY <1>7 DEF readGivenWps, NestedSpinEnds
<1>8. CASE TimePasses
  BY <1>8, Aging DEF TimePasses
<1>9. CASE UNCHANGED vars
  BY <1>9 DEF vars
<1> QED
  BY <1>1, <1>2, <1>3, <1>4, <1>5, <1>6, <1>7, <1>8, <1>9 DEF Next

LEMMA EscapeInvCorrect ==
  ASSUME LoneManual
  PROVE  Spec => []EscapeInv
<1>1. Init => EscapeInv
  BY InitEscapeInv
<1>2. TypeOK /\ EscapeInv /\ [Next]_vars => EscapeInv'
  BY NextEscapeInv
<1> QED
  BY <1>1, <1>2, TypeCorrect, PTL DEF Spec

\* A lone drone with manual goals in EMERGENCY_STOP that considers its stop
\* issued has really stopped, whatever the flag was at start.
THEOREM StopIssuedCorrect ==
  ASSUME LoneManual
  PROVE  Spec => []StopIssued
<1>1. EscapeInv => StopIssued
  BY DEF EscapeInv
<1> QED
  BY <1>1, EscapeInvCorrect, PTL

\* A lone drone with manual goals is idle only without a goal.
THEOREM IdleHasNoTargetCorrect ==
  ASSUME LoneManual
  PROVE  Spec => []IdleHasNoTarget
<1>1. EscapeInv => IdleHasNoTarget
  BY DEF EscapeInv
<1> QED
  BY <1>1, EscapeInvCorrect, PTL

-----------------------------------------------------------------------------
(* Action properties.                                                      *)

\* Without other drones, a drone that has stopped with its fail-safe off
\* stays in EMERGENCY_STOP with the stop trajectory in force.
THEOREM StoppedForGoodCorrect ==
  ASSUME OtherDrones = {}
  PROVE  Spec => StoppedForGood
<1> DEFINE Stopped == /\ exec_state = "EMERGENCY_STOP" /\ local_data.kind = "stop"
                      /\ ~enable_fail_safe
           Stays == exec_state' = "EMERGENCY_STOP" /\ local_data'.kind = "stop"
<1>1. TypeOK /\ [Next]_vars => (Stopped => Stays)
  <2> SUFFICES ASSUME TypeOK, [Next]_vars, Stopped PROVE Stays
    OBVIOUS
  <2> USE DEF goalVars, swarmVars, envVars
  <2>1. CASE execFSMCallback
    BY <2>1 DEF execFSMCallback, ExecInit, ExecWaitTarget, ExecSequentialStart,
         ExecGenNewTraj, ExecReplanTraj, ExecNextPreset, ExecFinish,
         ExecReplanDue, ExecEmergencyStop, StopTraj
  <2>2. CASE checkCollisionCallback
    <3>1. CASE SafetyNoThreat \/ SafetyNearThreat
      BY <3>1 DEF SafetyNoThreat, SafetyNearThreat, StateAfterDepthCheck
    <3>2. CASE SafetyFarThreat
      BY <3>2, FarMeansMoving
    <3> QED
      BY <2>2, <3>1, <3>2 DEF checkCollisionCallback
  <2>3. CASE odometryCallback \/ triggerCallback \/ DepthLost
    BY <2>3 DEF odometryCallback, triggerCallback, DepthLost
  <2>4. ASSUME NEW p \in Goals, waypointCallback(p) PROVE Stays
    BY <2>4 DEF waypointCallback
  <2>5. ASSUME NEW n \in SwarmMsgSizes, swarmTrajsCallback(n) PROVE Stays
    BY <2>5 DEF swarmTrajsCallback
  <2>6. CASE readGivenWps \/ NestedSpinEnds
    BY <2>6 DEF readGivenWps, NestedSpinEnds
  <2>7. CASE TimePasses
    BY <2>7, Aging DEF TimePasses
  <2>8. CASE UNCHANGED vars
    BY <2>8 DEF vars
  <2> QED
    BY <2>1, <2>2, <2>3, <2>4, <2>5, <2>6, <2>7, <2>8 DEF Next
<1> QED
  BY <1>1, TypeCorrect, PTL DEF Spec, StoppedForGood

\* In any swarm, a preset tour starts only when triggered; a broadcast may send
\* off only a drone that has flown before.
THEOREM TriggeredStartCorrect ==
  ASSUME Preset
  PROVE  Spec => TriggeredStart
<1> DEFINE Leaves == exec_state = "WAIT_TARGET" /\ exec_state' # "WAIT_TARGET"
           Caused == \/ have_trigger
                     \/ local_data.kind # "none" /\ exec_state' = "REPLAN_TRAJ"
<1>1. [Next]_vars => (Leaves => Caused)
  <2> SUFFICES ASSUME [Next]_vars, Leaves PROVE Caused
    OBVIOUS
  <2> USE DEF goalVars, swarmVars, envVars
  <2>1. CASE execFSMCallback
    BY <2>1 DEF execFSMCallback, ExecInit, ExecWaitTarget, ExecSequentialStart,
         ExecGenNewTraj, ExecReplanTraj, ExecNextPreset, ExecFinish,
         ExecReplanDue, ExecEmergencyStop
  <2>2. CASE checkCollisionCallback
    BY <2>2 DEF checkCollisionCallback, SafetyNoThreat, SafetyNearThreat,
         SafetyFarThreat, SafetyActive
  <2>3. CASE odometryCallback \/ triggerCallback \/ DepthLost \/ TimePasses
    BY <2>3 DEF odometryCallback, triggerCallback, DepthLost, TimePasses
  <2>4. ASSUME NEW p \in Goals, waypointCallback(p) PROVE Caused
    BY <2>4 DEF waypointCallback, Manual, Preset
  <2>5. ASSUME NEW n \in SwarmMsgSizes, swarmTrajsCallback(n) PROVE Caused
    BY <2>5 DEF swarmTrajsCallback
  <2>6. CASE readGivenWps \/ NestedSpinEnds
    BY <2>6 DEF readGivenWps, NestedSpinEnds
  <2>7. ASSUME NEW id \in OtherDrones, BroadcastBsplineCallback(id) PROVE Caused
    BY <2>7 DEF BroadcastBsplineCallback, MayCollide
  <2>8. CASE UNCHANGED vars
    BY <2>8 DEF vars
  <2> QED
    BY <2>1, <2>2, <2>3, <2>4, <2>5, <2>6, <2>7, <2>8 DEF Next
<1> QED
  BY <1>1, PTL DEF Spec, TriggeredStart

-----------------------------------------------------------------------------
(* The preset tour.                                                        *)

\* What ties the waypoint index to the trajectory in force: init() has not
\* touched the index, and once there is a target it is the indexed waypoint.
TourInv ==
  /\ GoalFollowed
  /\ pc = "init" => Preset /\ wp_id = 0 /\ ~have_target
  /\ ~Preset => wp_id = 0
  /\ Preset /\ have_target => end_pt = wp_id
  /\ Preset /\ (local_data.kind # "none" \/ exec_state \in {"GEN_NEW_TRAJ", "SEQUENTIAL_START"})
       => have_target

LEMMA ExecTourInv ==
  ASSUME TypeOK, TrajectoryBeforeUse, TourInv, execFSMCallback, GoalFollowed'
  PROVE  TourInv'
<1> USE DEF TrajectoryBeforeUse, TourInv, goalVars, swarmVars, envVars
<1>1. CASE ExecInit \/ ExecWaitTarget \/ ExecReplanDue
  BY <1>1 DEF ExecInit, ExecWaitTarget, ExecReplanDue
<1>2. CASE ExecSequentialStart
  BY <1>2 DEF ExecSequentialStart, PublishStartupChain, ReplanSucceeds, ReplanFails
<1>3. CASE ExecGenNewTraj \/ ExecReplanTraj
  BY <1>3 DEF ExecGenNewTraj, ExecReplanTraj, ReplanSucceeds, ReplanFails
<1>4. CASE ExecNextPreset \/ ExecFinish
  BY <1>4 DEF ExecNextPreset, ExecFinish, SetTarget, GoalFollowed
<1>5. CASE ExecEmergencyStop
  BY <1>5 DEF ExecEmergencyStop
<1> QED
  BY <1>1, <1>2, <1>3, <1>4, <1>5 DEF execFSMCallback

LEMMA NextTourInv ==
  TypeOK /\ TrajectoryBeforeUse /\ TourInv /\ [Next]_vars => TourInv'
<1> SUFFICES ASSUME TypeOK, TrajectoryBeforeUse, TourInv, [Next]_vars
             PROVE  TourInv'
  OBVIOUS
<1>0. GoalFollowed'
  BY NextGoalFollowed DEF TourInv
<1> USE DEF TrajectoryBeforeUse, TourInv, goalVars, swarmVars, envVars
<1>1. CASE execFSMCallback
  BY <1>0, <1>1, ExecTourInv
<1>2. CASE checkCollisionCallback
  BY <1>0, <1>2
     DEF checkCollisionCallback, SafetyNoThreat, SafetyNearThreat,
         SafetyFarThreat, SafetyActive, StateAfterDepthCheck, ReplanSucceeds, ReplanFails
<1>3. CASE odometryCallback \/ triggerCallback \/ DepthLost
  BY <1>0, <1>3 DEF odometryCallback, triggerCallback, DepthLost
<1>4. ASSUME NEW p \in Goals, waypointCallback(p) PROVE TourInv'
  BY <1>0, <1>4 DEF waypointCallback, SetTarget, Manual, Preset
<1>5. ASSUME NEW id \in OtherDrones, BroadcastBsplineCallback(id) PROVE TourInv'
  BY <1>0, <1>5 DEF BroadcastBsplineCallback
<1>6. ASSUME NEW n \in SwarmMsgSizes, swarmTrajsCallback(n) PROVE TourInv'
  BY <1>0, <1>6 DEF swarmTrajsCallback
<1>7. CASE readGivenWps \/ NestedSpinEnds
  BY <1>0, <1>7 DEF readGivenWps, NestedSpinEnds, SetTarget
<1>8. CASE TimePasses
  BY <1>0, <1>8, Aging DEF TimePasses
<1>9. CASE UNCHANGED vars
  BY <1>0, <1>9 DEF vars
<1> QED
  BY <1>1, <1>2, <1>3, <1>4, <1>5, <1>6, <1>7, <1>8, <1>9 DEF Next

\* The preset tour advances one waypoint at a time, each time from a
\* trajectory to the current one, and starts over only after the last: for
\* any number of waypoints and any swarm.
THEOREM WaypointsInOrderCorrect == Spec => WaypointsInOrder
<1> DEFINE InOrder ==
      wp_id' # wp_id =>
        /\ local_data.goal = wp_id
        /\ \/ wp_id' = wp_id + 1
           \/ wp_id = waypoint_num - 1 /\ wp_id' = 0
<1>1. Init => TourInv
  BY DEF Init, TourInv, GoalFollowed, NoTraj
<1>2. TypeOK /\ TrajectoryBeforeUse /\ TourInv /\ [Next]_vars => InOrder
  <2> SUFFICES ASSUME TourInv, TrajectoryBeforeUse, [Next]_vars, wp_id' # wp_id
               PROVE  InOrder
    OBVIOUS
  <2>1. ExecNextPreset \/ ExecFinish
    BY DEF Next, execFSMCallback, ExecInit, ExecWaitTarget, ExecSequentialStart,
         ExecGenNewTraj, ExecReplanTraj, ExecReplanDue, ExecEmergencyStop,
         checkCollisionCallback, SafetyNoThreat, SafetyNearThreat,
         SafetyFarThreat, odometryCallback, triggerCallback, waypointCallback,
         BroadcastBsplineCallback, swarmTrajsCallback, readGivenWps,
         NestedSpinEnds, DepthLost, TimePasses, TourInv,
         vars, goalVars, swarmVars, envVars
  <2>2. local_data.goal = wp_id
    BY <2>1 DEF ExecNextPreset, ExecFinish, TourInv, GoalFollowed, Preset
  <2> QED
    BY <2>1, <2>2 DEF ExecNextPreset, ExecFinish
<1> QED
  BY <1>1, <1>2, NextTourInv, TypeCorrect, TrajectoryBeforeUseCorrect, PTL
     DEF Spec, WaypointsInOrder

=============================================================================
