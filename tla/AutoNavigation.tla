--------------------------- MODULE AutoNavigation ---------------------------
(***************************************************************************)
(* Autonomous navigation (urop_navigation_control): an executor arms and     *)
(* schedules two PX4 modes, AscendMode and AutonomousNavigationMode.  The    *)
(* second one brings up the lifecycle node and answers the ready signals of  *)
(* the EGO planner with the goal.  Of the planner (EgoReplanFSM) there is    *)
(* what that depends on; who starts it, and when, is left open.              *)
(***************************************************************************)
EXTENDS Integers

CONSTANTS
  MaxReady,               \* bound: ready signals on their way
  MaxActivations          \* bound: activations of the executor

ASSUME NavigationAssumption ==
  /\ MaxReady \in Nat \ {0}
  /\ MaxActivations \in Nat

VARIABLES
  up,                     \* the process of the executor and its modes
  in_charge,              \* PX4 has put the executor in charge
  activations,            \* how often so far
  pending,                \* the State whose callback PX4 owes, or "none"
  active,                 \* the mode of this process that is active, or "none"
  completed,              \* it has called completed()
  near,                   \* the drone is within 1 m of (0, 0, -3)
  odomSubscriber,         \* of AscendMode: whether it exists
  readyForWaypointSub,    \* of AutonomousNavigationMode: whether it exists
  node,                   \* state of the lifecycle node
  requests,               \* to the lifecycle node, or its answers
  planner,                \* exec_state_, "off" or "down"
  receivedFirstWaypoint,  \* of the planner
  ready,                  \* ready signals on their way
  goal,                   \* a goal on its way: the queue has depth 1
  late                    \* history: see IsLate

control == <<up, in_charge, activations, pending, active, completed>>
modes == <<near, odomSubscriber, readyForWaypointSub>>
lifecycle == <<node, requests>>
planning == <<planner, receivedFirstWaypoint, ready, goal, late>>
vars == <<control, modes, lifecycle, planning>>

States == {"arm", "ascending", "autoNavigation"}
Modes == {"ascend", "auto_nav"}
PlannerStates ==
  {"off", "INIT", "WAIT_TARGET", "GEN_NEW_TRAJ", "EXEC_TRAJ", "REPLAN_TRAJ", "down"}

Init ==
  /\ up = TRUE /\ in_charge = FALSE /\ activations = 0
  /\ pending = "none" /\ active = "none" /\ completed = FALSE
  /\ near \in BOOLEAN /\ odomSubscriber = TRUE /\ readyForWaypointSub = FALSE
  /\ node = "unconfigured" /\ requests = {}
  /\ planner = "off" /\ receivedFirstWaypoint = FALSE /\ ready = 0 /\ goal = FALSE
  /\ late = FALSE
-----------------------------------------------------------------------------
(***************************************************************************)
(* The executor and the activation of its modes.                            *)
(***************************************************************************)
\* Mutant: a failed state only ends itself, as in precision landing.
FailedSilently ==
  /\ pending' = "none"
  /\ UNCHANGED <<up, in_charge, active, completed, odomSubscriber, readyForWaypointSub>>

\* A state is entered with a result that is not Success: rclcpp::shutdown().
Failed ==
  /\ up' = FALSE /\ in_charge' = FALSE /\ pending' = "none"
  /\ active' = "none" /\ completed' = FALSE
  /\ odomSubscriber' = FALSE /\ readyForWaypointSub' = FALSE

Activate ==
  /\ up /\ ~in_charge /\ activations < MaxActivations
  /\ in_charge' = TRUE /\ activations' = activations + 1
  /\ pending' = "arm"
  /\ UNCHANGED <<up, active, completed, modes, lifecycle, planning>>

\* PX4 answers arm(): the ascent begins, or one of the two has failed.
Armed ==
  /\ pending = "arm"
  /\ \/ Failed
     \/ /\ pending' = "ascending"
        /\ active' = "ascend" /\ completed' = FALSE
        /\ UNCHANGED <<up, in_charge, odomSubscriber, readyForWaypointSub>>
  /\ UNCHANGED <<activations, near, lifecycle, planning>>

\* Mutant: the node is to be activated before it is configured.
ConfigureLast == requests' = requests \cup {"activate"}

\* onActivate of the navigation mode asks the node to configure itself.
Configure == requests' = requests \cup {"configure"}

\* The ascent is complete.  If navigation is refused, AscendMode stays active
\* and the callback only logs.
Ascended ==
  /\ pending = "ascending" /\ completed
  /\ \/ /\ pending' = "none"
        /\ UNCHANGED <<active, completed, odomSubscriber, readyForWaypointSub, requests>>
     \/ /\ pending' = "autoNavigation"
        /\ active' = "auto_nav" /\ completed' = FALSE
        /\ odomSubscriber' = FALSE              \* AscendMode::onDeactivate
        /\ readyForWaypointSub' = TRUE
        /\ Configure
  /\ UNCHANGED <<up, in_charge, activations, near, node, planning>>

\* The pilot or a failsafe takes control: callbacks get Deactivated, which ends
\* the process unless the last mode was scheduled.
Takeover ==
  /\ in_charge
  /\ \/ /\ pending \in {"arm", "ascending"}
        /\ Failed
     \/ /\ pending \notin {"arm", "ascending"}
        /\ in_charge' = FALSE /\ pending' = "none"
        /\ active' = "none" /\ completed' = FALSE
        /\ odomSubscriber' = (odomSubscriber /\ active # "ascend")
        /\ UNCHANGED <<up, readyForWaypointSub>>
  /\ UNCHANGED <<activations, near, lifecycle, planning>>
-----------------------------------------------------------------------------
(***************************************************************************)
(* The modes.                                                               *)
(***************************************************************************)
\* Mutant: the subscription is dropped with the completion, as in DescendMode.
checkAscendedOnce ==
  /\ odomSubscriber /\ near
  /\ completed' = (completed \/ active = "ascend")
  /\ odomSubscriber' = FALSE
  /\ UNCHANGED <<up, in_charge, activations, pending, active, near,
                 readyForWaypointSub, lifecycle, planning>>

\* It is called without the mode being active as well, when completed() does
\* not count.
checkAscended ==
  /\ odomSubscriber /\ near
  /\ completed' = (completed \/ active = "ascend")
  /\ UNCHANGED <<up, in_charge, activations, pending, active, modes, lifecycle, planning>>

\* The drone follows the setpoint of ascend(), or somebody else's.
Fly ==
  /\ near' \in IF active = "ascend" THEN {TRUE} ELSE BOOLEAN
  /\ UNCHANGED <<control, odomSubscriber, readyForWaypointSub, lifecycle, planning>>

\* Each signal is answered, also after the mode has been deactivated.
sendWaypoint ==
  /\ readyForWaypointSub /\ ready > 0
  /\ ready' = ready - 1 /\ goal' = TRUE
  /\ UNCHANGED <<control, modes, lifecycle, planner, receivedFirstWaypoint, late>>
-----------------------------------------------------------------------------
(***************************************************************************)
(* The lifecycle node.                                                      *)
(***************************************************************************)
\* Only an unconfigured node can be configured; otherwise no request follows.
Configured ==
  /\ "configure" \in requests
  /\ \/ /\ node = "unconfigured"
        /\ node' = "inactive"
        /\ requests' = (requests \ {"configure"}) \cup {"configured"}
     \/ /\ node # "unconfigured"
        /\ requests' = requests \ {"configure"}
        /\ UNCHANGED node
  /\ UNCHANGED <<control, modes, planning>>

\* Mutant: the transition has the wrong id.
handle_response_1_Cleanup ==
  /\ up /\ "configured" \in requests
  /\ requests' = (requests \ {"configured"}) \cup {"cleanup"}
  /\ UNCHANGED <<control, modes, node, planning>>

handle_response_1 ==
  /\ up /\ "configured" \in requests
  /\ requests' = (requests \ {"configured"}) \cup {"activate"}
  /\ UNCHANGED <<control, modes, node, planning>>

Activated ==
  /\ "activate" \in requests
  /\ requests' = requests \ {"activate"}
  /\ node' = IF node = "inactive" THEN "active" ELSE node
  /\ UNCHANGED <<control, modes, planning>>

-----------------------------------------------------------------------------
(***************************************************************************)
(* The planner.                                                             *)
(***************************************************************************)
\* By hand, at any time: the entries of the launch file that would start the
\* executor, and the planner when the node becomes active, are commented out.
StartPlanner ==
  /\ planner = "off"
  /\ planner' = "INIT"
  /\ UNCHANGED <<control, modes, lifecycle, receivedFirstWaypoint, ready, goal, late>>

Running == planner \notin {"off", "down"}

\* A signal goes out before the odometry has come, or before the one of a second
\* ago has been answered and the goal handled.
IsLate == planner = "INIT" \/ ready > 0 \/ goal

\* Each second until the first goal; without a subscription it is lost.
sendWaypointSignal ==
  /\ Running /\ ~receivedFirstWaypoint
  /\ ready < MaxReady
  /\ \/ readyForWaypointSub /\ ready' = ready + 1 /\ late' = (late \/ IsLate)
     \/ ~readyForWaypointSub /\ UNCHANGED <<ready, late>>
  /\ UNCHANGED <<control, modes, lifecycle, planner, receivedFirstWaypoint, goal>>

\* planNextWaypoint: in any state but two it spins a node that is being spun.
\* (The plan it makes before, planGlobalTraj, always has a start and an end, the
\* only thing it may fail for.)
Planned(s) ==
  IF s = "WAIT_TARGET" THEN "GEN_NEW_TRAJ" ELSE IF s = "EXEC_TRAJ" THEN "REPLAN_TRAJ" ELSE "down"

\* Mutant: the planner does not remember that it has got a goal.
waypointCallbackForgets ==
  /\ Running /\ goal
  /\ planner' = Planned(planner)
  /\ goal' = FALSE
  /\ UNCHANGED <<control, modes, lifecycle, receivedFirstWaypoint, ready, late>>

waypointCallback ==
  /\ Running /\ goal
  /\ planner' = Planned(planner)
  /\ receivedFirstWaypoint' = TRUE
  /\ goal' = FALSE
  /\ UNCHANGED <<control, modes, lifecycle, ready, late>>

\* Odometry; a plan; a replan or an emergency; the end of the trajectory.
execFSMCallback ==
  /\ \/ planner = "INIT" /\ planner' = "WAIT_TARGET"
     \/ planner \in {"GEN_NEW_TRAJ", "REPLAN_TRAJ"} /\ planner' = "EXEC_TRAJ"
     \/ planner = "EXEC_TRAJ" /\ planner' \in {"REPLAN_TRAJ", "WAIT_TARGET"}
  /\ UNCHANGED <<control, modes, lifecycle, receivedFirstWaypoint, ready, goal, late>>

Next ==
  \/ Activate \/ Armed \/ Ascended \/ Takeover
  \/ checkAscended \/ Fly \/ sendWaypoint
  \/ Configured \/ handle_response_1 \/ Activated \/ StartPlanner
  \/ sendWaypointSignal \/ waypointCallback \/ execFSMCallback

Spec == Init /\ [][Next]_vars

\* PX4 and the node answer, messages and odometry arrive, timers run, the drone
\* climbs when it is told to, and somebody starts the planner.
Fairness ==
  /\ WF_vars(Armed) /\ WF_vars(Ascended) /\ WF_vars(checkAscended)
  /\ WF_vars(Fly /\ active = "ascend")
  /\ WF_vars(Configured) /\ WF_vars(handle_response_1) /\ WF_vars(Activated)
  /\ WF_vars(StartPlanner) /\ WF_vars(execFSMCallback /\ planner = "INIT")
  /\ WF_vars(sendWaypointSignal) /\ WF_vars(sendWaypoint) /\ WF_vars(waypointCallback)

FairSpec == Spec /\ Fairness
-----------------------------------------------------------------------------
TypeOK ==
  /\ up \in BOOLEAN /\ in_charge \in BOOLEAN /\ completed \in BOOLEAN
  /\ near \in BOOLEAN /\ odomSubscriber \in BOOLEAN /\ readyForWaypointSub \in BOOLEAN
  /\ receivedFirstWaypoint \in BOOLEAN /\ goal \in BOOLEAN /\ late \in BOOLEAN
  /\ activations \in 0 .. MaxActivations
  /\ pending \in States \cup {"none"}
  /\ active \in Modes \cup {"none"}
  /\ node \in {"unconfigured", "inactive", "active"}
  /\ requests \subseteq {"configure", "configured", "activate"}
  /\ planner \in PlannerStates
  /\ ready \in 0 .. MaxReady

\* A goal reaches the planner in a state in which it cannot take one only after a
\* signal that went out before the odometry had come, or before the one of a second
\* ago had been dealt with: the mode answers every signal, and the planner stops
\* signalling before it starts to plan.
PlannerSurvives == planner = "down" => late

\* The executor in charge waits for nothing only when navigation was refused; a
\* failed arming or ascent has ended the process.
FailureEndsProcess == in_charge /\ pending = "none" => active = "ascend"

\* The first ascent ends, although odometry may report the height before it
\* begins.  The second one does not: see odomSubscriber.
FirstAscentEnds ==
  (pending = "ascending" /\ activations = 1) ~> pending # "ascending"

\* Navigation that has become active leads, through the two requests, to an active
\* lifecycle node and, through the ready signal, to a first goal in the planner.
NavigationStarts ==
  (active = "auto_nav") ~> ((node = "active" /\ receivedFirstWaypoint) \/ ~up)
=============================================================================
