------------------------ MODULE AutoNavigation_proofs ------------------------
(***************************************************************************)
(* Safety of AutoNavigation for any number of activations and of signals.   *)
(***************************************************************************)
EXTENDS AutoNavigation, TLAPS

USE NavigationAssumption

LEMMA InitType == Init => TypeOK
<1> SUFFICES ASSUME Init PROVE TypeOK
  OBVIOUS
<1>1. /\ up \in BOOLEAN /\ in_charge \in BOOLEAN /\ completed \in BOOLEAN
      /\ near \in BOOLEAN /\ odomSubscriber \in BOOLEAN
      /\ readyForWaypointSub \in BOOLEAN
      /\ receivedFirstWaypoint \in BOOLEAN /\ goal \in BOOLEAN /\ late \in BOOLEAN
  BY Zenon DEF Init
<1>2. activations \in 0 .. MaxActivations /\ ready \in 0 .. MaxReady
  BY DEF Init
<1>3. /\ pending \in States \cup {"none"}
      /\ active \in Modes \cup {"none"}
      /\ node \in {"unconfigured", "inactive", "active"}
      /\ requests \subseteq {"configure", "configured", "activate"}
      /\ planner \in PlannerStates
  BY DEF Init, PlannerStates
<1> QED BY <1>1, <1>2, <1>3 DEF TypeOK

LEMMA StepType == TypeOK /\ [Next]_vars => TypeOK'
<1> SUFFICES ASSUME TypeOK, [Next]_vars PROVE TypeOK'
  OBVIOUS
<1> USE DEF TypeOK, control, modes, lifecycle, planning
<1>1. CASE Activate
  BY <1>1 DEF Activate, States
<1>2. CASE Armed
  BY <1>2 DEF Armed, Failed, States, Modes
<1>3. CASE Ascended
  BY <1>3, ZenonT(40) DEF Ascended, Configure, States, Modes
<1>4. CASE Takeover
  BY <1>4 DEF Takeover, Failed, States, Modes
<1>5. CASE checkAscended
  BY <1>5 DEF checkAscended
<1>6. CASE Fly
  BY <1>6, ZenonT(40) DEF Fly
<1>7. CASE sendWaypoint
  BY <1>7 DEF sendWaypoint
<1>8. CASE Configured
  BY <1>8, ZenonT(40) DEF Configured
<1>9. CASE handle_response_1
  BY <1>9 DEF handle_response_1
<1>10. CASE Activated
  BY <1>10 DEF Activated
<1>11. CASE StartPlanner
  BY <1>11 DEF StartPlanner, PlannerStates
<1>12. CASE sendWaypointSignal
  BY <1>12 DEF sendWaypointSignal
<1>13. CASE waypointCallback
  BY <1>13 DEF waypointCallback, Planned, PlannerStates
<1>14. CASE execFSMCallback
  BY <1>14 DEF execFSMCallback, PlannerStates
<1>15. CASE UNCHANGED vars
  BY <1>15 DEF vars
<1> QED BY <1>1, <1>2, <1>3, <1>4, <1>5, <1>6, <1>7, <1>8, <1>9, <1>10, <1>11,
           <1>12, <1>13, <1>14, <1>15 DEF Next

\* Every variable keeps its type.
THEOREM NavigationTypeCorrect == Spec => []TypeOK
BY InitType, StepType, PTL DEF Spec
-----------------------------------------------------------------------------
\* As long as no signal was late, a signal or a goal is on its way, never both,
\* only while the planner waits for its first goal; until then it has not started
\* to plan.
GoalInv ==
  ~late =>
    /\ ready > 0 \/ goal => planner = "WAIT_TARGET" /\ ~receivedFirstWaypoint
    /\ goal => ready = 0
    /\ ready <= 1
    /\ ~receivedFirstWaypoint => planner \in {"off", "INIT", "WAIT_TARGET"}
    /\ planner # "down"

LEMMA InitGoal == Init => GoalInv
BY DEF Init, GoalInv

LEMMA StepGoal == TypeOK /\ GoalInv /\ [Next]_vars => GoalInv'
<1> SUFFICES ASSUME TypeOK, GoalInv, [Next]_vars, ~late' PROVE GoalInv'
  BY DEF GoalInv
<1>1. CASE UNCHANGED planning
  BY <1>1 DEF planning, GoalInv
<1>2. CASE sendWaypoint
  BY <1>2 DEF sendWaypoint, GoalInv, TypeOK
<1>3. CASE StartPlanner
  BY <1>3 DEF StartPlanner, GoalInv, TypeOK
<1>4. CASE sendWaypointSignal
  BY <1>4 DEF sendWaypointSignal, IsLate, Running, GoalInv, TypeOK
<1>5. CASE waypointCallback
  BY <1>5 DEF waypointCallback, Planned, GoalInv, TypeOK
<1>6. CASE execFSMCallback
  BY <1>6 DEF execFSMCallback, GoalInv, TypeOK
<1> QED BY <1>1, <1>2, <1>3, <1>4, <1>5, <1>6
        DEF Next, Activate, Armed, Ascended, Takeover, checkAscended, Fly, Configured,
            handle_response_1, Activated, vars

\* The planner is given a goal that it cannot take only after a signal that was sent
\* before the odometry had come, or before the last one had been dealt with.
THEOREM PlannerSurvivesCorrect == Spec => []PlannerSurvives
<1>1. GoalInv => PlannerSurvives
  BY DEF GoalInv, PlannerSurvives
<1> QED BY <1>1, InitType, StepType, InitGoal, StepGoal, PTL DEF Spec
-----------------------------------------------------------------------------
\* While the executor waits for the ascent, the mode that ascends is active.
ChargeInv ==
  /\ FailureEndsProcess
  /\ pending = "ascending" => active = "ascend"

LEMMA StepCharge == ChargeInv /\ [Next]_vars => ChargeInv'
<1> SUFFICES ASSUME ChargeInv, [Next]_vars PROVE ChargeInv'
  OBVIOUS
<1> USE DEF ChargeInv, FailureEndsProcess
<1>1. CASE UNCHANGED <<in_charge, pending, active>>
  BY <1>1
<1>2. CASE Activate
  BY <1>2 DEF Activate
<1>3. CASE Armed
  BY <1>3 DEF Armed, Failed
<1>4. CASE Ascended
  BY <1>4 DEF Ascended
<1>5. CASE Takeover
  BY <1>5 DEF Takeover, Failed
<1> QED BY <1>1, <1>2, <1>3, <1>4, <1>5
        DEF Next, checkAscended, Fly, sendWaypoint, Configured, handle_response_1, Activated,
            StartPlanner, sendWaypointSignal, waypointCallback, execFSMCallback,
            control, vars

\* A failed state ends the process, it does not leave the executor idle.
THEOREM FailureEndsProcessCorrect == Spec => []FailureEndsProcess
<1>1. Init => ChargeInv
  BY DEF Init, ChargeInv, FailureEndsProcess
<1>2. ChargeInv => FailureEndsProcess
  BY DEF ChargeInv
<1> QED BY <1>1, <1>2, StepCharge, PTL DEF Spec
=============================================================================
