----------------------- MODULE PrecisionLanding_proofs -----------------------
(***************************************************************************)
(* Safety of PrecisionLanding for any spots, pads, levels and activations.  *)
(***************************************************************************)
EXTENDS PrecisionLanding, TLAPS

USE LandingAssumption, PadAssumption

\* What has been requested: nothing is owed without control, nothing has
\* completed that is not active, PX4's own actions have no mode of this process
\* and no setpoint beside them.
ControlInv ==
  /\ pending # "none" => in_charge
  /\ active # "none" => in_charge
  /\ completed => active # "none"
  /\ active = "none" => setpoint = {}
  /\ pending \in {"request_arm", "taking_off", "final_land"} => active = "none"

Control == TypeOK /\ OneModeCommands /\ ControlInv

LEMMA InitControl == Init => Control
<1> SUFFICES ASSUME Init PROVE Control
  OBVIOUS
<1>1. setpoint \subseteq Places /\ drone \in Places
  BY DEF Init, Places, Levels
<1>2. TypeOK
  <2>1. activations \in 0 .. MaxActivations /\ lastArucoPosition \in Spots
    BY DEF Init
  <2>2. in_charge \in BOOLEAN /\ completed \in BOOLEAN /\ heard \in BOOLEAN
    BY DEF Init
  <2> QED BY <1>1, <2>1, <2>2 DEF Init, TypeOK
<1>3. OneModeCommands /\ ControlInv
  BY DEF Init, OneModeCommands, ControlInv
<1> QED BY <1>2, <1>3 DEF Control

\* A pad lies below the level of a takeoff, and is a place.
LEMMA PadLevel ==
  TypeOK => marker.at \in Spots /\ marker.level \in Levels /\ marker.level < Lift
BY DEF TypeOK, Levels

\* What runState leads to is a state or nothing.
LEMMA RunStateType ==
  /\ runState("request_arm") \subseteq {"request_arm", "none"}
  /\ runState(NextState["request_arm"]) \subseteq {"taking_off", "none"}
  /\ \A s \in States \ {"final_land"} :
       /\ NextState[s] \in States
       /\ runState(NextState[s]) \subseteq (States \cup {"none"}) \ {"request_arm"}
BY DEF runState, NextState, States, Modes

\* "final_land" follows the completion of the descent only.
LEMMA LandFollowsDescend ==
  \A s \in States \ {"final_land"} : "final_land" \in runState(NextState[s]) => s = "descend"
BY DEF runState, NextState, States, Modes

\* A request keeps the types and leaves one mode with its timers.
LEMMA RequestKeeps ==
  ASSUME Control, NEW s \in States \cup {"none"}, Requested(s), in_charge',
         s # "request_arm" \/ active = "none"
  PROVE  /\ pending' \in States \cup {"none"}
         /\ active' \in Modes \cup {"none"}
         /\ completed' \in BOOLEAN
         /\ running' \subseteq Modes
         /\ setpoint' \subseteq Places
         /\ OneModeCommands'
         /\ ControlInv'
         /\ pending' = s
         /\ completed' /\ active' = "descend" => pending' # "descend"
<1> USE DEF Control
<1>1. CASE s \in Modes
  <2>1. active' = s /\ pending' = s /\ completed' = FALSE /\ onActivate(s)
    BY <1>1 DEF Requested, Modes
  <2>2. setpoint' \subseteq Places
    BY <2>1 DEF onActivate, Places, Levels
  <2>3. running' \subseteq {s}
    BY <2>1 DEF onActivate, onDeactivate, OneModeCommands
  <2>4. s # "none" /\ s \notin {"request_arm", "taking_off", "final_land"}
    BY <1>1 DEF Modes
  <2> QED BY <1>1, <2>1, <2>2, <2>3, <2>4 DEF ControlInv, OneModeCommands, States
<1>2. CASE s \in {"taking_off", "final_land"}
  BY <1>2 DEF Requested, TypeOK, OneModeCommands, ControlInv, onDeactivate, Modes, States
<1>3. CASE s \in {"request_arm", "none"}
  <2>1. /\ pending' = s
        /\ UNCHANGED <<active, completed, running, setpoint>>
    BY <1>3 DEF Requested, Modes
  <2>2. s # "descend" /\ (s = "none" \/ active = "none")
    BY <1>3
  <2>3. ControlInv'
    BY <2>1, <2>2 DEF ControlInv
  <2> QED BY <2>1, <2>2, <2>3 DEF TypeOK, OneModeCommands
<1> QED BY <1>1, <1>2, <1>3 DEF States

LEMMA StepControl == Control /\ [Next]_vars => Control'
<1> SUFFICES ASSUME Control, [Next]_vars PROVE Control'
  OBVIOUS
<1>t. TypeOK /\ OneModeCommands /\ ControlInv
  BY DEF Control
<1>1. CASE Activate
  <2> PICK s \in runState("request_arm") : Requested(s)
    BY <1>1 DEF Activate
  <2>1. s \in States \cup {"none"}
    BY RunStateType DEF States
  <2>2. active = "none" /\ in_charge'
    BY <1>1, <1>t DEF Activate, ControlInv
  <2>3. /\ pending' \in States \cup {"none"} /\ active' \in Modes \cup {"none"}
        /\ completed' \in BOOLEAN /\ running' \subseteq Modes /\ setpoint' \subseteq Places
        /\ OneModeCommands' /\ ControlInv'
    BY <2>1, <2>2, RequestKeeps
  <2>4. in_charge' \in BOOLEAN /\ marker' \in Markers /\ heard' \in BOOLEAN
    BY <1>1 DEF Activate
  <2>5. activations' \in 0 .. MaxActivations
    BY <1>1, <1>t DEF Activate, TypeOK
  <2>6. UNCHANGED <<lastArucoPosition, targetZ, drone>>
    BY <1>1 DEF Activate, members
  <2> QED BY <1>t, <2>3, <2>4, <2>5, <2>6 DEF Control, TypeOK
<1>2. CASE Succeeded
  <2> PICK s \in runState(NextState[pending]) : Requested(s)
    BY <1>2 DEF Succeeded
  <2>1. pending \in States \ {"final_land"} /\ in_charge'
    BY <1>2, <1>t DEF Succeeded, States, ControlInv
  <2>2. s \in States \cup {"none"} /\ s # "request_arm"
    BY <2>1, RunStateType
  <2>3. drone' \in Places
    BY <1>2, <1>t DEF Succeeded, TypeOK, Places, Levels
  <2> QED BY <1>2, <1>t, <2>1, <2>2, <2>3, RequestKeeps
             DEF Succeeded, Control, TypeOK, members, flight
<1>3. CASE Ended
  <2>1. drone' \in Places
    BY <1>3, <1>t, PadLevel DEF Ended, TypeOK, Places, Levels, Surface
  <2> QED
    BY <1>3, <1>t, <2>1 DEF Ended, Control, TypeOK, OneModeCommands, ControlInv,
                            members, flight
<1>4. CASE ModeCompleted
  <2> PICK s \in runState(NextState[pending]) : Requested(s)
    BY <1>4 DEF ModeCompleted
  <2>1. pending \in Modes /\ in_charge'
    BY <1>4, <1>t DEF ModeCompleted, TypeOK, ControlInv, Modes
  <2>2. s \in States \cup {"none"} /\ s # "request_arm"
    BY <2>1, RunStateType DEF States, Modes
  <2> QED BY <1>4, <1>t, <2>1, <2>2, RequestKeeps
             DEF ModeCompleted, Control, TypeOK, members, flight
<1>5. CASE Takeover
  BY <1>5, <1>t DEF Takeover, Control, TypeOK, OneModeCommands, ControlInv,
                    onDeactivate, members, flight
<1>6. CASE MarkerSeen
  <2>1. CASE tvecRvecCallback
    BY <2>1, <1>t DEF tvecRvecCallback, Complete, executor, members, flight, Control,
                      TypeOK, OneModeCommands, ControlInv, Modes
  <2>2. CASE arucoCallback
    <3>1. setpoint' \subseteq Places /\ lastArucoPosition' \in Spots
      BY <2>2, <1>t, PadLevel DEF arucoCallback, TypeOK, Places
    <3> QED BY <2>2, <1>t, <3>1 DEF arucoCallback, executor, flight, Control, TypeOK,
                                    OneModeCommands, ControlInv, Modes
  <2>3. CASE arucoMarkerCallback
    <3>1. active = "descend"
      BY <2>3, <1>t DEF arucoMarkerCallback, OneModeCommands
    <3>2. setpoint' \subseteq Places /\ targetZ' \in Levels
      BY <2>3, <1>t, PadLevel DEF arucoMarkerCallback, Places, Levels
    <3> QED BY <2>3, <1>t, <3>1, <3>2 DEF arucoMarkerCallback, executor, Control,
                                          TypeOK, OneModeCommands, ControlInv
  <2> QED BY <1>6, <2>1, <2>2, <2>3 DEF MarkerSeen
<1>7. CASE Timers
  <2>1. CASE emitCircleWaypoints
    BY <2>1, <1>t DEF emitCircleWaypoints, executor, members, flight, Control, TypeOK,
                      OneModeCommands, ControlInv, Modes, Places
  <2>2. CASE position_poll \/ checkCompletion \/ check_landing
    BY <2>2, <1>t DEF position_poll, checkCompletion, check_landing, Complete, executor,
                      members, flight, Control, TypeOK, OneModeCommands, ControlInv, Modes
  <2> QED BY <1>7, <2>1, <2>2 DEF Timers
<1>8. CASE Fly
  <2> PICK p \in setpoint :
        \/ drone' = [drone EXCEPT !.at = p.at]
        \/ drone.level > p.level /\ drone' = [drone EXCEPT !.level = @ - 1]
        \/ drone.level < p.level /\ drone' = [drone EXCEPT !.level = @ + 1]
    BY <1>8 DEF Fly
  <2>1. p \in Places /\ drone \in Places
    BY <1>t DEF TypeOK
  <2>2. drone' \in Places
    BY <2>1 DEF Places, Levels
  <2> QED BY <1>8, <1>t, <2>2 DEF Fly, executor, members, flight, Control, TypeOK,
                                  OneModeCommands, ControlInv
<1>9. CASE Pilot
  BY <1>9, <1>t DEF Pilot, executor, members, flight, Control, TypeOK, OneModeCommands,
                    ControlInv
<1>10. CASE UNCHANGED vars
  BY <1>10, <1>t DEF vars, executor, members, flight, Control, TypeOK, OneModeCommands,
                     ControlInv
<1> QED BY <1>1, <1>2, <1>3, <1>4, <1>5, <1>6, <1>7, <1>8, <1>9, <1>10 DEF Next

LEMMA ControlInvariant == Spec => []Control
BY InitControl, StepControl, PTL DEF Spec

\* Every variable keeps its type.
THEOREM LandingTypeCorrect == Spec => []TypeOK
BY ControlInvariant, PTL DEF Control

\* Only the active mode has timers and subscriptions.
THEOREM OneModeCommandsCorrect == Spec => []OneModeCommands
BY ControlInvariant, PTL DEF Control
-----------------------------------------------------------------------------
\* Until DescendMode has heard of the pad, a mode flies, and leads, no lower than
\* a takeoff reaches: above any targetZ that is left of a flight before.
AirInv ==
  /\ active # "none" /\ ~heard => drone.level >= Lift
  /\ ~heard => \A p \in setpoint : p.level >= Lift

\* targetZ, once a number, is the height of some pad, and of that of this flight
\* if DescendMode has heard of it; and that is the height of the drone from the
\* completion of the descent to the end of the landing.
HeightInv ==
  /\ targetZ # NaN => targetZ < Lift
  /\ heard => targetZ = marker.level
  /\ completed /\ active = "descend" /\ pending = "descend" =>
       heard /\ drone.level = marker.level
  /\ LandsAtMarkerHeight

Inv == AirInv /\ HeightInv

LEMMA InitInv == Init => Inv
BY DEF Init, Inv, AirInv, HeightInv, LandsAtMarkerHeight

\* Every step of the vehicle is towards the one place that a setpoint gives.
LEMMA FlyStep ==
  ASSUME TypeOK, Fly
  PROVE  /\ UNCHANGED <<in_charge, activations, pending, active, completed, running,
                        setpoint, members, flight>>
         /\ drone'.level \in Nat
         /\ \E p \in setpoint :
              \/ drone'.level = drone.level
              \/ p.level < drone.level /\ p.level <= drone'.level /\ drone'.level < drone.level
              \/ p.level > drone.level /\ p.level >= drone'.level /\ drone'.level > drone.level
<1>1. PICK p \in setpoint :
        \/ drone' = [drone EXCEPT !.at = p.at]
        \/ drone.level > p.level /\ drone' = [drone EXCEPT !.level = @ - 1]
        \/ drone.level < p.level /\ drone' = [drone EXCEPT !.level = @ + 1]
  BY DEF Fly
<1>2. p \in Places /\ drone \in Places
  BY DEF TypeOK
<1>3. p.level \in Nat /\ drone.level \in Nat
  BY <1>2 DEF Places, Levels
<1>4. /\ drone'.level \in Nat
      /\ \/ drone'.level = drone.level
         \/ p.level < drone.level /\ p.level <= drone'.level /\ drone'.level < drone.level
         \/ p.level > drone.level /\ p.level >= drone'.level /\ drone'.level > drone.level
  BY <1>1, <1>2, <1>3 DEF Places
<1> QED BY <1>4 DEF Fly, executor

\* What a request leads to: a mode with no setpoint but that of InitialFlyUpMode,
\* PX4's own landing or takeoff with none, or nothing new.
LEMMA RequestLeads ==
  ASSUME NEW s \in States \cup {"none"}, Requested(s)
  PROVE  \/ s \in Modes /\ active' = s /\ setpoint' \subseteq {[at |-> Up, level |-> Top]}
                        /\ (setpoint' # {} => s = "fly_up")
         \/ s \in {"taking_off", "final_land"} /\ active' = "none" /\ setpoint' = {}
         \/ s \in {"request_arm", "none"} /\ UNCHANGED <<active, setpoint>>
BY DEF Requested, onActivate, Modes, States

LEMMA StepAir == Control /\ AirInv /\ [Next]_vars => AirInv'
<1> SUFFICES ASSUME Control, AirInv, [Next]_vars PROVE AirInv'
  OBVIOUS
<1>t. TypeOK /\ ControlInv /\ OneModeCommands
  BY DEF Control
<1>l. drone.level \in Nat /\ \A p \in setpoint : p.level \in Nat
  BY <1>t DEF TypeOK, Places, Levels
<1>1. CASE Activate
  <2> PICK s \in runState("request_arm") : Requested(s)
    BY <1>1 DEF Activate
  <2>1. s \in {"request_arm", "none"}
    BY RunStateType
  <2>2. active = "none" /\ setpoint = {}
    BY <1>1, <1>t DEF Activate, ControlInv
  <2>3. active' = "none" /\ setpoint' = {}
    BY <2>1, <2>2 DEF Requested, Modes
  <2> QED BY <2>3 DEF AirInv
<1>2. CASE Succeeded
  <2> PICK s \in runState(NextState[pending]) : Requested(s)
    BY <1>2 DEF Succeeded
  <2>1. active = "none" /\ setpoint = {} /\ pending \in {"request_arm", "taking_off"}
    BY <1>2, <1>t DEF Succeeded, ControlInv
  <2>2. s \in States \cup {"none"}
    BY <2>1, RunStateType DEF States
  <2>3. s \in Modes => pending = "taking_off"
    BY <2>1, RunStateType DEF Modes
  <2>4. pending = "taking_off" => drone'.level >= Lift
    BY <1>2, <1>t DEF Succeeded, TypeOK, Places
  <2> QED BY <2>1, <2>2, <2>3, <2>4, RequestLeads DEF AirInv
<1>3. CASE Ended
  BY <1>3, <1>t DEF Ended, AirInv, ControlInv, flight
<1>4. CASE ModeCompleted
  <2> PICK s \in runState(NextState[pending]) : Requested(s)
    BY <1>4 DEF ModeCompleted
  <2>1. pending \in Modes /\ active # "none"
    BY <1>4, <1>t DEF ModeCompleted, TypeOK, ControlInv, Modes
  <2>2. s \in States \cup {"none"}
    BY <2>1, RunStateType DEF States, Modes
  <2> QED BY <1>4, <2>1, <2>2, RequestLeads DEF ModeCompleted, AirInv, flight
<1>5. CASE Takeover
  BY <1>5 DEF Takeover, AirInv
<1>6. CASE MarkerSeen
  <2>1. CASE arucoMarkerCallback
    BY <2>1 DEF arucoMarkerCallback, AirInv
  <2>2. CASE arucoCallback
    <3>1. active = "move_above_marker"
      BY <2>2, <1>t DEF arucoCallback, OneModeCommands
    <3> QED BY <2>2, <3>1 DEF arucoCallback, AirInv, flight
  <2>3. CASE tvecRvecCallback
    BY <2>3 DEF tvecRvecCallback, AirInv, flight
  <2> QED BY <1>6, <2>1, <2>2, <2>3 DEF MarkerSeen
<1>7. CASE Timers
  <2>1. CASE emitCircleWaypoints
    <3>1. active = "find_marker"
      BY <2>1, <1>t DEF emitCircleWaypoints, OneModeCommands
    <3> QED BY <2>1, <3>1 DEF emitCircleWaypoints, AirInv, flight
  <2>2. CASE position_poll \/ checkCompletion \/ check_landing
    BY <2>2 DEF position_poll, checkCompletion, check_landing, AirInv, flight
  <2> QED BY <1>7, <2>1, <2>2 DEF Timers
<1>8. CASE Fly
  BY <1>8, <1>t, <1>l, FlyStep DEF AirInv, flight, ControlInv
<1>9. CASE Pilot
  BY <1>9, <1>t DEF Pilot, AirInv, ControlInv, flight
<1>10. CASE UNCHANGED vars
  BY <1>10 DEF vars, AirInv, flight
<1> QED BY <1>1, <1>2, <1>3, <1>4, <1>5, <1>6, <1>7, <1>8, <1>9, <1>10 DEF Next

\* The descent completes only at the height of a pad that it has heard of: a
\* targetZ of a flight before is below the drone.
LEMMA LandingChecked ==
  ASSUME Control, AirInv, HeightInv, check_landing
  PROVE  heard /\ drone.level = marker.level
<1>1. active = "descend" /\ drone.level = targetZ /\ drone.level \in Levels
  BY DEF check_landing, Control, OneModeCommands, AtTarget, TypeOK, Places
<1>2. targetZ < Lift
  BY <1>1 DEF Levels, HeightInv
<1>3. heard
  BY <1>1, <1>2 DEF AirInv, Levels
<1> QED BY <1>1, <1>3 DEF HeightInv

LEMMA StepHeight == Control /\ AirInv /\ HeightInv /\ [Next]_vars => HeightInv'
<1> SUFFICES ASSUME Control, AirInv, HeightInv, [Next]_vars PROVE HeightInv'
  OBVIOUS
<1>t. TypeOK /\ ControlInv /\ OneModeCommands
  BY DEF Control
<1> USE DEF HeightInv, LandsAtMarkerHeight
<1>1. CASE Activate
  <2> PICK s \in runState("request_arm") : Requested(s)
    BY <1>1 DEF Activate
  <2>1. s \in {"request_arm", "none"} /\ pending' = s
    BY RunStateType DEF Requested
  <2> QED BY <1>1, <2>1 DEF Activate, members
<1>2. CASE Succeeded
  <2> PICK s \in runState(NextState[pending]) : Requested(s)
    BY <1>2 DEF Succeeded
  <2>1. pending \in States \ {"final_land"} /\ pending # "descend" /\ in_charge'
    BY <1>2, <1>t DEF Succeeded, States, ControlInv
  <2>2. s \in States \cup {"none"} /\ s # "request_arm" /\ s # "final_land"
    BY <2>1, RunStateType, LandFollowsDescend
  <2>3. pending' = s /\ (completed' /\ active' = "descend" => pending' # "descend")
    BY <2>1, <2>2, RequestKeeps
  <2> QED BY <1>2, <2>2, <2>3 DEF Succeeded, members, flight
<1>3. CASE Ended
  BY <1>3 DEF Ended, members, flight
<1>4. CASE ModeCompleted
  <2> PICK s \in runState(NextState[pending]) : Requested(s)
    BY <1>4 DEF ModeCompleted
  <2>1. pending \in Modes /\ in_charge'
    BY <1>4, <1>t DEF ModeCompleted, TypeOK, ControlInv, Modes
  <2>2. /\ s \in States \cup {"none"} /\ s # "request_arm"
        /\ s = "final_land" => pending = "descend"
    BY <2>1, RunStateType, LandFollowsDescend DEF States, Modes
  <2>3. pending' = s /\ (completed' /\ active' = "descend" => pending' # "descend")
    BY <2>1, <2>2, RequestKeeps
  <2> QED BY <1>4, <2>2, <2>3 DEF ModeCompleted, members, flight
<1>5. CASE Takeover
  BY <1>5 DEF Takeover, members, flight
<1>6. CASE MarkerSeen
  <2>1. CASE tvecRvecCallback
    <3>1. active # "descend" \/ completed' = completed
      BY <2>1, <1>t DEF tvecRvecCallback, OneModeCommands
    <3> QED BY <2>1, <3>1 DEF tvecRvecCallback, executor, members, flight
  <2>2. CASE arucoCallback
    BY <2>2 DEF arucoCallback, executor, flight
  <2>3. CASE arucoMarkerCallback
    BY <2>3, <1>t, PadLevel DEF arucoMarkerCallback, executor
  <2> QED BY <1>6, <2>1, <2>2, <2>3 DEF MarkerSeen
<1>7. CASE Timers
  <2>1. CASE emitCircleWaypoints
    BY <2>1 DEF emitCircleWaypoints, executor, members, flight
  <2>2. CASE position_poll \/ checkCompletion
    <3>1. active # "descend"
      BY <2>2, <1>t DEF position_poll, checkCompletion, OneModeCommands
    <3> QED BY <2>2, <3>1 DEF position_poll, checkCompletion, executor, members, flight
  <2>3. CASE check_landing
    BY <2>3, LandingChecked DEF check_landing, executor, members, flight
  <2> QED BY <1>7, <2>1, <2>2, <2>3 DEF Timers
<1>8. CASE Fly
  <2>1. pending # "final_land" /\ ~(completed /\ pending = active)
    BY <1>8, <1>t DEF Fly, ControlInv
  <2> QED BY <1>8, <2>1 DEF Fly, executor, members, flight
<1>9. CASE Pilot
  BY <1>9, <1>t DEF Pilot, executor, members, flight, ControlInv
<1>10. CASE UNCHANGED vars
  BY <1>10 DEF vars, executor, members, flight
<1> QED BY <1>1, <1>2, <1>3, <1>4, <1>5, <1>6, <1>7, <1>8, <1>9, <1>10 DEF Next

LEMMA Invariant == Spec => [](Control /\ Inv)
<1>1. Control /\ Inv /\ [Next]_vars => Inv'
  BY StepAir, StepHeight DEF Inv
<1> QED BY <1>1, InitInv, ControlInvariant, PTL DEF Spec

\* land() is called only at the height of the pad of this flight, of which
\* DescendMode has heard, whatever was refused or lost before and in the flights
\* before.
THEOREM LandsAtMarkerHeightCorrect == Spec => []LandsAtMarkerHeight
BY Invariant, PTL DEF Inv, HeightInv
-----------------------------------------------------------------------------
\* What a setpoint leads to lies below the drone only when the descent has heard
\* of the pad, or on the way down to the height of InitialFlyUpMode.
DownInv ==
  /\ \A p, q \in setpoint : p = q
  /\ \A p \in setpoint :
       p.level < drone.level => heard \/ (active = "fly_up" /\ p.level = Top)

LEMMA InitDown == Init => DownInv
BY DEF Init, DownInv

\* A request leads below the drone in InitialFlyUpMode only.
LEMMA RequestDown ==
  ASSUME DownInv, NEW s \in States \cup {"none"}, Requested(s),
         UNCHANGED <<drone, heard>> \/ setpoint = {}
  PROVE  DownInv'
BY RequestLeads DEF DownInv, Modes

LEMMA StepDown == Control /\ DownInv /\ [Next]_vars => DownInv'
<1> SUFFICES ASSUME Control, DownInv, [Next]_vars PROVE DownInv'
  OBVIOUS
<1>t. TypeOK /\ ControlInv /\ OneModeCommands
  BY DEF Control
<1>l. drone.level \in Nat /\ \A p \in setpoint : p.level \in Nat
  BY <1>t DEF TypeOK, Places, Levels
<1>1. CASE Activate
  <2> PICK s \in runState("request_arm") : Requested(s)
    BY <1>1 DEF Activate
  <2>1. s \in States \cup {"none"}
    BY RunStateType DEF States
  <2>2. setpoint = {}
    BY <1>1, <1>t DEF Activate, ControlInv
  <2> QED BY <2>1, <2>2, RequestDown
<1>2. CASE Succeeded
  <2> PICK s \in runState(NextState[pending]) : Requested(s)
    BY <1>2 DEF Succeeded
  <2>1. setpoint = {} /\ pending \in States \ {"final_land"}
    BY <1>2, <1>t DEF Succeeded, ControlInv, States
  <2>2. s \in States \cup {"none"}
    BY <2>1, RunStateType
  <2> QED BY <2>1, <2>2, RequestDown
<1>3. CASE Ended
  BY <1>3, <1>t DEF Ended, DownInv, ControlInv
<1>4. CASE ModeCompleted
  <2> PICK s \in runState(NextState[pending]) : Requested(s)
    BY <1>4 DEF ModeCompleted
  <2>1. pending \in Modes
    BY <1>4, <1>t DEF ModeCompleted, TypeOK, ControlInv
  <2>2. s \in States \cup {"none"}
    BY <2>1, RunStateType DEF States, Modes
  <2> QED BY <1>4, <2>2, RequestDown DEF ModeCompleted, flight
<1>5. CASE Takeover
  BY <1>5 DEF Takeover, DownInv
<1>6. CASE MarkerSeen
  <2>1. CASE tvecRvecCallback
    BY <2>1 DEF tvecRvecCallback, flight, DownInv
  <2>2. CASE arucoCallback
    BY <2>2, <1>l DEF arucoCallback, flight, DownInv
  <2>3. CASE arucoMarkerCallback
    BY <2>3 DEF arucoMarkerCallback, DownInv
  <2> QED BY <1>6, <2>1, <2>2, <2>3 DEF MarkerSeen
<1>7. CASE Timers
  <2>1. CASE emitCircleWaypoints
    BY <2>1, <1>l DEF emitCircleWaypoints, flight, DownInv
  <2>2. CASE position_poll \/ checkCompletion \/ check_landing
    BY <2>2 DEF position_poll, checkCompletion, check_landing, flight, DownInv
  <2> QED BY <1>7, <2>1, <2>2 DEF Timers
<1>8. CASE Fly
  BY <1>8, <1>t, <1>l, FlyStep DEF DownInv, flight
<1>9. CASE Pilot
  BY <1>9, <1>t DEF Pilot, flight, DownInv, ControlInv
<1>10. CASE UNCHANGED vars
  BY <1>10 DEF vars, flight, DownInv
<1> QED BY <1>1, <1>2, <1>3, <1>4, <1>5, <1>6, <1>7, <1>8, <1>9, <1>10 DEF Next

LEMMA DescendStep ==
  Control /\ DownInv /\ [Next]_vars =>
    [in_charge' /\ drone'.level < drone.level =>
       \/ pending = "final_land" \/ heard
       \/ active = "fly_up" /\ drone.level > Top]_vars
<1> SUFFICES ASSUME Control, DownInv, Next, in_charge', drone'.level < drone.level,
                    pending # "final_land"
             PROVE  heard \/ (active = "fly_up" /\ drone.level > Top)
  OBVIOUS
<1>t. TypeOK /\ drone \in Places /\ drone.level \in Nat
  BY DEF Control, TypeOK, Places, Levels
<1>1. ~ UNCHANGED drone
  BY <1>t
<1>2. ~ Succeeded
  <2>1. Succeeded => drone' = drone \/ drone'.level >= drone.level
    BY <1>t DEF Succeeded, Places
  <2>2. Succeeded => drone'.level \in Nat
    BY <1>t DEF Succeeded, Places
  <2> QED BY <1>t, <2>1, <2>2
<1>3. ~ Ended /\ ~ Pilot
  BY <1>1 DEF Ended, Pilot, executor
<1>4. Fly
  BY <1>1, <1>2, <1>3 DEF Next, Activate, ModeCompleted, Takeover, MarkerSeen, Timers,
     tvecRvecCallback, arucoCallback, arucoMarkerCallback, position_poll,
     emitCircleWaypoints, checkCompletion, check_landing
<1>5. PICK p \in setpoint : p.level < drone.level
  <2>1. \A p \in setpoint : p.level \in Nat
    BY <1>t DEF TypeOK, Places, Levels
  <2> QED BY <1>t, <1>4, <2>1, FlyStep
<1> QED BY <1>5 DEF DownInv

\* Under the executor the drone goes down only towards the pad of this flight, of
\* which the descent has heard, on PX4's own landing, or from above the height of
\* InitialFlyUpMode down to it.
THEOREM DescendsToMarkerCorrect == Spec => DescendsToMarker
<1>1. Spec => []DownInv
  BY InitDown, StepDown, ControlInvariant, PTL DEF Spec
<1> QED BY <1>1, DescendStep, ControlInvariant, PTL DEF Spec, DescendsToMarker
=============================================================================
