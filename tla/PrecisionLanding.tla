-------------------------- MODULE PrecisionLanding --------------------------
(***************************************************************************)
(* The precision landing of precision_landing: an executor that arms, takes *)
(* off, and schedules four PX4 modes one after the other - fly up, find the *)
(* marker, move above it, descend - before it lands.  PX4 and its library   *)
(* (px4_ros2) are the environment: they answer, refuse, take control away.  *)
(* Places are spots, heights are levels; "within the tolerance" is "equal". *)
(***************************************************************************)
EXTENDS Integers

CONSTANTS
  Spots,                  \* places in the plane
  Origin,                 \* (0, 0), what lastArucoPosition holds at first
  Up,                     \* (x, y) of InitialFlyUpMode
  Top,                    \* the level of its z
  Lift,                   \* the level that a takeoff reaches at least
  Ceiling,                \* bound: the highest level
  Markers,                \* landing pads, each [at, level]
  NaN,                    \* what targetZ holds at first
  MaxActivations          \* bound: activations of the executor

ASSUME LandingAssumption ==
  /\ Origin \in Spots /\ Up \in Spots
  /\ Top \in Nat /\ Lift \in Nat /\ Ceiling \in Nat
  /\ Lift <= Top /\ Top <= Ceiling
  /\ NaN \notin 0 .. Ceiling
  /\ MaxActivations \in Nat

\* The pads are lower than a drone that has taken off.
ASSUME PadAssumption == Markers \subseteq [at : Spots, level : 0 .. Lift - 1]

VARIABLES
  in_charge,              \* PX4 has put the executor in charge
  activations,            \* how often so far
  pending,                \* the State whose callback PX4 owes, or "none"
  active,                 \* the mode of this process that is active, or "none"
  completed,              \* it has called completed()
  running,                \* the modes whose timer and subscription exist
  setpoint,               \* the last one commanded, none or one
  lastArucoPosition,      \* of MoveAboveMarkerMode
  targetZ,                \* of DescendMode
  drone,                  \* where it is: [at, level]
  marker,                 \* the pad of this flight
  heard                   \* history: DescendMode has heard of it in this flight

executor == <<in_charge, activations, pending>>
members == <<lastArucoPosition, targetZ>>
flight == <<marker, heard>>
vars == <<executor, active, completed, running, setpoint, members, drone, flight>>

Levels == 0 .. Ceiling
Places == [at : Spots, level : Levels]
Modes == {"fly_up", "find_marker", "move_above_marker", "descend"}
States == Modes \cup {"request_arm", "taking_off", "final_land"}

NextState ==
  [request_arm |-> "taking_off", taking_off |-> "fly_up", fly_up |-> "find_marker",
   find_marker |-> "move_above_marker", move_above_marker |-> "descend",
   descend |-> "final_land"]

\* The pad of this flight, if it is here, holds the drone.
Surface(s) == IF marker.at = s THEN marker.level ELSE 0

\* Mutant: targetZ starts at a level that a drone may have after it has taken off.
InitZero ==
  /\ in_charge = FALSE /\ activations = 0 /\ pending = "none"
  /\ active = "none" /\ completed = FALSE /\ running = {} /\ setpoint = {}
  /\ lastArucoPosition = Origin /\ targetZ = Top /\ heard = FALSE
  /\ drone = [at |-> Origin, level |-> 0]
  /\ marker \in Markers

Init ==
  /\ in_charge = FALSE /\ activations = 0 /\ pending = "none"
  /\ active = "none" /\ completed = FALSE /\ running = {} /\ setpoint = {}
  /\ lastArucoPosition = Origin /\ targetZ = NaN /\ heard = FALSE
  /\ drone = [at |-> Origin, level |-> 0]
  /\ marker \in Markers
-----------------------------------------------------------------------------
(***************************************************************************)
(* The executor.                                                            *)
(***************************************************************************)
\* What PX4 may owe after runState(s).  A request that is refused calls back
\* at once: fly_up and find_marker go on whatever the result, the others stop.
runState(s) ==
  {s, "none"} \cup
  (IF s = "fly_up" THEN {"find_marker", "move_above_marker"}
   ELSE IF s = "find_marker" THEN {"move_above_marker"} ELSE {})

\* Mutants: the mode that descends keeps its subscription; all modes subscribe
\* when they are built, as AscendMode does.
KeptDescend(m) == IF m = "descend" THEN running ELSE running \ {m}

\* onDeactivate of each mode.
onDeactivate(m) == running \ {m}

onActivateOnce(m) ==
  /\ running' = onDeactivate(active) \cup (IF activations > 1 THEN {} ELSE {m})
  /\ setpoint' = IF m = "fly_up" THEN {[at |-> Up, level |-> Top]} ELSE {}

\* onActivate of each mode; the one before is deactivated.
onActivate(m) ==
  /\ running' = onDeactivate(active) \cup {m}
  /\ setpoint' = IF m = "fly_up" THEN {[at |-> Up, level |-> Top]} ELSE {}

\* PX4 carries out what has been requested, or nothing.
Requested(s) ==
  /\ pending' = s
  /\ \/ /\ s \in Modes
        /\ active' = s /\ completed' = FALSE
        /\ onActivate(s)
     \/ /\ s \in {"taking_off", "final_land"}
        /\ active' = "none" /\ completed' = FALSE
        /\ running' = onDeactivate(active) /\ setpoint' = {}
     \/ /\ s \in {"request_arm", "none"}
        /\ UNCHANGED <<active, completed, running, setpoint>>

Activate ==
  /\ ~in_charge /\ activations < MaxActivations
  /\ in_charge' = TRUE /\ activations' = activations + 1
  /\ \E s \in runState("request_arm") : Requested(s)
  /\ marker' \in Markers /\ heard' = FALSE
  /\ UNCHANGED <<members, drone>>

\* arm() and takeoff() have succeeded.  PX4 reads the altitude of takeoff above
\* mean sea level: the drone may come higher than any of the modes flies, but a
\* takeoff does not lower it.
Succeeded ==
  /\ pending \in {"request_arm", "taking_off"}
  /\ \/ pending = "request_arm" /\ UNCHANGED drone
     \/ /\ pending = "taking_off"
        /\ \E l \in Lift .. Ceiling :
             l >= drone.level /\ drone' = [drone EXCEPT !.level = l]
  /\ \E s \in runState(NextState[pending]) : Requested(s)
  /\ UNCHANGED <<in_charge, activations, members, flight>>

\* They have failed, or land() has ended: nothing follows.
Ended ==
  /\ pending \in {"request_arm", "taking_off", "final_land"}
  /\ pending' = "none"
  /\ drone' \in {drone} \cup
       (IF pending = "final_land" THEN {[drone EXCEPT !.level = Surface(drone.at)]} ELSE {})
  /\ UNCHANGED <<in_charge, activations, active, completed, running, setpoint, members, flight>>

\* The completion of the scheduled mode reaches the executor.
ModeCompleted ==
  /\ pending = active /\ completed
  /\ \E s \in runState(NextState[pending]) : Requested(s)
  /\ UNCHANGED <<in_charge, activations, members, drone, flight>>

\* The pilot or a failsafe takes control.  The callback that was owed gets
\* Deactivated, and what it requests then is refused.
Takeover ==
  /\ in_charge
  /\ in_charge' = FALSE /\ pending' = "none"
  /\ active' = "none" /\ completed' = FALSE
  /\ running' = onDeactivate(active) /\ setpoint' = {}
  /\ UNCHANGED <<activations, members, drone, flight>>
-----------------------------------------------------------------------------
(***************************************************************************)
(* The modes.                                                               *)
(***************************************************************************)
\* completed() counts for the active mode only.
Complete(m) == completed' = (completed \/ active = m)

position_poll ==
  /\ "fly_up" \in running
  /\ drone = [at |-> Up, level |-> Top]
  /\ Complete("fly_up")
  /\ UNCHANGED <<executor, active, running, setpoint, members, drone, flight>>

\* The radius grows: the circle leads anywhere.
emitCircleWaypoints ==
  /\ "find_marker" \in running
  /\ \E s \in Spots : setpoint' = {[at |-> s, level |-> drone.level]}
  /\ UNCHANGED <<executor, active, completed, running, members, drone, flight>>

tvecRvecCallback ==
  /\ "find_marker" \in running
  /\ Complete("find_marker")
  /\ UNCHANGED <<executor, active, running, setpoint, members, drone, flight>>

\* Mutant: the setpoint takes z from the marker as well.
arucoCallbackDown ==
  /\ "move_above_marker" \in running
  /\ lastArucoPosition' = marker.at
  /\ setpoint' = {marker}
  /\ UNCHANGED <<executor, active, completed, running, targetZ, drone, flight>>

arucoCallback ==
  /\ "move_above_marker" \in running
  /\ lastArucoPosition' = marker.at
  /\ setpoint' = {[at |-> marker.at, level |-> drone.level]}
  /\ UNCHANGED <<executor, active, completed, running, targetZ, drone, flight>>

checkCompletion ==
  /\ "move_above_marker" \in running
  /\ drone.at = lastArucoPosition
  /\ Complete("move_above_marker")
  /\ UNCHANGED <<executor, active, running, setpoint, members, drone, flight>>

\* Mutant: z is taken over without the change of frame.
arucoMarkerCallbackEnu ==
  /\ "descend" \in running
  /\ targetZ' = -marker.level
  /\ setpoint' = {[at |-> marker.at, level |-> 0]}
  /\ heard' = TRUE
  /\ UNCHANGED <<executor, active, completed, running, lastArucoPosition, drone, marker>>

\* The setpoint has a position in the plane and a velocity downwards.
arucoMarkerCallback ==
  /\ "descend" \in running
  /\ targetZ' = marker.level
  /\ setpoint' = {[at |-> marker.at, level |-> 0]}
  /\ heard' = TRUE
  /\ UNCHANGED <<executor, active, completed, running, lastArucoPosition, drone, marker>>

AtTarget == drone.level = targetZ       \* false as long as targetZ is NaN

check_landing ==
  /\ "descend" \in running
  /\ AtTarget
  /\ running' = running \ {"descend"}
  /\ Complete("descend")
  /\ UNCHANGED <<executor, active, setpoint, members, drone, flight>>
-----------------------------------------------------------------------------
(***************************************************************************)
(* The vehicle.                                                             *)
(***************************************************************************)
\* It follows the setpoint.  A level takes seconds, so that check_landing, once
\* a second, and the message of a completion come first.
Fly ==
  /\ ~ (completed /\ pending = active)
  /\ ~ ("descend" \in running /\ AtTarget)
  /\ \E p \in setpoint :
       \/ /\ drone.at # p.at
          /\ drone' = [drone EXCEPT !.at = p.at]
       \/ /\ drone.level > p.level /\ drone.level > Surface(drone.at)
          /\ drone' = [drone EXCEPT !.level = @ - 1]
       \/ /\ drone.level < p.level
          /\ drone' = [drone EXCEPT !.level = @ + 1]
  /\ UNCHANGED <<executor, active, completed, running, setpoint, members, flight>>

Pilot ==
  /\ ~in_charge
  /\ drone' \in Places
  /\ UNCHANGED <<executor, active, completed, running, setpoint, members, flight>>

MarkerSeen == tvecRvecCallback \/ arucoCallback \/ arucoMarkerCallback
Timers == position_poll \/ emitCircleWaypoints \/ checkCompletion \/ check_landing

Next ==
  \/ Activate \/ Succeeded \/ Ended \/ ModeCompleted \/ Takeover
  \/ MarkerSeen \/ Timers \/ Fly \/ Pilot

Spec == Init /\ [][Next]_vars

\* PX4 answers, timers run, the marker is seen, the drone follows its setpoint.
Fairness ==
  /\ WF_vars(Succeeded \/ Ended)
  /\ WF_vars(ModeCompleted)
  /\ WF_vars(tvecRvecCallback) /\ WF_vars(arucoCallback) /\ WF_vars(arucoMarkerCallback)
  /\ WF_vars(position_poll) /\ WF_vars(checkCompletion) /\ WF_vars(check_landing)
  /\ WF_vars(Fly)

FairSpec == Spec /\ Fairness
-----------------------------------------------------------------------------
TypeOK ==
  /\ in_charge \in BOOLEAN
  /\ activations \in 0 .. MaxActivations
  /\ pending \in States \cup {"none"}
  /\ active \in Modes \cup {"none"}
  /\ completed \in BOOLEAN
  /\ running \subseteq Modes
  /\ setpoint \subseteq Places
  /\ lastArucoPosition \in Spots
  /\ targetZ \in Levels \cup {NaN}
  /\ drone \in Places
  /\ marker \in Markers
  /\ heard \in BOOLEAN

\* land() is called only at the height of the pad of this flight, and DescendMode
\* has heard of it, although the phases before may all have been refused or have
\* completed without a marker (MoveAboveMarkerMode does at the origin, where
\* lastArucoPosition starts) and targetZ may be that of another pad: only its NaN,
\* or the height of a takeoff, holds the descent.
LandsAtMarkerHeight ==
  pending = "final_land" => heard /\ drone.level = marker.level

\* Timers and subscriptions, and so commands, are those of the active mode
\* only, however the modes before have ended.
OneModeCommands == running \subseteq {active}

\* Under the executor the drone goes down only once DescendMode has heard of the
\* pad, not while it looks for it or moves above it; and before, from a greater
\* height down to that of InitialFlyUpMode.
DescendsToMarker ==
  [][in_charge' /\ drone'.level < drone.level =>
       \/ pending = "final_land" \/ heard
       \/ active = "fly_up" /\ drone.level > Top]_vars

\* The executor waits for no phase for ever, in a first flight or a later one.
PhaseEnds == \A s \in States : (pending = s) ~> (pending # s)
=============================================================================
