---------------------------- MODULE RacerPairOpt ----------------------------
(***************************************************************************)
(* The pairwise allocation of grid cells between the exploring drones of    *)
(* RACER (fast_exploration_fsm.cpp).  Each drone owns cells and broadcasts  *)
(* them; from time to time a drone takes one of higher id, divides what it  *)
(* believes both own, sends the result and applies it when it is accepted.  *)
(*                                                                         *)
(* Clocks are synchronised; a tick is the unit of the timing parameters.    *)
(* A message stays in the network until it is too old, so that it may       *)
(* arrive late, in any order and more than once.                            *)
(***************************************************************************)
EXTENDS Integers, FiniteSets

CONSTANTS
  N,                \* exploration/drone_num; ids are 1 .. N
  Grids,            \* cells of the hierarchical grid
  AttemptInterval,  \* fsm/attempt_interval
  PairOptInterval,  \* fsm/pair_opt_interval
  repeat_send_num,  \* fsm/repeat_send_num: copies of a request or response
  Fresh,            \* age up to which a state counts as recent (0.2 s)
  MaxDelay,         \* a request is answered, or lost, within this time
  Reliable,         \* whether every request is answered
  SolverMayFail,    \* whether the LKH services may fail
  FrontiersEnd,     \* whether frontiers may run out while cells are relevant
  Rediscovery,      \* whether an explored cell may become relevant again
  MaxExplored,      \* bound: cells explored in the map of one drone
  MaxTicks          \* bound: ticks

ASSUME RacerPairOptAssumption ==
  /\ N \in Nat \ {0} /\ IsFiniteSet(Grids)
  /\ {AttemptInterval, PairOptInterval, repeat_send_num} \subseteq Nat \ {0}
  /\ Fresh \in Nat /\ MaxDelay \in Nat /\ MaxTicks \in Nat /\ MaxExplored \in Nat
  /\ {Reliable, SolverMayFail, FrontiersEnd, Rediscovery} \subseteq BOOLEAN

Drones == 1 .. N

\* ros::Time::now() at start: later than any interval after 0, the value that
\* stands for "never" in the code.
StartTime == AttemptInterval + PairOptInterval + Fresh + 1

Times == 0 .. StartTime + MaxTicks

VARIABLES
  now,
  state,            \* state_: "EXPLORE" is PLAN_TRAJ, PUB_TRAJ or EXEC_TRAJ;
                    \* "RETURN" is FINISH, or one of these with go_back_ set
  initialized,      \* UniformGrid::initialized_
  relevant,         \* relevant[d]: cells that d's map does not show explored
  swarm_state,      \* swarm_state[d][e]: what d knows of e, itself included
  pair_opt,         \* ego_ids_, other_ids_, pair_opt_stamp_, wait_response_
  req_stamp,        \* pair_opt_stamps_
  res_stamp,        \* pair_opt_res_stamps_
  net               \* messages that may still arrive

vars == <<now, state, initialized, relevant, swarm_state, pair_opt,
          req_stamp, res_stamp, net>>

States == {"INIT", "WAIT_TRIGGER", "EXPLORE", "IDLE", "RETURN"}

DroneStates == [grid_ids : SUBSET Grids, stamp : Times,
                attempt : Times, interact : Times]

Own(d) == swarm_state[d][d].grid_ids

Requests == {m \in net : m.type = "PairOpt"}
Responses == {m \in net : m.type = "PairOptResponse"}
DroneStateMsgs == {m \in net : m.type = "DroneState"}

Init ==
  /\ now = StartTime
  /\ state = [d \in Drones |-> "INIT"]
  /\ initialized = [d \in Drones |-> FALSE]
  /\ relevant = [d \in Drones |-> Grids]
  /\ swarm_state = [d \in Drones |-> [e \in Drones |->
       [grid_ids |-> {}, stamp |-> 0, attempt |-> 0, interact |-> 0]]]
  /\ pair_opt = [d \in Drones |->
       [ego_ids |-> {}, other_ids |-> {}, stamp |-> 0, wait_response |-> FALSE]]
  /\ req_stamp = [d \in Drones |-> [e \in Drones |-> 0]]
  /\ res_stamp = [d \in Drones |-> [e \in Drones |-> 0]]
  /\ net = {}

-----------------------------------------------------------------------------
(* Exploration.                                                            *)

\* Changes of state that touch no cells.  An idle drone flies back after 100 s;
\* go_back_ is never reset, so that it explores no more.
Transition(d, from, to) ==
  /\ state[d] = from
  /\ state' = [state EXCEPT ![d] = to]
  /\ UNCHANGED <<now, initialized, relevant, swarm_state, pair_opt,
                 req_stamp, res_stamp, net>>

OdometryReady(d) == Transition(d, "INIT", "WAIT_TRIGGER")
triggerCallback(d) == Transition(d, "WAIT_TRIGGER", "EXPLORE")
TriggeredTooLate(d) == FrontiersEnd /\ Transition(d, "WAIT_TRIGGER", "RETURN")
NoFrontier(d) == FrontiersEnd /\ Transition(d, "EXPLORE", "IDLE")
GoBack(d) == Transition(d, "IDLE", "RETURN")

\* updateGridData: what is left of d's cells when those of seen are relevant.
CellsLeft(d, seen) ==
  IF ~initialized[d]
  THEN IF d = 1 THEN seen ELSE Own(d)
  ELSE (Own(d) \cap seen) \cup (seen \ relevant[d])

\* The state of an exploring drone for which no tour was found.
Grounded(d) == IF state[d] = "EXPLORE" THEN [state EXCEPT ![d] = "IDLE"] ELSE state

\* findGlobalTourOfGrid, before the trigger or when a motion is planned.
\* Without a cell, or without a tour, there is nothing to do.
PlanGridTour(d, seen) ==
  /\ state[d] \in {"WAIT_TRIGGER", "EXPLORE"}
  /\ Rediscovery \/ seen \subseteq relevant[d]
  /\ Cardinality(Grids \ seen) <= MaxExplored
  /\ relevant' = [relevant EXCEPT ![d] = seen]
  /\ initialized' = [initialized EXCEPT ![d] = TRUE]
  /\ swarm_state' = [swarm_state EXCEPT ![d][d].grid_ids = CellsLeft(d, seen)]
  /\ \/ CellsLeft(d, seen) # {} /\ UNCHANGED state
     \/ CellsLeft(d, seen) = {} /\ state' = Grounded(d)
     \/ SolverMayFail /\ state' = Grounded(d)
  /\ UNCHANGED <<now, pair_opt, req_stamp, res_stamp, net>>

\* Mutant of Woken: an idle drone stays idle.
WokenNever(d, cells) == state

\* The state after new cells have been accepted.
Woken(d, cells) ==
  IF state[d] = "IDLE" /\ cells # {} THEN [state EXCEPT ![d] = "EXPLORE"] ELSE state

-----------------------------------------------------------------------------
(* Broadcast of the own state.                                             *)

droneStateTimerCallback(d) ==
  /\ swarm_state[d][d].stamp < now      \* one per tick
  /\ swarm_state' = [swarm_state EXCEPT ![d][d].stamp = now]
  /\ net' = net \cup
       {[type |-> "DroneState", from |-> d, to |-> e, stamp |-> now,
         grid_ids |-> Own(d), attempt |-> swarm_state[d][d].attempt] : e \in Drones \ {d}}
  /\ UNCHANGED <<now, state, initialized, relevant, pair_opt, req_stamp, res_stamp>>

droneStateMsgCallback(d, m) ==
  /\ m.to = d
  /\ m.stamp > swarm_state[d][m.from].stamp
  /\ net' = net \ {m}
  /\ swarm_state' = [swarm_state EXCEPT
       ![d][m.from] = [@ EXCEPT !.grid_ids = m.grid_ids, !.stamp = m.stamp,
                                !.attempt = m.attempt]]
  /\ UNCHANGED <<now, state, initialized, relevant, pair_opt, req_stamp, res_stamp>>

-----------------------------------------------------------------------------
(* The exchange.                                                           *)

\* The drones that d may optimise with.
Candidates(d) ==
  {e \in d + 1 .. N :
     /\ now - swarm_state[d][e].stamp <= Fresh
     /\ now - swarm_state[d][e].attempt >= AttemptInterval
     /\ now - swarm_state[d][e].interact >= PairOptInterval
     /\ swarm_state[d][e].grid_ids \cup Own(d) # {}}

\* The one not interacted with for the longest time; of several, the first.
IsSelected(d, e) ==
  /\ e \in Candidates(d)
  /\ \A f \in Candidates(d) :
       \/ swarm_state[d][e].interact < swarm_state[d][f].interact
       \/ swarm_state[d][e].interact = swarm_state[d][f].interact /\ e <= f

\* findUnallocated: relevant cells that, as far as d knows, nobody owns.
Missed(d) == relevant[d] \ UNION {swarm_state[d][e].grid_ids : e \in Drones}

\* allocateGrids: ego and other as the solver divides the cells, or nothing for
\* either when it fails.  A single cell goes to the closer drone unsolved.
Allocations(cells) ==
  {[ego |-> ego, other |-> cells \ ego] : ego \in SUBSET cells}
    \cup (IF SolverMayFail /\ Cardinality(cells) > 1
          THEN {[ego |-> {}, other |-> {}]} ELSE {})

\* Mutant of AttemptTime: when the next attempt may be made, not the last one was.
AttemptTimeNext == now + AttemptInterval

AttemptTime == now

\* Mutant of MayAttempt: an attempt may follow another at once.
MayAttemptAlways(d) == state[d] # "INIT"

\* "Avoid frequent attempt."
MayAttempt(d) ==
  state[d] # "INIT" /\ now - swarm_state[d][d].attempt >= AttemptInterval

optTimerCallback(d) ==
  /\ MayAttempt(d)
  /\ \E e \in Drones :
       /\ IsSelected(d, e)
       /\ \E alloc \in Allocations(Own(d) \cup swarm_state[d][e].grid_ids \cup Missed(d)) :
            /\ net' = net \cup {[type |-> "PairOpt", from |-> d, to |-> e, stamp |-> now,
                                 ego_ids |-> alloc.ego, other_ids |-> alloc.other]}
            /\ pair_opt' = [pair_opt EXCEPT ![d] =
                 [ego_ids |-> alloc.ego, other_ids |-> alloc.other,
                  stamp |-> now, wait_response |-> TRUE]]
  /\ swarm_state' = [swarm_state EXCEPT ![d][d].attempt = AttemptTime]
  /\ UNCHANGED <<now, state, initialized, relevant, req_stamp, res_stamp>>

\* Mutant of NewRequest: repeated and unordered requests are not told apart.
NewRequestAlways(d, m) == TRUE

NewRequest(d, m) == m.stamp > req_stamp[d][m.from]

\* The network after a copy of m has arrived.
Received(m) == IF repeat_send_num = 1 THEN net \ {m} ELSE net

\* Whether drone d takes part in an exchange other than that of the request.
JustAttempted(d, m) == m.stamp - swarm_state[d][d].attempt < AttemptInterval

Response(m, status) ==
  [type |-> "PairOptResponse", from |-> m.to, to |-> m.from, stamp |-> m.stamp,
   status |-> status]

RejectRequest(d, m) ==
  /\ JustAttempted(d, m)
  /\ net' = Received(m) \cup {Response(m, 2)}
  /\ UNCHANGED <<state, swarm_state>>

AcceptRequest(d, m) ==
  /\ ~JustAttempted(d, m)
  /\ swarm_state' = [swarm_state EXCEPT
       ![d][m.from].grid_ids = m.ego_ids, ![d][m.from].interact = m.stamp,
       ![d][d].grid_ids = m.other_ids, ![d][d].attempt = AttemptTime]
  /\ state' = Woken(d, m.other_ids)
  /\ net' = Received(m) \cup {Response(m, 1)}

optMsgCallback(d, m) ==
  /\ m.to = d
  /\ NewRequest(d, m)
  /\ req_stamp' = [req_stamp EXCEPT ![d][m.from] = m.stamp]
  /\ RejectRequest(d, m) \/ AcceptRequest(d, m)
  /\ UNCHANGED <<now, initialized, relevant, pair_opt, res_stamp>>

\* Mutant of Agreed: any response confirms the exchange.
AgreedAlways(m) == TRUE

Agreed(m) == m.status = 1

\* Whether m answers the request that d waits for.
AnswersPending(d, m) == pair_opt[d].wait_response /\ pair_opt[d].stamp = m.stamp

ApplyResponse(d, m) ==
  /\ swarm_state' = [swarm_state EXCEPT
       ![d][d].grid_ids = pair_opt[d].ego_ids,
       ![d][m.from].grid_ids = pair_opt[d].other_ids, ![d][m.from].interact = now]
  /\ state' = Woken(d, pair_opt[d].ego_ids)

optResMsgCallback(d, m) ==
  /\ m.to = d
  /\ m.stamp > res_stamp[d][m.from]
  /\ res_stamp' = [res_stamp EXCEPT ![d][m.from] = m.stamp]
  /\ \/ /\ ~AnswersPending(d, m)
        /\ UNCHANGED <<pair_opt, swarm_state, state>>
     \/ /\ AnswersPending(d, m)
        /\ pair_opt' = [pair_opt EXCEPT ![d].wait_response = FALSE]
        /\ \/ Agreed(m) /\ ApplyResponse(d, m)
           \/ ~Agreed(m) /\ UNCHANGED <<swarm_state, state>>
  /\ net' = Received(m)
  /\ UNCHANGED <<now, initialized, relevant, req_stamp>>

-----------------------------------------------------------------------------
(* Time and the network.                                                   *)

\* Whether a copy of m has arrived before, or a later message has.
Handled(m) ==
  \/ m.type = "DroneState" /\ m.stamp <= swarm_state[m.to][m.from].stamp
  \/ m.type = "PairOpt" /\ m.stamp <= req_stamp[m.to][m.from]
  \/ m.type = "PairOptResponse" /\ m.stamp <= res_stamp[m.to][m.from]

Tick ==
  /\ now < StartTime + MaxTicks
  /\ now' = now + 1
  /\ Reliable => \A m \in Requests \cup Responses : Handled(m) \/ m.stamp + MaxDelay >= now'
  /\ net' = {m \in net : ~Handled(m) /\ m.stamp + MaxDelay >= now'}
  /\ UNCHANGED <<state, initialized, relevant, swarm_state, pair_opt,
                 req_stamp, res_stamp>>

Next ==
  \/ \E d \in Drones :
       \/ OdometryReady(d) \/ triggerCallback(d) \/ TriggeredTooLate(d)
       \/ NoFrontier(d) \/ GoBack(d)
       \/ \E seen \in SUBSET Grids : PlanGridTour(d, seen)
       \/ droneStateTimerCallback(d) \/ optTimerCallback(d)
       \/ \E m \in DroneStateMsgs : droneStateMsgCallback(d, m)
       \/ \E m \in Requests : optMsgCallback(d, m)
       \/ \E m \in Responses : optResMsgCallback(d, m)
  \/ Tick

Spec == Init /\ [][Next]_vars

-----------------------------------------------------------------------------
(* Properties.                                                             *)

\* Every variable of every drone, and every message, holds what its C++ type and
\* the callbacks allow: cells of the grid, times that have been, known answers.
TypeOK ==
  /\ now \in Times
  /\ state \in [Drones -> States]
  /\ initialized \in [Drones -> BOOLEAN]
  /\ relevant \in [Drones -> SUBSET Grids]
  /\ swarm_state \in [Drones -> [Drones -> DroneStates]]
  /\ pair_opt \in [Drones -> [ego_ids : SUBSET Grids, other_ids : SUBSET Grids,
                              stamp : Times, wait_response : BOOLEAN]]
  /\ req_stamp \in [Drones -> [Drones -> Times]]
  /\ res_stamp \in [Drones -> [Drones -> Times]]
  /\ \A d, e \in Drones :
       /\ swarm_state[d][e].stamp <= now /\ swarm_state[d][e].attempt <= now
       /\ req_stamp[d][e] <= now /\ pair_opt[d].stamp <= now

\* A drone that owns cells explores them: an exchange wakes up an idle one, on
\* either side ("Restart after opt!").
IdleOwnsNothing == \A d \in Drones : state[d] = "IDLE" => Own(d) = {}

\* However often a request is sent and delivered, whatever is sent in between, its
\* answers agree: the requester never sees a rejection of what was accepted.
OneAnswer ==
  \A m, n \in Responses :
    m.from = n.from /\ m.to = n.to /\ m.stamp = n.stamp => m.status = n.status

\* "Verify the consistency of pair opt via time stamp": a drone applies a reserved
\* allocation only after the drone it was sent to has taken its part of it.
AppliedByBoth ==
  [][\A d, e \in Drones :
       swarm_state[d][e].interact # swarm_state'[d][e].interact =>
         \/ swarm_state[e][d].interact = pair_opt[d].stamp
         \/ \E m \in Requests : m.from = e /\ m.to = d /\ m.stamp = swarm_state'[d][e].interact
    ]_vars

\* "The grid info between drones are consistent": when a drone accepts a request
\* or applies a response, the allocation covers all that it owns, so that no
\* cell is left without an owner.
ConsistentExchange ==
  [][\A d \in Drones :
       /\ \A m \in Requests :
            m.to = d /\ req_stamp[d][m.from] < m.stamp /\ req_stamp'[d][m.from] = m.stamp =>
              Own(d) \subseteq Own(d)' \cup m.ego_ids
       /\ pair_opt[d].wait_response /\ ~pair_opt'[d].wait_response =>
            Own(d) \subseteq Own(d)' \cup pair_opt[d].other_ids]_vars

\* The cells of d, with those of an exchange its partner has accepted.
Effective(d) ==
  IF \E m \in Responses : m.to = d /\ m.status = 1 /\ ~Handled(m) /\ AnswersPending(d, m)
  THEN pair_opt[d].ego_ids
  ELSE Own(d)

Ownership == INSTANCE GridOwnership WITH owned <- [d \in Drones |-> Effective(d)]

\* Cells change hands as GridOwnership says, as long as every request is answered
\* before the next attempt and no state older than the last exchange is used:
\* the exchange takes place when the partner accepts it, and what the requester
\* does until the response arrives does not undo it.
OwnershipImplemented == Ownership!Spec

=============================================================================
