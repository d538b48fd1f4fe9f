------------------------ MODULE RacerPairOpt_proofs -------------------------
(***************************************************************************)
(* Safety of the exchange of cells for any number of drones and any cells,  *)
(* over a network that loses, repeats and reorders.                         *)
(***************************************************************************)
EXTENDS RacerPairOpt, TLAPS

-----------------------------------------------------------------------------
(* Types.                                                                  *)

\* A message goes from one drone to another: a request to one of higher id,
\* its response back.
MessageOK(m) ==
  /\ m.from \in Drones /\ m.to \in Drones /\ m.from # m.to
  /\ m.stamp \in Times /\ m.stamp <= now
  /\ m.type \in {"DroneState", "PairOpt", "PairOptResponse"}
  /\ m.type = "DroneState" =>
       m.grid_ids \subseteq Grids /\ m.attempt \in Times /\ m.attempt <= now
  /\ m.type = "PairOpt" =>
       m.from < m.to /\ m.ego_ids \subseteq Grids /\ m.other_ids \subseteq Grids
  /\ m.type = "PairOptResponse" => m.to < m.from /\ m.status \in {1, 2}

NetOK == \A m \in net : MessageOK(m)

TypeInv == TypeOK /\ NetOK

LEMMA ConstantType ==
  /\ N \in Nat \ {0}
  /\ AttemptInterval \in Nat \ {0} /\ PairOptInterval \in Nat /\ Fresh \in Nat
  /\ MaxTicks \in Nat
BY RacerPairOptAssumption

LEMMA TimesType ==
  /\ Times \subseteq Nat /\ StartTime \in Nat /\ 0 \in Times /\ StartTime \in Times
BY ConstantType DEF Times, StartTime

LEMMA InitType == Init => TypeInv
<1> SUFFICES ASSUME Init PROVE TypeInv
  OBVIOUS
<1>1. now \in Times /\ now >= 0 /\ 0 \in Times
  BY TimesType DEF Init
<1>2. initialized \in [Drones -> BOOLEAN]
  BY Zenon DEF Init
<1>3. state \in [Drones -> States] /\ relevant \in [Drones -> SUBSET Grids]
  BY DEF Init, States
<1>4. swarm_state \in [Drones -> [Drones -> DroneStates]]
  BY <1>1 DEF Init, DroneStates
<1>5. pair_opt \in [Drones -> [ego_ids : SUBSET Grids, other_ids : SUBSET Grids,
                               stamp : Times, wait_response : BOOLEAN]]
  BY <1>1 DEF Init
<1>6. /\ req_stamp \in [Drones -> [Drones -> Times]]
      /\ res_stamp \in [Drones -> [Drones -> Times]]
  BY <1>1 DEF Init
<1>7. \A d, e \in Drones :
        /\ swarm_state[d][e].stamp <= now /\ swarm_state[d][e].attempt <= now
        /\ req_stamp[d][e] <= now /\ pair_opt[d].stamp <= now
  BY <1>1 DEF Init
<1>8. NetOK
  BY DEF Init, NetOK
<1> QED BY <1>1, <1>2, <1>3, <1>4, <1>5, <1>6, <1>7, <1>8 DEF TypeInv, TypeOK

\* A change of one state keeps its type.
LEMMA StateType ==
  ASSUME TypeOK, NEW d \in Drones, NEW s \in States, state' = [state EXCEPT ![d] = s]
  PROVE  state' \in [Drones -> States]
BY DEF TypeOK

\* Time passes: what was not later than now still is not.
LEMMA LaterType ==
  ASSUME TypeOK, NetOK, now' \in Times, now' >= now, net' \subseteq net,
         UNCHANGED <<state, initialized, relevant, swarm_state, pair_opt, req_stamp, res_stamp>>
  PROVE  TypeOK' /\ NetOK'
<1>1. \A d, e \in Drones :
        /\ swarm_state'[d][e].stamp <= now' /\ swarm_state'[d][e].attempt <= now'
        /\ req_stamp'[d][e] <= now' /\ pair_opt'[d].stamp <= now'
  <2> TAKE d, e \in Drones
  <2>1. /\ swarm_state[d][e].stamp \in Nat /\ swarm_state[d][e].attempt \in Nat
        /\ req_stamp[d][e] \in Nat /\ pair_opt[d].stamp \in Nat /\ now \in Nat
    BY TimesType, ZenonT(40) DEF TypeOK, DroneStates
  <2> QED BY <2>1, TimesType DEF TypeOK
<1>2. NetOK'
  <2> SUFFICES ASSUME NEW m \in net' PROVE MessageOK(m)'
    BY DEF NetOK
  <2>1. MessageOK(m) /\ now \in Nat /\ now' \in Nat
    BY TimesType DEF NetOK, TypeOK
  <2>2. m.stamp \in Nat /\ m.stamp <= now'
    <3>1. m.stamp \in Nat /\ m.stamp <= now
      BY <2>1, TimesType DEF MessageOK
    <3>2. now <= now'
      OBVIOUS
    <3> QED BY <2>1, <3>1, <3>2
  <2>3. m.type = "DroneState" => m.attempt <= now'
    <3> SUFFICES ASSUME m.type = "DroneState" PROVE m.attempt <= now'
      OBVIOUS
    <3>1. m.attempt \in Nat /\ m.attempt <= now
      BY <2>1, TimesType DEF MessageOK
    <3> QED BY <2>1, <3>1
  <2> QED BY <2>1, <2>2, <2>3 DEF MessageOK
<1> QED BY <1>1, <1>2 DEF TypeOK

LEMMA TransitionType ==
  ASSUME TypeOK, NetOK, NEW d \in Drones, NEW from \in States, NEW to \in States,
         Transition(d, from, to)
  PROVE  TypeOK' /\ NetOK'
BY DEF TypeOK, NetOK, MessageOK, Transition

SwarmStates == [Drones -> [Drones -> DroneStates]]

\* One entry of what drone d knows is replaced.
LEMMA EntryUpdate ==
  ASSUME swarm_state \in SwarmStates, NEW d \in Drones, NEW e \in Drones, NEW r \in DroneStates,
         swarm_state' = [swarm_state EXCEPT ![d] = [swarm_state[d] EXCEPT ![e] = r]]
  PROVE  /\ swarm_state' \in SwarmStates
         /\ swarm_state'[d][e] = r
         /\ \A f, g \in Drones : f # d \/ g # e => swarm_state'[f][g] = swarm_state[f][g]
<1>1. [swarm_state[d] EXCEPT ![e] = r] \in [Drones -> DroneStates]
  BY DEF SwarmStates
<1> QED BY <1>1 DEF SwarmStates

LEMMA PlanType ==
  ASSUME TypeOK, NetOK, NEW d \in Drones, NEW seen \in SUBSET Grids, PlanGridTour(d, seen)
  PROVE  /\ TypeOK' /\ NetOK'
         /\ Own(d)' = CellsLeft(d, seen)
         /\ \A f, g \in Drones :
              /\ swarm_state'[f][g].attempt = swarm_state[f][g].attempt
              /\ swarm_state'[f][g].interact = swarm_state[f][g].interact
              /\ f # d \/ g # d => swarm_state'[f][g] = swarm_state[f][g]
<1> DEFINE r == [swarm_state[d][d] EXCEPT !.grid_ids = CellsLeft(d, seen)]
<1>1. CellsLeft(d, seen) \subseteq Grids
  BY DEF CellsLeft, Own, TypeOK, DroneStates
<1>2. state' \in [Drones -> States]
  <2>1. state' = state \/ state' = [state EXCEPT ![d] = "IDLE"]
    BY DEF PlanGridTour, Grounded
  <2> QED BY <2>1, StateType DEF States, TypeOK
<1>3. relevant' \in [Drones -> SUBSET Grids]
  BY DEF PlanGridTour, TypeOK
<1>4. initialized' \in [Drones -> BOOLEAN]
  BY DEF PlanGridTour, TypeOK
<1>5. swarm_state \in SwarmStates /\ r \in DroneStates /\ r.stamp = swarm_state[d][d].stamp
      /\ r.attempt = swarm_state[d][d].attempt /\ r.interact = swarm_state[d][d].interact
      /\ r.grid_ids = CellsLeft(d, seen)
  <2>1. swarm_state \in SwarmStates /\ swarm_state[d][d] \in DroneStates
    BY DEF TypeOK, SwarmStates
  <2> QED BY <1>1, <2>1 DEF DroneStates
<1>6. swarm_state' = [swarm_state EXCEPT ![d] = [swarm_state[d] EXCEPT ![d] = r]]
  BY <1>5 DEF PlanGridTour, SwarmStates
<1> HIDE DEF r
<1>7. /\ swarm_state' \in SwarmStates
      /\ swarm_state'[d][d] = r
      /\ \A f, g \in Drones : f # d \/ g # d => swarm_state'[f][g] = swarm_state[f][g]
  BY <1>5, <1>6, EntryUpdate
<1>8. \A e, f \in Drones :
        swarm_state'[e][f].stamp <= now /\ swarm_state'[e][f].attempt <= now
  BY <1>5, <1>7, ZenonT(40) DEF TypeOK
<1>9. UNCHANGED <<now, pair_opt, req_stamp, res_stamp, net>>
  BY DEF PlanGridTour
<1>10. TypeOK' /\ NetOK'
  BY <1>2, <1>3, <1>4, <1>7, <1>8, <1>9 DEF TypeOK, SwarmStates, NetOK, MessageOK
<1> QED BY <1>5, <1>7, <1>10 DEF Own

LEMMA StateTimerType ==
  ASSUME TypeOK, NetOK, NEW d \in Drones, droneStateTimerCallback(d)
  PROVE  /\ TypeOK' /\ NetOK'
         /\ \A f, g \in Drones :
              /\ swarm_state'[f][g].grid_ids = swarm_state[f][g].grid_ids
              /\ swarm_state'[f][g].attempt = swarm_state[f][g].attempt
              /\ swarm_state'[f][g].interact = swarm_state[f][g].interact
              /\ f # d \/ g # d => swarm_state'[f][g] = swarm_state[f][g]
         /\ \A m \in net' : m.type # "DroneState" => m \in net
<1> DEFINE r == [swarm_state[d][d] EXCEPT !.stamp = now]
<1>1. swarm_state \in SwarmStates /\ r \in DroneStates /\ r.stamp = now
      /\ r.attempt = swarm_state[d][d].attempt /\ r.interact = swarm_state[d][d].interact
      /\ r.grid_ids = swarm_state[d][d].grid_ids
  <2>1. swarm_state \in SwarmStates /\ swarm_state[d][d] \in DroneStates /\ now \in Times
    BY DEF TypeOK, SwarmStates
  <2> QED BY <2>1 DEF DroneStates
<1>2. swarm_state' = [swarm_state EXCEPT ![d] = [swarm_state[d] EXCEPT ![d] = r]]
  BY <1>1 DEF droneStateTimerCallback, SwarmStates
<1> HIDE DEF r
<1>3. /\ swarm_state' \in SwarmStates
      /\ swarm_state'[d][d] = r
      /\ \A f, g \in Drones : f # d \/ g # d => swarm_state'[f][g] = swarm_state[f][g]
  <2>1. [swarm_state[d] EXCEPT ![d] = r] \in [Drones -> DroneStates]
    BY <1>1 DEF SwarmStates
  <2> QED BY <1>1, <1>2, <2>1 DEF SwarmStates
<1>4. \A e, f \in Drones : swarm_state'[e][f].stamp <= now /\ swarm_state'[e][f].attempt <= now
  <2>1. now <= now
    BY TimesType DEF TypeOK
  <2> QED BY <1>1, <1>3, <2>1, ZenonT(40) DEF TypeOK
<1>5. NetOK'
  <2> SUFFICES ASSUME NEW m \in net', m \notin net PROVE MessageOK(m)'
    BY DEF NetOK, MessageOK, droneStateTimerCallback
  <2>1. PICK e \in Drones \ {d} :
          m = [type |-> "DroneState", from |-> d, to |-> e, stamp |-> now,
               grid_ids |-> Own(d), attempt |-> swarm_state[d][d].attempt]
    BY DEF droneStateTimerCallback
  <2>2. Own(d) \subseteq Grids /\ swarm_state[d][d].attempt \in Times
        /\ swarm_state[d][d].attempt <= now /\ now' = now
    BY DEF TypeOK, DroneStates, Own, droneStateTimerCallback
  <2> QED BY <2>1, <2>2, TimesType DEF MessageOK, TypeOK
<1>6. UNCHANGED <<now, state, initialized, relevant, pair_opt, req_stamp, res_stamp>>
  BY DEF droneStateTimerCallback
<1>7. TypeOK'
  BY <1>3, <1>4, <1>6 DEF TypeOK, SwarmStates
<1>8. \A m \in net' : m.type # "DroneState" => m \in net
  BY DEF droneStateTimerCallback
<1> QED BY <1>1, <1>3, <1>5, <1>7, <1>8

LEMMA StateMsgType ==
  ASSUME TypeOK, NetOK, NEW d \in Drones, NEW m \in DroneStateMsgs, droneStateMsgCallback(d, m)
  PROVE  /\ TypeOK' /\ NetOK'
         /\ \A f, g \in Drones :
              /\ swarm_state'[f][g].interact = swarm_state[f][g].interact
              /\ f = g => swarm_state'[f][g] = swarm_state[f][g]
              /\ f # d \/ g # m.from => swarm_state'[f][g] = swarm_state[f][g]
         /\ swarm_state'[d][m.from].stamp = m.stamp
         /\ swarm_state'[d][m.from].grid_ids = m.grid_ids
<1> DEFINE r == [swarm_state[d][m.from] EXCEPT !.grid_ids = m.grid_ids, !.stamp = m.stamp,
                                               !.attempt = m.attempt]
<1>1. /\ m.from \in Drones /\ m.from # d /\ m.stamp \in Times /\ m.stamp <= now
      /\ m.grid_ids \subseteq Grids /\ m.attempt \in Times /\ m.attempt <= now
  BY DEF NetOK, MessageOK, DroneStateMsgs, droneStateMsgCallback
<1>2. swarm_state \in SwarmStates /\ r \in DroneStates /\ r.stamp = m.stamp
      /\ r.attempt = m.attempt /\ r.interact = swarm_state[d][m.from].interact
      /\ r.grid_ids = m.grid_ids
  <2>1. swarm_state \in SwarmStates /\ swarm_state[d][m.from] \in DroneStates
    BY <1>1 DEF TypeOK, SwarmStates
  <2> QED BY <1>1, <2>1 DEF DroneStates
<1>3. swarm_state' = [swarm_state EXCEPT ![d] = [swarm_state[d] EXCEPT ![m.from] = r]]
  BY <1>1, <1>2 DEF droneStateMsgCallback, SwarmStates
<1> HIDE DEF r
<1>4. /\ swarm_state' \in SwarmStates
      /\ swarm_state'[d][m.from] = r
      /\ \A f, g \in Drones : f # d \/ g # m.from => swarm_state'[f][g] = swarm_state[f][g]
  BY <1>1, <1>2, <1>3, EntryUpdate, ZenonT(40)
<1>5. \A e, f \in Drones : swarm_state'[e][f].stamp <= now /\ swarm_state'[e][f].attempt <= now
  BY <1>1, <1>2, <1>4 DEF TypeOK
<1>6. NetOK'
  BY DEF droneStateMsgCallback, NetOK, MessageOK
<1>7. UNCHANGED <<now, state, initialized, relevant, pair_opt, req_stamp, res_stamp>>
  BY DEF droneStateMsgCallback
<1>8. TypeOK'
  BY <1>4, <1>5, <1>7 DEF TypeOK, SwarmStates
<1> QED BY <1>1, <1>2, <1>4, <1>6, <1>8

LEMMA OptTimerType ==
  ASSUME TypeOK, NetOK, NEW d \in Drones, optTimerCallback(d)
  PROVE  /\ TypeOK' /\ NetOK'
         /\ \A f, g \in Drones :
              /\ swarm_state'[f][g].grid_ids = swarm_state[f][g].grid_ids
              /\ swarm_state'[f][g].interact = swarm_state[f][g].interact
              /\ f # d \/ g # d => swarm_state'[f][g] = swarm_state[f][g]
         /\ swarm_state'[d][d].attempt = now
         /\ \A m \in net' \ net : m.type = "PairOpt" /\ m.from = d /\ m.stamp = now
         /\ pair_opt'[d].stamp = now
         /\ \A f \in Drones \ {d} : pair_opt'[f] = pair_opt[f]
<1> DEFINE r == [swarm_state[d][d] EXCEPT !.attempt = now]
<1>1. PICK e \in Drones, alloc \in [ego : SUBSET Grids, other : SUBSET Grids] :
        /\ d < e
        /\ net' = net \cup {[type |-> "PairOpt", from |-> d, to |-> e, stamp |-> now,
                             ego_ids |-> alloc.ego, other_ids |-> alloc.other]}
        /\ pair_opt' = [pair_opt EXCEPT ![d] =
             [ego_ids |-> alloc.ego, other_ids |-> alloc.other,
              stamp |-> now, wait_response |-> TRUE]]
  <2>1. PICK e \in Drones :
          /\ IsSelected(d, e)
          /\ \E alloc \in Allocations(Own(d) \cup swarm_state[d][e].grid_ids \cup Missed(d)) :
               /\ net' = net \cup {[type |-> "PairOpt", from |-> d, to |-> e, stamp |-> now,
                                    ego_ids |-> alloc.ego, other_ids |-> alloc.other]}
               /\ pair_opt' = [pair_opt EXCEPT ![d] =
                    [ego_ids |-> alloc.ego, other_ids |-> alloc.other,
                     stamp |-> now, wait_response |-> TRUE]]
    BY DEF optTimerCallback
  <2>2. e \in d + 1 .. N /\ d \in Int /\ N \in Int
    BY <2>1, ConstantType DEF IsSelected, Candidates, Drones
  <2>3. d < e
    BY <2>2
  <2>4. Own(d) \cup swarm_state[d][e].grid_ids \cup Missed(d) \in SUBSET Grids
    BY DEF Own, Missed, TypeOK, DroneStates
  <2>5. \A cells \in SUBSET Grids :
          Allocations(cells) \subseteq [ego : SUBSET Grids, other : SUBSET Grids]
    BY DEF Allocations
  <2> QED BY <2>1, <2>3, <2>4, <2>5
<1>2. alloc.ego \subseteq Grids /\ alloc.other \subseteq Grids
  OBVIOUS
<1>3. swarm_state \in SwarmStates /\ r \in DroneStates /\ r.stamp = swarm_state[d][d].stamp
      /\ r.attempt = now /\ r.interact = swarm_state[d][d].interact
      /\ r.grid_ids = swarm_state[d][d].grid_ids
  <2>1. swarm_state \in SwarmStates /\ swarm_state[d][d] \in DroneStates /\ now \in Times
    BY DEF TypeOK, SwarmStates
  <2> QED BY <2>1 DEF DroneStates
<1>4. [swarm_state[d] EXCEPT ![d] = r] \in [Drones -> DroneStates]
  BY <1>3 DEF SwarmStates
<1>5. swarm_state' = [swarm_state EXCEPT ![d] = [swarm_state[d] EXCEPT ![d] = r]]
  BY <1>3 DEF optTimerCallback, AttemptTime, SwarmStates
<1> HIDE DEF r
<1>6. /\ swarm_state' \in SwarmStates
      /\ swarm_state'[d][d] = r
      /\ \A f, g \in Drones : f # d \/ g # d => swarm_state'[f][g] = swarm_state[f][g]
  BY <1>3, <1>4, <1>5 DEF SwarmStates
<1>7. now <= now
  BY TimesType DEF TypeOK
<1>8. \A f, g \in Drones : swarm_state'[f][g].stamp <= now /\ swarm_state'[f][g].attempt <= now
  BY <1>3, <1>6, <1>7, ZenonT(40) DEF TypeOK
<1>9. /\ pair_opt' \in [Drones -> [ego_ids : SUBSET Grids, other_ids : SUBSET Grids,
                                   stamp : Times, wait_response : BOOLEAN]]
      /\ pair_opt'[d].stamp = now
      /\ \A f \in Drones \ {d} : pair_opt'[f] = pair_opt[f]
      /\ \A f \in Drones : pair_opt'[f].stamp <= now
  <2> DEFINE p == [ego_ids |-> alloc.ego, other_ids |-> alloc.other,
                   stamp |-> now, wait_response |-> TRUE]
  <2>1. p \in [ego_ids : SUBSET Grids, other_ids : SUBSET Grids,
               stamp : Times, wait_response : BOOLEAN] /\ p.stamp = now
    BY <1>2 DEF TypeOK
  <2>2. pair_opt' = [pair_opt EXCEPT ![d] = p]
    BY <1>1
  <2> HIDE DEF p
  <2> QED BY <1>7, <2>1, <2>2 DEF TypeOK
<1>10. NetOK'
  <2> SUFFICES ASSUME NEW m \in net', m \notin net PROVE MessageOK(m)'
    BY DEF NetOK, MessageOK, optTimerCallback
  <2>1. m = [type |-> "PairOpt", from |-> d, to |-> e, stamp |-> now,
             ego_ids |-> alloc.ego, other_ids |-> alloc.other]
    BY <1>1
  <2>2. d # e /\ now' = now
    BY <1>1 DEF Drones, optTimerCallback
  <2> QED BY <1>1, <1>2, <1>7, <2>1, <2>2 DEF MessageOK, TypeOK
<1>11. UNCHANGED <<now, state, initialized, relevant, req_stamp, res_stamp>>
  BY DEF optTimerCallback
<1>12. TypeOK'
  BY <1>6, <1>8, <1>9, <1>11 DEF TypeOK, SwarmStates
<1>13. \A m \in net' \ net : m.type = "PairOpt" /\ m.from = d /\ m.stamp = now
  BY <1>1
<1> QED BY <1>3, <1>6, <1>9, <1>10, <1>12, <1>13

\* What an accepted request makes of what drone d knows.
LEMMA AcceptEffect ==
  ASSUME TypeOK, NetOK, NEW d \in Drones, NEW m \in Requests, m.to = d, AcceptRequest(d, m)
  PROVE  /\ swarm_state' \in SwarmStates
         /\ swarm_state'[d][m.from].interact = m.stamp
         /\ swarm_state'[d][d].attempt = now
         /\ swarm_state'[d][d].grid_ids = m.other_ids
         /\ \A f, g \in Drones :
              /\ swarm_state'[f][g].stamp = swarm_state[f][g].stamp
              /\ f # d \/ g # d => swarm_state'[f][g].attempt = swarm_state[f][g].attempt
              /\ f # d \/ g # m.from => swarm_state'[f][g].interact = swarm_state[f][g].interact
              /\ f # d => swarm_state'[f][g] = swarm_state[f][g]
<1> DEFINE r == [swarm_state[d][m.from] EXCEPT !.grid_ids = m.ego_ids, !.interact = m.stamp]
           s == [swarm_state[d][d] EXCEPT !.grid_ids = m.other_ids, !.attempt = now]
           row == [swarm_state[d] EXCEPT ![m.from] = r, ![d] = s]
<1>1. /\ m.from \in Drones /\ m.from # d /\ m.stamp \in Times /\ now \in Times
      /\ m.ego_ids \subseteq Grids /\ m.other_ids \subseteq Grids
  BY DEF NetOK, MessageOK, Requests, TypeOK
<1>2. /\ swarm_state \in SwarmStates /\ swarm_state[d] \in [Drones -> DroneStates]
      /\ swarm_state[d][d] \in DroneStates /\ swarm_state[d][m.from] \in DroneStates
  BY <1>1 DEF TypeOK, SwarmStates
<1>3. /\ r \in DroneStates /\ r.interact = m.stamp
      /\ r.stamp = swarm_state[d][m.from].stamp /\ r.attempt = swarm_state[d][m.from].attempt
  BY <1>1, <1>2 DEF DroneStates
<1>4. /\ s \in DroneStates /\ s.attempt = now /\ s.grid_ids = m.other_ids
      /\ s.stamp = swarm_state[d][d].stamp /\ s.interact = swarm_state[d][d].interact
  BY <1>1, <1>2 DEF DroneStates
<1>5. swarm_state' = [swarm_state EXCEPT ![d] = row]
  <2>1. swarm_state' = [swarm_state EXCEPT
                          ![d][m.from].grid_ids = m.ego_ids, ![d][m.from].interact = m.stamp,
                          ![d][d].grid_ids = m.other_ids, ![d][d].attempt = now]
    BY DEF AcceptRequest, AttemptTime
  <2>2. m.from \in Drones /\ m.from # d /\ swarm_state \in SwarmStates
    BY <1>1, <1>2
  <2>3. swarm_state' = [swarm_state EXCEPT ![d] = [swarm_state[d] EXCEPT
               ![m.from] = [swarm_state[d][m.from] EXCEPT !.grid_ids = m.ego_ids,
                                                          !.interact = m.stamp],
               ![d] = [swarm_state[d][d] EXCEPT !.grid_ids = m.other_ids, !.attempt = now]]]
    BY ONLY <2>1, <2>2, d \in Drones, ZenonT(40) DEF SwarmStates
  <2> QED BY <2>3
<1> HIDE DEF r, s
<1>6. /\ row \in [Drones -> DroneStates]
      /\ row[m.from] = r /\ row[d] = s
      /\ \A g \in Drones : g # d /\ g # m.from => row[g] = swarm_state[d][g]
  BY <1>1, <1>2, <1>3, <1>4
<1> HIDE DEF row
<1>7. /\ swarm_state' \in SwarmStates
      /\ swarm_state'[d] = row
      /\ \A f \in Drones : f # d => swarm_state'[f] = swarm_state[f]
  BY <1>2, <1>5, <1>6 DEF SwarmStates
<1> QED BY <1>1, <1>3, <1>4, <1>6, <1>7

\* What a response that confirms the exchange makes of what drone d knows.
LEMMA ApplyEffect ==
  ASSUME TypeOK, NetOK, NEW d \in Drones, NEW m \in Responses, m.to = d, ApplyResponse(d, m)
  PROVE  /\ swarm_state' \in SwarmStates
         /\ swarm_state'[d][d].grid_ids = pair_opt[d].ego_ids
         /\ swarm_state'[d][m.from].grid_ids = pair_opt[d].other_ids
         /\ swarm_state'[d][m.from].interact = now
         /\ \A f, g \in Drones :
              /\ swarm_state'[f][g].stamp = swarm_state[f][g].stamp
              /\ swarm_state'[f][g].attempt = swarm_state[f][g].attempt
              /\ f # d \/ g # m.from => swarm_state'[f][g].interact = swarm_state[f][g].interact
              /\ f # d => swarm_state'[f][g] = swarm_state[f][g]
<1> DEFINE r == [swarm_state[d][m.from] EXCEPT !.grid_ids = pair_opt[d].other_ids, !.interact = now]
           s == [swarm_state[d][d] EXCEPT !.grid_ids = pair_opt[d].ego_ids]
           row == [swarm_state[d] EXCEPT ![d] = s, ![m.from] = r]
<1>1. /\ m.from \in Drones /\ m.from # d /\ now \in Times
      /\ pair_opt[d].ego_ids \subseteq Grids /\ pair_opt[d].other_ids \subseteq Grids
  BY DEF NetOK, MessageOK, Responses, TypeOK
<1>2. /\ swarm_state \in SwarmStates /\ swarm_state[d] \in [Drones -> DroneStates]
      /\ swarm_state[d][d] \in DroneStates /\ swarm_state[d][m.from] \in DroneStates
  BY <1>1 DEF TypeOK, SwarmStates
<1>3. /\ r \in DroneStates /\ r.grid_ids = pair_opt[d].other_ids /\ r.interact = now
      /\ r.stamp = swarm_state[d][m.from].stamp /\ r.attempt = swarm_state[d][m.from].attempt
  BY <1>1, <1>2 DEF DroneStates
<1>4. /\ s \in DroneStates /\ s.attempt = swarm_state[d][d].attempt
      /\ s.grid_ids = pair_opt[d].ego_ids
      /\ s.stamp = swarm_state[d][d].stamp /\ s.interact = swarm_state[d][d].interact
  BY <1>1, <1>2 DEF DroneStates
<1>5. swarm_state' = [swarm_state EXCEPT ![d] = row]
  <2>1. swarm_state' = [swarm_state EXCEPT
                          ![d][d].grid_ids = pair_opt[d].ego_ids,
                          ![d][m.from].grid_ids = pair_opt[d].other_ids,
                          ![d][m.from].interact = now]
    BY DEF ApplyResponse
  <2>2. m.from \in Drones /\ m.from # d /\ swarm_state \in SwarmStates
    BY <1>1, <1>2
  <2> QED BY <2>1, <2>2, ZenonT(40) DEF SwarmStates
<1> HIDE DEF r, s
<1>6. /\ row \in [Drones -> DroneStates]
      /\ row[m.from] = r /\ row[d] = s
      /\ \A g \in Drones : g # d /\ g # m.from => row[g] = swarm_state[d][g]
  BY <1>1, <1>2, <1>3, <1>4
<1> HIDE DEF row
<1>7. /\ swarm_state' \in SwarmStates
      /\ swarm_state'[d] = row
      /\ \A f \in Drones : f # d => swarm_state'[f] = swarm_state[f]
  BY <1>2, <1>5, <1>6 DEF SwarmStates
<1> QED BY <1>1, <1>3, <1>4, <1>6, <1>7

LEMMA RequestType ==
  ASSUME TypeOK, NetOK, NEW d \in Drones, NEW m \in Requests, optMsgCallback(d, m)
  PROVE  TypeOK' /\ NetOK'
<1>1. /\ m \in net /\ m.from \in Drones /\ m.to = d /\ m.from < m.to /\ m.from # d
      /\ m.stamp \in Times /\ m.stamp <= now /\ m.other_ids \subseteq Grids
  BY DEF NetOK, MessageOK, Requests, optMsgCallback
<1>2. /\ req_stamp' \in [Drones -> [Drones -> Times]]
      /\ \A f, g \in Drones : req_stamp'[f][g] <= now
  <2>1. req_stamp' = [req_stamp EXCEPT ![d] = [req_stamp[d] EXCEPT ![m.from] = m.stamp]]
    BY <1>1 DEF optMsgCallback, TypeOK
  <2>2. [req_stamp[d] EXCEPT ![m.from] = m.stamp] \in [Drones -> Times]
    BY <1>1 DEF TypeOK
  <2>3. req_stamp' \in [Drones -> [Drones -> Times]]
    BY <2>1, <2>2 DEF TypeOK
  <2> QED BY <1>1, <2>1, <2>2, <2>3 DEF TypeOK
<1>3. UNCHANGED <<now, initialized, relevant, pair_opt, res_stamp>>
  BY DEF optMsgCallback
<1>4. /\ swarm_state' \in SwarmStates /\ state' \in [Drones -> States]
      /\ \A f, g \in Drones : swarm_state'[f][g].stamp <= now /\ swarm_state'[f][g].attempt <= now
  <2>1. CASE RejectRequest(d, m)
    BY <2>1 DEF RejectRequest, TypeOK, SwarmStates
  <2>2. CASE AcceptRequest(d, m)
    <3>1. /\ swarm_state' \in SwarmStates /\ swarm_state'[d][d].attempt = now
          /\ \A f, g \in Drones :
               /\ swarm_state'[f][g].stamp = swarm_state[f][g].stamp
               /\ f # d \/ g # d => swarm_state'[f][g].attempt = swarm_state[f][g].attempt
      BY <1>1, <2>2, AcceptEffect
    <3>2. state' = state \/ state' = [state EXCEPT ![d] = "EXPLORE"]
      BY <2>2 DEF AcceptRequest, Woken
    <3>3. state' \in [Drones -> States]
      BY <3>2, StateType DEF States, TypeOK
    <3>4. now <= now
      BY TimesType DEF TypeOK
    <3>5. \A f, g \in Drones : swarm_state[f][g].stamp <= now /\ swarm_state[f][g].attempt <= now
      BY DEF TypeOK
    <3>6. \A f, g \in Drones : swarm_state'[f][g].stamp <= now /\ swarm_state'[f][g].attempt <= now
      BY <3>1, <3>4, <3>5
    <3> QED BY <3>1, <3>3, <3>6
  <2> QED BY <2>1, <2>2 DEF optMsgCallback
<1>5. NetOK'
  <2> SUFFICES ASSUME NEW n \in net', n \notin net PROVE MessageOK(n)'
    BY <1>3 DEF NetOK, MessageOK
  <2>1. PICK status \in {1, 2} : n = Response(m, status)
    BY DEF optMsgCallback, RejectRequest, AcceptRequest, Received
  <2> QED BY <1>1, <1>3, <2>1 DEF MessageOK, Response
<1> QED BY <1>2, <1>3, <1>4, <1>5 DEF TypeOK, SwarmStates

LEMMA ResponseType ==
  ASSUME TypeOK, NetOK, NEW d \in Drones, NEW m \in Responses, optResMsgCallback(d, m)
  PROVE  /\ TypeOK' /\ NetOK'
         /\ net' \subseteq net
         /\ \A f \in Drones : pair_opt'[f].stamp = pair_opt[f].stamp
<1>1. /\ m \in net /\ m.from \in Drones /\ m.to = d /\ m.stamp \in Times /\ m.stamp <= now
  BY DEF NetOK, MessageOK, Responses, optResMsgCallback
<1>2. res_stamp' \in [Drones -> [Drones -> Times]]
  <2>1. res_stamp' = [res_stamp EXCEPT ![d] = [res_stamp[d] EXCEPT ![m.from] = m.stamp]]
    BY <1>1 DEF optResMsgCallback, TypeOK
  <2>2. [res_stamp[d] EXCEPT ![m.from] = m.stamp] \in [Drones -> Times]
    BY <1>1 DEF TypeOK
  <2> QED BY <2>1, <2>2 DEF TypeOK
<1>3. UNCHANGED <<now, initialized, relevant, req_stamp>>
  BY DEF optResMsgCallback
<1>4. /\ pair_opt' \in [Drones -> [ego_ids : SUBSET Grids, other_ids : SUBSET Grids,
                                   stamp : Times, wait_response : BOOLEAN]]
      /\ \A f \in Drones : pair_opt'[f].stamp = pair_opt[f].stamp
  <2>1. CASE pair_opt' = pair_opt
    BY <2>1 DEF TypeOK
  <2>2. CASE pair_opt' = [pair_opt EXCEPT ![d].wait_response = FALSE]
    <3> DEFINE p == [pair_opt[d] EXCEPT !.wait_response = FALSE]
    <3>1. pair_opt[d] \in [ego_ids : SUBSET Grids, other_ids : SUBSET Grids,
                           stamp : Times, wait_response : BOOLEAN]
      BY DEF TypeOK
    <3>2. p \in [ego_ids : SUBSET Grids, other_ids : SUBSET Grids,
                 stamp : Times, wait_response : BOOLEAN] /\ p.stamp = pair_opt[d].stamp
      BY <3>1
    <3>3. pair_opt' = [pair_opt EXCEPT ![d] = p]
      BY <2>2
    <3> HIDE DEF p
    <3> QED BY <3>2, <3>3 DEF TypeOK
  <2> QED BY <2>1, <2>2 DEF optResMsgCallback
<1>5. /\ swarm_state' \in SwarmStates /\ state' \in [Drones -> States]
      /\ \A f, g \in Drones : swarm_state'[f][g].stamp <= now /\ swarm_state'[f][g].attempt <= now
  <2>1. CASE UNCHANGED <<swarm_state, state>>
    BY <2>1 DEF TypeOK, SwarmStates
  <2>2. CASE ApplyResponse(d, m)
    <3>1. /\ swarm_state' \in SwarmStates
          /\ \A f, g \in Drones :
               /\ swarm_state'[f][g].stamp = swarm_state[f][g].stamp
               /\ swarm_state'[f][g].attempt = swarm_state[f][g].attempt
      BY <1>1, <2>2, ApplyEffect
    <3>2. state' = state \/ state' = [state EXCEPT ![d] = "EXPLORE"]
      BY <2>2 DEF ApplyResponse, Woken
    <3>3. state' \in [Drones -> States]
      BY <3>2, StateType DEF States, TypeOK
    <3> QED BY <3>1, <3>3 DEF TypeOK
  <2> QED BY <2>1, <2>2 DEF optResMsgCallback
<1>6. net' \subseteq net
  BY DEF optResMsgCallback, Received
<1>7. NetOK'
  BY <1>3, <1>6 DEF NetOK, MessageOK
<1> QED BY <1>2, <1>3, <1>4, <1>5, <1>6, <1>7 DEF TypeOK, SwarmStates

LEMMA TickType ==
  ASSUME TypeOK, NetOK, Tick
  PROVE  TypeOK' /\ NetOK'
<1>1. now' \in Times /\ now' >= now
  BY ConstantType, TimesType DEF Tick, TypeOK, Times
<1>2. net' \subseteq net
  BY DEF Tick
<1>3. UNCHANGED <<state, initialized, relevant, swarm_state, pair_opt, req_stamp, res_stamp>>
  BY DEF Tick
<1> QED BY <1>1, <1>2, <1>3, LaterType

LEMMA StepType == TypeInv /\ [Next]_vars => TypeInv'
<1> SUFFICES ASSUME TypeOK, NetOK, [Next]_vars PROVE TypeOK' /\ NetOK'
  BY DEF TypeInv
<1>1. ASSUME NEW d \in Drones,
             OdometryReady(d) \/ triggerCallback(d) \/ TriggeredTooLate(d)
               \/ NoFrontier(d) \/ GoBack(d)
      PROVE  TypeOK' /\ NetOK'
  BY <1>1, TransitionType
     DEF OdometryReady, triggerCallback, TriggeredTooLate, NoFrontier, GoBack, States
<1>2. ASSUME NEW d \in Drones, NEW seen \in SUBSET Grids, PlanGridTour(d, seen)
      PROVE  TypeOK' /\ NetOK'
  BY <1>2, PlanType
<1>3. ASSUME NEW d \in Drones, droneStateTimerCallback(d) PROVE TypeOK' /\ NetOK'
  BY <1>3, StateTimerType
<1>4. ASSUME NEW d \in Drones, optTimerCallback(d) PROVE TypeOK' /\ NetOK'
  BY <1>4, OptTimerType
<1>5. ASSUME NEW d \in Drones, NEW m \in DroneStateMsgs, droneStateMsgCallback(d, m)
      PROVE  TypeOK' /\ NetOK'
  BY <1>5, StateMsgType
<1>6. ASSUME NEW d \in Drones, NEW m \in Requests, optMsgCallback(d, m)
      PROVE  TypeOK' /\ NetOK'
  BY <1>6, RequestType
<1>7. ASSUME NEW d \in Drones, NEW m \in Responses, optResMsgCallback(d, m)
      PROVE  TypeOK' /\ NetOK'
  BY <1>7, ResponseType
<1>8. CASE Tick
  BY <1>8, TickType
<1>9. CASE UNCHANGED vars
  BY <1>9 DEF vars, TypeOK, NetOK, MessageOK
<1> QED BY <1>1, <1>2, <1>3, <1>4, <1>5, <1>6, <1>7, <1>8, <1>9 DEF Next

\* Every variable and every message keeps its type: cells of the grid, times that
\* have been, known answers.
THEOREM PairOptTypeCorrect == Spec => []TypeOK
<1>1. TypeInv => TypeOK
  BY DEF TypeInv
<1> QED BY <1>1, InitType, StepType, PTL DEF Spec
-----------------------------------------------------------------------------
(* The answers to a request.                                               *)

\* Stamps tell the requests of a drone apart: the newest is the one it waits for,
\* it is sent after every earlier attempt, and what its partner has handled is
\* not newer.  An acceptance of the pending request tells what the partner did.
ExchangeInv ==
  /\ \A m \in Requests : m.stamp <= pair_opt[m.from].stamp
  /\ \A d \in Drones : pair_opt[d].stamp <= swarm_state[d][d].attempt
  /\ \A d, e \in Drones : req_stamp[e][d] <= pair_opt[d].stamp
  /\ \A r \in Responses : r.stamp <= req_stamp[r.from][r.to]
  /\ \A r \in Responses : r.status = 1 /\ r.stamp = pair_opt[r.to].stamp =>
       swarm_state[r.from][r.to].interact = r.stamp
  /\ OneAnswer

LEMMA InitExchange == Init => ExchangeInv
BY DEF Init, ExchangeInv, Requests, Responses, OneAnswer

\* A step that sends no request and no answer, and changes what a drone knows of
\* its interactions only with drones of higher id.
LEMMA QuietStep ==
  ASSUME TypeInv, ExchangeInv, req_stamp' = req_stamp,
         \A m \in net' : m.type # "DroneState" => m \in net,
         \A d \in Drones : pair_opt'[d].stamp = pair_opt[d].stamp,
         \A d \in Drones : swarm_state'[d][d].attempt = swarm_state[d][d].attempt,
         \A d, e \in Drones : e < d => swarm_state'[d][e].interact = swarm_state[d][e].interact
  PROVE  ExchangeInv'
<1>1. Requests' \subseteq Requests /\ Responses' \subseteq Responses
  BY DEF Requests, Responses
<1>2. \A m \in Requests : m.from \in Drones
  BY DEF TypeInv, NetOK, MessageOK, Requests
<1>3. \A r \in Responses : r.from \in Drones /\ r.to \in Drones /\ r.to < r.from
  BY DEF TypeInv, NetOK, MessageOK, Responses
<1>4. OneAnswer'
  BY <1>1 DEF ExchangeInv, OneAnswer
<1>5. \A r \in Responses' : r.status = 1 /\ r.stamp = pair_opt'[r.to].stamp =>
        swarm_state'[r.from][r.to].interact = r.stamp
  BY <1>1, <1>3 DEF ExchangeInv
<1> QED BY <1>1, <1>2, <1>3, <1>4, <1>5 DEF ExchangeInv

LEMMA OptTimerExchange ==
  ASSUME TypeInv, ExchangeInv, NEW d \in Drones, optTimerCallback(d)
  PROVE  ExchangeInv'
<1>1. /\ \A f, g \in Drones :
           /\ swarm_state'[f][g].interact = swarm_state[f][g].interact
           /\ f # d => swarm_state'[f][g] = swarm_state[f][g]
      /\ swarm_state'[d][d].attempt = now
      /\ \A m \in net' \ net : m.type = "PairOpt" /\ m.from = d /\ m.stamp = now
      /\ pair_opt'[d].stamp = now
      /\ \A f \in Drones \ {d} : pair_opt'[f] = pair_opt[f]
  BY OptTimerType DEF TypeInv
<1>2. req_stamp' = req_stamp /\ AttemptInterval \in Nat \ {0} /\ now \in Nat
      /\ swarm_state[d][d].attempt \in Nat /\ now - swarm_state[d][d].attempt >= AttemptInterval
  BY ConstantType, TimesType DEF optTimerCallback, MayAttempt, TypeInv, TypeOK, DroneStates
<1>3. \A f \in Drones : pair_opt[f].stamp \in Nat /\ swarm_state[f][f].attempt \in Nat
  BY TimesType DEF TypeInv, TypeOK, DroneStates
<1>4. pair_opt[d].stamp < now
  BY <1>2, <1>3 DEF ExchangeInv
<1>5. Responses' \subseteq Responses
  BY <1>1 DEF Responses
<1>6. \A r \in Responses : /\ r.from \in Drones /\ r.to \in Drones /\ r.stamp \in Nat
                           /\ r.stamp <= pair_opt[r.to].stamp
  <2> TAKE r \in Responses
  <2>1. r.from \in Drones /\ r.to \in Drones /\ r.stamp \in Nat
    BY TimesType DEF TypeInv, NetOK, MessageOK, Responses
  <2>2. req_stamp[r.from][r.to] \in Nat /\ pair_opt[r.to].stamp \in Nat
    BY <2>1, <1>3, TimesType DEF TypeInv, TypeOK
  <2> QED BY <2>1, <2>2 DEF ExchangeInv
<1>7. \A m \in Requests' : m.stamp <= pair_opt'[m.from].stamp
  <2> TAKE m \in Requests'
  <2>1. m.stamp \in Nat /\ m.from \in Drones
    <3>1. m \in net \/ (m.from = d /\ m.stamp = now)
      BY <1>1 DEF Requests
    <3> QED BY <3>1, <1>2, TimesType DEF TypeInv, NetOK, MessageOK
  <2>2. CASE m \in net
    <3>1. m \in Requests
      BY <2>2 DEF Requests
    <3> QED BY <1>1, <1>3, <1>4, <2>1, <3>1, <1>2 DEF ExchangeInv
  <2>3. CASE m \notin net
    BY <1>1, <1>2, <2>3 DEF Requests
  <2> QED BY <2>2, <2>3
<1>8. \A f \in Drones : pair_opt'[f].stamp <= swarm_state'[f][f].attempt
  BY <1>1, <1>2 DEF ExchangeInv
<1>9. \A f, e \in Drones : req_stamp'[e][f] <= pair_opt'[f].stamp
  <2> TAKE f, e \in Drones
  <2>1. req_stamp[e][f] \in Nat /\ req_stamp[e][f] <= now
    BY TimesType DEF TypeInv, TypeOK
  <2> QED BY <1>1, <1>2, <2>1 DEF ExchangeInv
<1>10. \A r \in Responses' : r.stamp <= req_stamp'[r.from][r.to]
  BY <1>2, <1>5 DEF ExchangeInv
<1>11. \A r \in Responses' : r.status = 1 /\ r.stamp = pair_opt'[r.to].stamp =>
         swarm_state'[r.from][r.to].interact = r.stamp
  BY <1>1, <1>3, <1>4, <1>5, <1>6, <1>2 DEF ExchangeInv
<1>12. OneAnswer'
  BY <1>5 DEF ExchangeInv, OneAnswer
<1> QED BY <1>7, <1>8, <1>9, <1>10, <1>11, <1>12 DEF ExchangeInv

\* A request is answered with status.
LEMMA AnswerExchange ==
  ASSUME TypeInv, ExchangeInv, NEW d \in Drones, NEW m \in Requests, optMsgCallback(d, m),
         NEW status \in {1, 2}, net' \subseteq net \cup {Response(m, status)},
         (RejectRequest(d, m) /\ status = 2) \/ (AcceptRequest(d, m) /\ status = 1)
  PROVE  ExchangeInv'
<1>1. /\ m \in net /\ m.from \in Drones /\ m.to = d /\ m.from # d /\ m.stamp \in Nat
      /\ m.stamp <= now /\ now \in Nat
  BY TimesType DEF TypeInv, TypeOK, NetOK, MessageOK, Requests, optMsgCallback
<1>2. /\ req_stamp'[d][m.from] = m.stamp
      /\ \A f, g \in Drones : f # d \/ g # m.from => req_stamp'[f][g] = req_stamp[f][g]
      /\ req_stamp[d][m.from] < m.stamp
  BY <1>1 DEF optMsgCallback, NewRequest, TypeInv, TypeOK
<1>3. pair_opt' = pair_opt
  BY DEF optMsgCallback
<1>4. \A f, g \in Drones :
        /\ req_stamp[f][g] \in Nat /\ pair_opt[f].stamp \in Nat
        /\ swarm_state[f][g].attempt \in Nat /\ swarm_state[f][g].attempt <= now
  BY TimesType DEF TypeInv, TypeOK, DroneStates
<1>5. \A r \in Responses : r.from \in Drones /\ r.to \in Drones /\ r.stamp \in Nat
  BY TimesType DEF TypeInv, NetOK, MessageOK, Responses
<1> DEFINE a == Response(m, status)
<1>7. /\ a.from = d /\ a.to = m.from /\ a.stamp = m.stamp /\ a.status = status
      /\ a.type = "PairOptResponse"
  BY <1>1 DEF Response
<1> HIDE DEF a
<1>8. Requests' \subseteq Requests
  BY <1>7 DEF Requests, a
<1>9. Responses' \subseteq Responses \cup {a}
  BY DEF Responses, a
<1>10. \A r \in Responses : r.from = d /\ r.to = m.from => r.stamp < m.stamp
  BY <1>1, <1>2, <1>4, <1>5 DEF ExchangeInv
<1>11. m.stamp <= pair_opt[m.from].stamp
  BY DEF ExchangeInv
<1>12. /\ \A f \in Drones : swarm_state[f][f].attempt <= swarm_state'[f][f].attempt
                             /\ swarm_state'[f][f].attempt \in Nat
       /\ \A f, g \in Drones : f # d \/ g # m.from =>
            swarm_state'[f][g].interact = swarm_state[f][g].interact
       /\ status = 1 => swarm_state'[d][m.from].interact = m.stamp
  <2>1. CASE RejectRequest(d, m) /\ status = 2
    BY <1>4, <2>1 DEF RejectRequest
  <2>2. CASE AcceptRequest(d, m)
    BY <1>1, <1>4, <2>2, AcceptEffect DEF TypeInv
  <2> QED BY <2>1, <2>2
<1>13. \A f \in Drones : pair_opt'[f].stamp <= swarm_state'[f][f].attempt
  BY <1>3, <1>4, <1>12 DEF ExchangeInv
<1>14. \A f, e \in Drones : req_stamp'[e][f] <= pair_opt'[f].stamp
  BY <1>2, <1>3, <1>11 DEF ExchangeInv
<1>15. \A r \in Responses' : r.stamp <= req_stamp'[r.from][r.to]
  <2> TAKE r \in Responses'
  <2>1. CASE r = a
    BY <1>1, <1>2, <1>7, <2>1
  <2>2. CASE r \in Responses
    BY <1>1, <1>2, <1>5, <1>10, <2>2 DEF ExchangeInv
  <2> QED BY <1>9, <2>1, <2>2
<1>16. \A r \in Responses' : r.status = 1 /\ r.stamp = pair_opt'[r.to].stamp =>
         swarm_state'[r.from][r.to].interact = r.stamp
  <2> TAKE r \in Responses'
  <2>1. CASE r = a
    BY <1>7, <1>12, <2>1
  <2>2. CASE r \in Responses
    BY <1>1, <1>3, <1>4, <1>5, <1>10, <1>11, <1>12, <2>2 DEF ExchangeInv
  <2> QED BY <1>9, <2>1, <2>2
<1>17. OneAnswer'
  <2> SUFFICES ASSUME NEW r \in Responses', NEW q \in Responses',
                      r.from = q.from, r.to = q.to, r.stamp = q.stamp
               PROVE  r.status = q.status
    BY DEF OneAnswer
  <2>1. CASE r \in Responses /\ q \in Responses
    BY <2>1 DEF ExchangeInv, OneAnswer
  <2>2. CASE r = a /\ q \in Responses
    BY <1>1, <1>5, <1>7, <1>10, <2>2
  <2>3. CASE r \in Responses /\ q = a
    BY <1>1, <1>5, <1>7, <1>10, <2>3
  <2>4. CASE r = a /\ q = a
    BY <2>4
  <2> QED BY <1>9, <2>1, <2>2, <2>3, <2>4
<1> QED BY <1>3, <1>8, <1>13, <1>14, <1>15, <1>16, <1>17 DEF ExchangeInv

LEMMA RequestExchange ==
  ASSUME TypeInv, ExchangeInv, NEW d \in Drones, NEW m \in Requests, optMsgCallback(d, m)
  PROVE  ExchangeInv'
<1>1. CASE RejectRequest(d, m)
  <2>1. net' \subseteq net \cup {Response(m, 2)}
    BY <1>1 DEF RejectRequest, Received
  <2> QED BY <1>1, <2>1, AnswerExchange
<1>2. CASE AcceptRequest(d, m)
  <2>1. net' \subseteq net \cup {Response(m, 1)}
    BY <1>2 DEF AcceptRequest, Received
  <2> QED BY <1>2, <2>1, AnswerExchange
<1> QED BY <1>1, <1>2 DEF optMsgCallback

LEMMA StepExchange == TypeInv /\ ExchangeInv /\ [Next]_vars => ExchangeInv'
<1> SUFFICES ASSUME TypeInv, ExchangeInv, [Next]_vars PROVE ExchangeInv'
  OBVIOUS
<1> USE DEF TypeInv
<1>1. ASSUME NEW d \in Drones,
             OdometryReady(d) \/ triggerCallback(d) \/ TriggeredTooLate(d)
               \/ NoFrontier(d) \/ GoBack(d)
      PROVE  ExchangeInv'
  <2>1. UNCHANGED <<swarm_state, pair_opt, req_stamp, net>>
    BY <1>1 DEF OdometryReady, triggerCallback, TriggeredTooLate, NoFrontier, GoBack, Transition
  <2> QED BY <2>1, QuietStep
<1>2. ASSUME NEW d \in Drones, NEW seen \in SUBSET Grids, PlanGridTour(d, seen)
      PROVE  ExchangeInv'
  <2>1. UNCHANGED <<pair_opt, req_stamp, net>>
    BY <1>2 DEF PlanGridTour
  <2> QED BY <1>2, <2>1, PlanType, QuietStep
<1>3. ASSUME NEW d \in Drones, droneStateTimerCallback(d) PROVE ExchangeInv'
  <2>1. UNCHANGED <<pair_opt, req_stamp>>
    BY <1>3 DEF droneStateTimerCallback
  <2> QED BY <1>3, <2>1, StateTimerType, QuietStep
<1>4. ASSUME NEW d \in Drones, optTimerCallback(d) PROVE ExchangeInv'
  BY <1>4, OptTimerExchange
<1>5. ASSUME NEW d \in Drones, NEW m \in DroneStateMsgs, droneStateMsgCallback(d, m)
      PROVE  ExchangeInv'
  <2>1. UNCHANGED <<pair_opt, req_stamp>> /\ net' \subseteq net
    BY <1>5 DEF droneStateMsgCallback
  <2> QED BY <1>5, <2>1, StateMsgType, QuietStep
<1>6. ASSUME NEW d \in Drones, NEW m \in Requests, optMsgCallback(d, m) PROVE ExchangeInv'
  BY <1>6, RequestExchange
<1>7. ASSUME NEW d \in Drones, NEW m \in Responses, optResMsgCallback(d, m) PROVE ExchangeInv'
  <2>1. /\ req_stamp' = req_stamp /\ net' \subseteq net
        /\ \A f \in Drones : pair_opt'[f].stamp = pair_opt[f].stamp
    BY <1>7, ResponseType DEF optResMsgCallback
  <2>2. m.to = d /\ d < m.from /\ m.from \in Drones
    BY <1>7 DEF NetOK, MessageOK, Responses, optResMsgCallback
  <2>3. /\ \A f \in Drones : swarm_state'[f][f].attempt = swarm_state[f][f].attempt
        /\ \A f, g \in Drones : g < f => swarm_state'[f][g].interact = swarm_state[f][g].interact
    <3>1. CASE UNCHANGED <<swarm_state, state>>
      BY <3>1
    <3>2. CASE ApplyResponse(d, m)
      <4>1. \A f, g \in Drones :
              /\ swarm_state'[f][g].attempt = swarm_state[f][g].attempt
              /\ f # d \/ g # m.from => swarm_state'[f][g].interact = swarm_state[f][g].interact
        BY <2>2, <3>2, ApplyEffect
      <4>2. \A f, g \in Drones : g < f => f # d \/ g # m.from
        BY <2>2 DEF Drones
      <4> QED BY <4>1, <4>2
    <3> QED BY <1>7, <3>1, <3>2 DEF optResMsgCallback
  <2> QED BY <2>1, <2>3, QuietStep
<1>8. CASE Tick
  <2>1. UNCHANGED <<swarm_state, pair_opt, req_stamp>> /\ net' \subseteq net
    BY <1>8 DEF Tick
  <2> QED BY <2>1, QuietStep
<1>9. CASE UNCHANGED vars
  BY <1>9, QuietStep DEF vars
<1> QED BY <1>1, <1>2, <1>3, <1>4, <1>5, <1>6, <1>7, <1>8, <1>9 DEF Next

\* However often a request is repeated, overtaken or answered, its answers agree.
THEOREM OneAnswerCorrect == Spec => []OneAnswer
<1>1. ExchangeInv => OneAnswer
  BY DEF ExchangeInv
<1> QED BY <1>1, InitType, StepType, InitExchange, StepExchange, PTL DEF Spec

\* The only steps that change when a drone last interacted with another are the
\* acceptance of a request and the application of an accepted one.
LEMMA InteractStep ==
  TypeInv /\ ExchangeInv /\ [Next]_vars =>
    \A d, e \in Drones :
      swarm_state[d][e].interact # swarm_state'[d][e].interact =>
        \/ swarm_state[e][d].interact = pair_opt[d].stamp
        \/ \E m \in Requests : m.from = e /\ m.to = d /\ m.stamp = swarm_state'[d][e].interact
<1> SUFFICES ASSUME TypeInv, ExchangeInv, [Next]_vars, NEW d \in Drones, NEW e \in Drones,
                    swarm_state[d][e].interact # swarm_state'[d][e].interact
             PROVE  \/ swarm_state[e][d].interact = pair_opt[d].stamp
                    \/ \E m \in Requests : /\ m.from = e /\ m.to = d
                                           /\ m.stamp = swarm_state'[d][e].interact
  OBVIOUS
<1> USE DEF TypeInv
<1>1. ASSUME NEW f \in Drones,
             OdometryReady(f) \/ triggerCallback(f) \/ TriggeredTooLate(f)
               \/ NoFrontier(f) \/ GoBack(f)
      PROVE  FALSE
  BY <1>1 DEF OdometryReady, triggerCallback, TriggeredTooLate, NoFrontier, GoBack, Transition
<1>2. ASSUME NEW f \in Drones, NEW seen \in SUBSET Grids, PlanGridTour(f, seen) PROVE FALSE
  BY <1>2, PlanType
<1>3. ASSUME NEW f \in Drones, droneStateTimerCallback(f) PROVE FALSE
  BY <1>3, StateTimerType
<1>4. ASSUME NEW f \in Drones, optTimerCallback(f) PROVE FALSE
  BY <1>4, OptTimerType
<1>5. ASSUME NEW f \in Drones, NEW m \in DroneStateMsgs, droneStateMsgCallback(f, m)
      PROVE  FALSE
  BY <1>5, StateMsgType
<1>6. ASSUME NEW f \in Drones, NEW m \in Requests, optMsgCallback(f, m)
      PROVE  m.from = e /\ m.to = d /\ m.stamp = swarm_state'[d][e].interact
  <2>1. m.to = f /\ AcceptRequest(f, m)
    BY <1>6 DEF optMsgCallback, RejectRequest
  <2>2. f = d /\ m.from = e
    BY <2>1, AcceptEffect
  <2> QED BY <2>1, <2>2, AcceptEffect
<1>7. ASSUME NEW f \in Drones, NEW m \in Responses, optResMsgCallback(f, m)
      PROVE  swarm_state[e][d].interact = pair_opt[d].stamp
  <2>1. m.to = f /\ ApplyResponse(f, m) /\ Agreed(m) /\ AnswersPending(f, m)
    BY <1>7 DEF optResMsgCallback
  <2>2. f = d /\ m.from = e
    BY <2>1, ApplyEffect
  <2> QED BY <2>1, <2>2 DEF ExchangeInv, Agreed, AnswersPending
<1>8. CASE Tick
  BY <1>8 DEF Tick
<1>9. CASE UNCHANGED vars
  BY <1>9 DEF vars
<1> QED BY <1>1, <1>2, <1>3, <1>4, <1>5, <1>6, <1>7, <1>8, <1>9 DEF Next

\* A drone applies a reserved allocation only after the drone it was sent to has
\* taken its part of it, whatever is lost, repeated or late.
THEOREM AppliedByBothCorrect == Spec => AppliedByBoth
<1>1. TypeInv /\ ExchangeInv /\ [Next]_vars =>
        [\A d, e \in Drones :
           swarm_state[d][e].interact # swarm_state'[d][e].interact =>
             \/ swarm_state[e][d].interact = pair_opt[d].stamp
             \/ \E m \in Requests : m.from = e /\ m.to = d /\ m.stamp = swarm_state'[d][e].interact
        ]_vars
  BY InteractStep
<1> QED BY <1>1, InitType, StepType, InitExchange, StepExchange, PTL DEF Spec, AppliedByBoth
-----------------------------------------------------------------------------
(* Idle drones.                                                            *)

LEMMA StepIdle ==
  ASSUME TypeInv, IdleOwnsNothing, [Next]_vars, ~FrontiersEnd, ~SolverMayFail
  PROVE  IdleOwnsNothing'
<1> USE DEF TypeInv
<1>1. ASSUME NEW d \in Drones,
             OdometryReady(d) \/ triggerCallback(d) \/ TriggeredTooLate(d)
               \/ NoFrontier(d) \/ GoBack(d)
      PROVE  IdleOwnsNothing'
  BY <1>1 DEF OdometryReady, triggerCallback, TriggeredTooLate, NoFrontier, GoBack, Transition,
              IdleOwnsNothing, Own, TypeOK
<1>2. ASSUME NEW d \in Drones, NEW seen \in SUBSET Grids, PlanGridTour(d, seen)
      PROVE  IdleOwnsNothing'
  <2>1. /\ Own(d)' = CellsLeft(d, seen)
        /\ \A f \in Drones \ {d} : Own(f)' = Own(f)
    BY <1>2, PlanType DEF Own
  <2>2. /\ state[d] # "IDLE"
        /\ \/ CellsLeft(d, seen) # {} /\ state' = state
           \/ CellsLeft(d, seen) = {} /\ state' = Grounded(d)
    <3>1. state[d] # "IDLE"
      BY <1>2 DEF PlanGridTour
    <3>2. \/ CellsLeft(d, seen) # {} /\ state' = state
          \/ CellsLeft(d, seen) = {} /\ state' = Grounded(d)
      <4>1. \/ CellsLeft(d, seen) # {} /\ UNCHANGED state
            \/ CellsLeft(d, seen) = {} /\ state' = Grounded(d)
            \/ SolverMayFail /\ state' = Grounded(d)
        BY <1>2 DEF PlanGridTour
      <4> QED BY <4>1
    <3> QED BY <3>1, <3>2
  <2>3. \A f \in Drones \ {d} : state'[f] = state[f]
    BY <2>2 DEF Grounded, TypeOK
  <2> QED BY <2>1, <2>2, <2>3 DEF IdleOwnsNothing
<1>3. ASSUME NEW d \in Drones, droneStateTimerCallback(d) PROVE IdleOwnsNothing'
  BY <1>3, StateTimerType DEF IdleOwnsNothing, Own, droneStateTimerCallback
<1>4. ASSUME NEW d \in Drones, optTimerCallback(d) PROVE IdleOwnsNothing'
  BY <1>4, OptTimerType DEF IdleOwnsNothing, Own, optTimerCallback
<1>5. ASSUME NEW d \in Drones, NEW m \in DroneStateMsgs, droneStateMsgCallback(d, m)
      PROVE  IdleOwnsNothing'
  <2>1. \A f \in Drones : swarm_state'[f][f] = swarm_state[f][f]
    BY <1>5, StateMsgType
  <2>2. state' = state
    BY <1>5 DEF droneStateMsgCallback
  <2> QED BY <2>1, <2>2 DEF IdleOwnsNothing, Own
<1>6. ASSUME NEW d \in Drones, NEW m \in Requests, optMsgCallback(d, m)
      PROVE  IdleOwnsNothing'
  <2>1. CASE RejectRequest(d, m)
    BY <2>1 DEF RejectRequest, IdleOwnsNothing, Own
  <2>2. CASE AcceptRequest(d, m)
    <3>1. m.to = d /\ state' = Woken(d, m.other_ids)
      BY <1>6, <2>2 DEF optMsgCallback, AcceptRequest
    <3>2. Own(d)' = m.other_ids /\ \A f \in Drones \ {d} : Own(f)' = Own(f)
      BY <2>2, <3>1, AcceptEffect DEF Own
    <3>3. /\ \A f \in Drones \ {d} : state'[f] = state[f]
          /\ state'[d] = "IDLE" => m.other_ids = {}
      BY <3>1 DEF Woken, TypeOK
    <3> QED BY <3>2, <3>3 DEF IdleOwnsNothing
  <2> QED BY <1>6, <2>1, <2>2 DEF optMsgCallback
<1>7. ASSUME NEW d \in Drones, NEW m \in Responses, optResMsgCallback(d, m)
      PROVE  IdleOwnsNothing'
  <2>1. CASE UNCHANGED <<swarm_state, state>>
    BY <2>1 DEF IdleOwnsNothing, Own
  <2>2. CASE ApplyResponse(d, m)
    <3>1. m.to = d /\ state' = Woken(d, pair_opt[d].ego_ids)
      BY <1>7, <2>2 DEF optResMsgCallback, ApplyResponse
    <3>2. Own(d)' = pair_opt[d].ego_ids /\ \A f \in Drones \ {d} : Own(f)' = Own(f)
      BY <2>2, <3>1, ApplyEffect DEF Own
    <3>3. /\ \A f \in Drones \ {d} : state'[f] = state[f]
          /\ state'[d] = "IDLE" => pair_opt[d].ego_ids = {}
      BY <3>1 DEF Woken, TypeOK
    <3> QED BY <3>2, <3>3 DEF IdleOwnsNothing
  <2> QED BY <1>7, <2>1, <2>2 DEF optResMsgCallback
<1>8. CASE Tick
  BY <1>8 DEF Tick, IdleOwnsNothing, Own
<1>9. CASE UNCHANGED vars
  BY <1>9 DEF vars, IdleOwnsNothing, Own
<1> QED BY <1>1, <1>2, <1>3, <1>4, <1>5, <1>6, <1>7, <1>8, <1>9 DEF Next

\* Unless a solver fails or the frontiers run out, a drone that owns cells is not
\* idle: either side of an exchange wakes up.
THEOREM IdleOwnsNothingCorrect ==
  ASSUME ~FrontiersEnd, ~SolverMayFail
  PROVE  Spec => []IdleOwnsNothing
<1>1. Init => IdleOwnsNothing
  BY DEF Init, IdleOwnsNothing
<1>2. TypeInv /\ IdleOwnsNothing /\ [Next]_vars => IdleOwnsNothing'
  BY StepIdle
<1> QED BY <1>1, <1>2, InitType, StepType, PTL DEF Spec
-----------------------------------------------------------------------------
(***************************************************************************)
(* Two drones: the exchange of cells as GridOwnership has it.               *)
(***************************************************************************)
\* The requests that drone 2 has not handled, and the responses drone 1 has not.
OpenRequests == {m \in Requests : m.stamp > req_stamp[2][1]}
OpenResponses == {m \in Responses : m.stamp > res_stamp[1][2]}

\* When drone 2 last accepted a request.
LastAccepted == swarm_state[2][2].attempt

\* Nobody owns a cell, or has heard of one, before drone 1 has claimed them all.
ClaimInv ==
  ~initialized[1] =>
    /\ Own(1) = {} /\ Own(2) = {} /\ swarm_state[1][2].grid_ids = {}
    /\ Requests = {} /\ Responses = {}
    /\ \A m \in DroneStateMsgs : m.from = 2 => m.grid_ids = {}

\* A state of drone 2 that is newer than its last exchange shows all its cells.
KnownInv ==
  /\ swarm_state[1][2].stamp > LastAccepted => Own(2) \subseteq swarm_state[1][2].grid_ids
  /\ \A m \in DroneStateMsgs :
       m.from = 2 /\ m.stamp > LastAccepted => Own(2) \subseteq m.grid_ids

\* An open request is the pending one, no response to it is on its way, and it
\* divides the cells of both.
RequestInv ==
  /\ res_stamp[1][2] <= pair_opt[1].stamp
  /\ \A m \in OpenRequests :
       /\ now <= m.stamp + MaxDelay
       /\ pair_opt[1].stamp = m.stamp /\ pair_opt[1].wait_response
       /\ pair_opt[1].ego_ids = m.ego_ids /\ pair_opt[1].other_ids = m.other_ids
       /\ res_stamp[1][2] < m.stamp
       /\ m.ego_ids \cap m.other_ids = {}
       /\ Own(1) \subseteq m.ego_ids \cup m.other_ids
       /\ Own(2) \subseteq m.ego_ids \cup m.other_ids

\* An open response answers the pending request, which divides the cells of drone 1;
\* when it accepts, drone 2 holds its part of the allocation.
ResponseInv ==
  \A m \in OpenResponses :
    /\ now <= m.stamp + MaxDelay
    /\ pair_opt[1].stamp = m.stamp /\ pair_opt[1].wait_response
    /\ Own(1) \subseteq pair_opt[1].ego_ids \cup pair_opt[1].other_ids
    /\ m.status = 1 => Own(2) \subseteq pair_opt[1].other_ids

\* What drone 2 has accepted, drone 1 has applied or is about to.
AppliedInv ==
  LastAccepted > swarm_state[1][2].interact => \E m \in OpenResponses : m.status = 1

RoundInv == ClaimInv /\ KnownInv /\ RequestInv /\ ResponseInv /\ AppliedInv

\* With two drones, who sends what to whom, and the types of the stamps.
LEMMA PairTypes ==
  ASSUME N = 2, TypeInv
  PROVE  /\ Drones = {1, 2}
         /\ now \in Nat /\ pair_opt[1].stamp \in Nat
         /\ LastAccepted \in Nat /\ LastAccepted <= now
         /\ swarm_state[1][2].stamp \in Nat /\ swarm_state[1][2].stamp <= now
         /\ swarm_state[1][2].interact \in Nat
         /\ req_stamp[2][1] \in Nat /\ res_stamp[1][2] \in Nat
         /\ \A m \in Requests : m.from = 1 /\ m.to = 2 /\ m.stamp \in Nat /\ m.stamp <= now
         /\ \A m \in Responses : m.from = 2 /\ m.to = 1 /\ m.stamp \in Nat /\ m.stamp <= now
         /\ \A m \in DroneStateMsgs :
              m.from \in Drones /\ m.to # m.from /\ m.stamp \in Nat /\ m.stamp <= now
<1>1. Drones = {1, 2}
  BY DEF Drones
<1>2. TypeOK /\ NetOK
  BY DEF TypeInv
<1>3. now \in Nat /\ pair_opt[1].stamp \in Nat
  BY <1>1, <1>2, TimesType DEF TypeOK
<1>4. /\ LastAccepted \in Nat /\ LastAccepted <= now
      /\ swarm_state[1][2].stamp \in Nat /\ swarm_state[1][2].stamp <= now
      /\ swarm_state[1][2].interact \in Nat
  <2>1. 1 \in Drones /\ 2 \in Drones
    BY <1>1
  <2>2. swarm_state[1][2] \in DroneStates /\ swarm_state[2][2] \in DroneStates
    BY <1>2, <2>1 DEF TypeOK
  <2>3. swarm_state[1][2].stamp <= now /\ swarm_state[2][2].attempt <= now
    BY <1>2, <2>1 DEF TypeOK
  <2> QED BY <2>2, <2>3, TimesType DEF DroneStates, LastAccepted
<1>5. req_stamp[2][1] \in Nat /\ res_stamp[1][2] \in Nat
  <2>1. 1 \in Drones /\ 2 \in Drones
    BY <1>1
  <2>2. req_stamp[2][1] \in Times /\ res_stamp[1][2] \in Times
    BY <1>2, <2>1, Zenon DEF TypeOK
  <2> QED BY <2>2, TimesType
<1>6. \A m \in net :
        m.from \in Drones /\ m.to \in Drones /\ m.from # m.to /\ m.stamp \in Nat /\ m.stamp <= now
  BY <1>2, TimesType DEF NetOK, MessageOK
<1>7. ASSUME NEW m \in Requests PROVE m.from = 1 /\ m.to = 2
  <2>1. m.from < m.to /\ m.from \in {1, 2} /\ m.to \in {1, 2}
    BY <1>1, <1>2 DEF NetOK, MessageOK, Requests
  <2> QED BY <2>1
<1>8. ASSUME NEW m \in Responses PROVE m.from = 2 /\ m.to = 1
  <2>1. m.to < m.from /\ m.from \in {1, 2} /\ m.to \in {1, 2}
    BY <1>1, <1>2 DEF NetOK, MessageOK, Responses
  <2> QED BY <2>1
<1>9. Requests \subseteq net /\ Responses \subseteq net /\ DroneStateMsgs \subseteq net
  BY DEF Requests, Responses, DroneStateMsgs
<1> QED BY <1>1, <1>3, <1>4, <1>5, <1>6, <1>7, <1>8, <1>9

LEMMA InitRound == N = 2 /\ Init => RoundInv
<1> SUFFICES ASSUME N = 2, Init PROVE RoundInv
  OBVIOUS
<1>1. /\ swarm_state[1][1].grid_ids = {} /\ swarm_state[2][2].grid_ids = {}
      /\ swarm_state[1][2].grid_ids = {} /\ swarm_state[1][2].interact = 0
      /\ swarm_state[2][2].attempt = 0 /\ res_stamp[1][2] = 0 /\ pair_opt[1].stamp = 0
  BY DEF Init, Drones
<1>2. Requests = {} /\ Responses = {} /\ DroneStateMsgs = {}
  BY DEF Init, Requests, Responses, DroneStateMsgs
<1>3. OpenRequests = {} /\ OpenResponses = {}
  BY <1>2 DEF OpenRequests, OpenResponses
<1> QED BY <1>1, <1>2, <1>3 DEF RoundInv, ClaimInv, KnownInv, RequestInv, ResponseInv, AppliedInv,
              Own, LastAccepted

\* A step outside an exchange: drones explore, and tell each other what they own.
LEMMA RoundQuiet ==
  ASSUME N = 2, TypeInv, RoundInv, ClaimInv',
         UNCHANGED <<now, pair_opt, req_stamp, res_stamp>>,
         Requests' = Requests, Responses' = Responses,
         LastAccepted' = LastAccepted,
         swarm_state'[1][2].interact = swarm_state[1][2].interact,
         Own(2)' \subseteq Own(2),
         Own(1)' \subseteq Own(1) \/ (Requests = {} /\ Responses = {}),
         \A m \in DroneStateMsgs' : m.from = 2 => m \in DroneStateMsgs \/ Own(2)' \subseteq m.grid_ids,
         \/ swarm_state'[1][2] = swarm_state[1][2]
         \/ \E m \in DroneStateMsgs : /\ m.from = 2 /\ swarm_state'[1][2].stamp = m.stamp
                                      /\ swarm_state'[1][2].grid_ids = m.grid_ids
  PROVE  RoundInv'
<1>1. OpenRequests' = OpenRequests /\ OpenResponses' = OpenResponses
  BY DEF OpenRequests, OpenResponses
<1>2. KnownInv'
  <2>1. \A m \in DroneStateMsgs :
          m.from = 2 /\ m.stamp > LastAccepted => Own(2)' \subseteq m.grid_ids
    BY DEF RoundInv, KnownInv
  <2>2. \A m \in DroneStateMsgs' :
          m.from = 2 /\ m.stamp > LastAccepted => Own(2)' \subseteq m.grid_ids
    BY <2>1
  <2>3. swarm_state'[1][2].stamp > LastAccepted => Own(2)' \subseteq swarm_state'[1][2].grid_ids
    <3>1. CASE swarm_state'[1][2] = swarm_state[1][2]
      BY <3>1 DEF RoundInv, KnownInv
    <3>2. CASE \E m \in DroneStateMsgs : /\ m.from = 2 /\ swarm_state'[1][2].stamp = m.stamp
                                         /\ swarm_state'[1][2].grid_ids = m.grid_ids
      BY <2>1, <3>2
    <3> QED BY <3>1, <3>2
  <2> QED BY <2>2, <2>3 DEF KnownInv
<1>3. RequestInv'
  <2>1. res_stamp'[1][2] <= pair_opt'[1].stamp
    BY DEF RoundInv, RequestInv
  <2>2. OpenRequests \subseteq Requests
    BY DEF OpenRequests
  <2>3. ASSUME NEW m \in OpenRequests'
        PROVE  /\ now' <= m.stamp + MaxDelay
               /\ pair_opt'[1].stamp = m.stamp /\ pair_opt'[1].wait_response
               /\ pair_opt'[1].ego_ids = m.ego_ids /\ pair_opt'[1].other_ids = m.other_ids
               /\ res_stamp'[1][2] < m.stamp
               /\ m.ego_ids \cap m.other_ids = {}
               /\ Own(1)' \subseteq m.ego_ids \cup m.other_ids
               /\ Own(2)' \subseteq m.ego_ids \cup m.other_ids
    <3>1. m \in OpenRequests /\ Own(1)' \subseteq Own(1)
      BY <1>1, <2>2, <2>3
    <3> QED BY <3>1 DEF RoundInv, RequestInv
  <2> QED BY <2>1, <2>3 DEF RequestInv
<1>4. ResponseInv'
  <2>1. OpenResponses \subseteq Responses
    BY DEF OpenResponses
  <2>2. ASSUME NEW m \in OpenResponses'
        PROVE  /\ now' <= m.stamp + MaxDelay
               /\ pair_opt'[1].stamp = m.stamp /\ pair_opt'[1].wait_response
               /\ Own(1)' \subseteq pair_opt'[1].ego_ids \cup pair_opt'[1].other_ids
               /\ m.status = 1 => Own(2)' \subseteq pair_opt'[1].other_ids
    <3>1. m \in OpenResponses /\ Own(1)' \subseteq Own(1)
      BY <1>1, <2>1, <2>2
    <3> QED BY <3>1 DEF RoundInv, ResponseInv
  <2> QED BY <2>2 DEF ResponseInv
<1>5. AppliedInv'
  BY <1>1 DEF RoundInv, AppliedInv
<1> QED BY <1>2, <1>3, <1>4, <1>5 DEF RoundInv

\* Without rediscovery, cells are given up as they are explored, and only drone 1,
\* once, claims what nobody owns.
LEMMA CellsLeftExact ==
  ASSUME N = 2, TypeInv, ~Rediscovery, NEW d \in Drones, NEW seen \in SUBSET Grids,
         PlanGridTour(d, seen)
  PROVE  /\ seen \subseteq relevant[d]
         /\ initialized[d] => CellsLeft(d, seen) = Own(d) \cap seen
         /\ ~initialized[d] /\ d = 1 => CellsLeft(d, seen) = seen
         /\ ~initialized[d] /\ d # 1 => CellsLeft(d, seen) = Own(d)
<1>1. seen \subseteq relevant[d]
  BY DEF PlanGridTour
<1> QED BY <1>1 DEF CellsLeft

LEMMA PlanRound ==
  ASSUME N = 2, ~Rediscovery, TypeInv, RoundInv,
         NEW d \in Drones, NEW seen \in SUBSET Grids, PlanGridTour(d, seen)
  PROVE  RoundInv'
<1>1. Drones = {1, 2}
  BY PairTypes
<1>2. /\ Own(d)' = CellsLeft(d, seen)
      /\ \A f, g \in Drones :
           /\ swarm_state'[f][g].attempt = swarm_state[f][g].attempt
           /\ swarm_state'[f][g].interact = swarm_state[f][g].interact
           /\ f # d \/ g # d => swarm_state'[f][g] = swarm_state[f][g]
  BY PlanType DEF TypeInv
<1>3. /\ UNCHANGED <<now, pair_opt, req_stamp, res_stamp, net>>
      /\ initialized'[d] /\ \A f \in Drones : f # d => initialized'[f] = initialized[f]
  BY DEF PlanGridTour, TypeInv, TypeOK
<1>4. /\ Requests' = Requests /\ Responses' = Responses /\ DroneStateMsgs' = DroneStateMsgs
  BY <1>3 DEF Requests, Responses, DroneStateMsgs
<1>5. \A f \in Drones : f # d => Own(f)' = Own(f)
  BY <1>2 DEF Own
<1>6. LastAccepted' = LastAccepted /\ swarm_state'[1][2] = swarm_state[1][2]
  BY <1>1, <1>2 DEF LastAccepted
<1>7. Own(2)' \subseteq Own(2)
  BY <1>1, <1>2, <1>5, CellsLeftExact
<1>8. Own(1)' \subseteq Own(1) \/ (Requests = {} /\ Responses = {})
  <2>1. CASE d = 1 /\ ~initialized[1]
    BY <2>1 DEF RoundInv, ClaimInv
  <2>2. CASE d # 1 \/ initialized[1]
    BY <1>1, <1>2, <1>5, <2>2, CellsLeftExact
  <2> QED BY <2>1, <2>2
<1>9. ClaimInv'
  <2> SUFFICES ASSUME ~initialized'[1]
               PROVE  /\ Own(1)' = {} /\ Own(2)' = {} /\ swarm_state'[1][2].grid_ids = {}
                      /\ Requests' = {} /\ Responses' = {}
                      /\ \A m \in DroneStateMsgs' : m.from = 2 => m.grid_ids = {}
    BY DEF ClaimInv
  <2>1. d = 2 /\ ~initialized[1]
    BY <1>1, <1>3
  <2> QED BY <1>1, <1>4, <1>5, <1>6, <1>7, <2>1 DEF RoundInv, ClaimInv
<1> QED BY <1>1, <1>2, <1>3, <1>4, <1>6, <1>7, <1>8, <1>9, RoundQuiet

LEMMA StateTimerRound ==
  ASSUME N = 2, TypeInv, RoundInv, NEW d \in Drones, droneStateTimerCallback(d)
  PROVE  RoundInv'
<1>1. Drones = {1, 2}
  BY PairTypes
<1>2. /\ \A f, g \in Drones :
           /\ swarm_state'[f][g].grid_ids = swarm_state[f][g].grid_ids
           /\ swarm_state'[f][g].attempt = swarm_state[f][g].attempt
           /\ swarm_state'[f][g].interact = swarm_state[f][g].interact
           /\ f # d \/ g # d => swarm_state'[f][g] = swarm_state[f][g]
      /\ \A m \in net' : m.type # "DroneState" => m \in net
  BY StateTimerType DEF TypeInv
<1>3. UNCHANGED <<now, initialized, pair_opt, req_stamp, res_stamp>> /\ net \subseteq net'
  BY DEF droneStateTimerCallback
<1>4. Requests' = Requests /\ Responses' = Responses
  BY <1>2, <1>3 DEF Requests, Responses
<1>5. /\ Own(1)' = Own(1) /\ Own(2)' = Own(2) /\ LastAccepted' = LastAccepted
      /\ swarm_state'[1][2] = swarm_state[1][2]
  BY <1>1, <1>2 DEF Own, LastAccepted
<1>6. ASSUME NEW m \in DroneStateMsgs', m.from = 2
      PROVE  m \in DroneStateMsgs \/ Own(2) = m.grid_ids
  <2>1. CASE m \in net
    BY <1>6, <2>1 DEF DroneStateMsgs
  <2>2. CASE m \notin net
    <3>1. m \in net'
      BY <1>6 DEF DroneStateMsgs
    <3>2. PICK e \in Drones \ {d} :
            m = [type |-> "DroneState", from |-> d, to |-> e, stamp |-> now,
                 grid_ids |-> Own(d), attempt |-> swarm_state[d][d].attempt]
      BY <2>2, <3>1 DEF droneStateTimerCallback
    <3>3. m.from = d /\ m.grid_ids = Own(d)
      BY <3>2
    <3> QED BY <1>6, <3>3
  <2> QED BY <2>1, <2>2
<1>7. ClaimInv'
  BY <1>3, <1>4, <1>5, <1>6 DEF RoundInv, ClaimInv
<1> QED BY <1>1, <1>2, <1>3, <1>4, <1>5, <1>6, <1>7, RoundQuiet

LEMMA StateMsgRound ==
  ASSUME N = 2, TypeInv, RoundInv, NEW d \in Drones, NEW m \in DroneStateMsgs,
         droneStateMsgCallback(d, m)
  PROVE  RoundInv'
<1>1. Drones = {1, 2} /\ m.from \in Drones /\ m.from # d
  BY PairTypes DEF droneStateMsgCallback
<1>2. /\ \A f, g \in Drones :
           /\ swarm_state'[f][g].interact = swarm_state[f][g].interact
           /\ f = g => swarm_state'[f][g] = swarm_state[f][g]
           /\ f # d \/ g # m.from => swarm_state'[f][g] = swarm_state[f][g]
      /\ swarm_state'[d][m.from].stamp = m.stamp
      /\ swarm_state'[d][m.from].grid_ids = m.grid_ids
  BY StateMsgType DEF TypeInv
<1>3. UNCHANGED <<now, initialized, pair_opt, req_stamp, res_stamp>> /\ net' = net \ {m}
  BY DEF droneStateMsgCallback
<1>4. Requests' = Requests /\ Responses' = Responses /\ DroneStateMsgs' \subseteq DroneStateMsgs
  BY <1>3 DEF Requests, Responses, DroneStateMsgs
<1>5. Own(1)' = Own(1) /\ Own(2)' = Own(2) /\ LastAccepted' = LastAccepted
  BY <1>1, <1>2 DEF Own, LastAccepted
<1>6. \/ swarm_state'[1][2] = swarm_state[1][2]
      \/ /\ m.from = 2 /\ swarm_state'[1][2].stamp = m.stamp
         /\ swarm_state'[1][2].grid_ids = m.grid_ids
  <2>1. CASE d = 1
    BY <1>1, <1>2, <2>1
  <2>2. CASE d = 2
    BY <1>1, <1>2, <2>2
  <2> QED BY <1>1, <2>1, <2>2
<1>7. ClaimInv'
  BY <1>3, <1>4, <1>5, <1>6 DEF RoundInv, ClaimInv
<1> QED BY <1>1, <1>2, <1>3, <1>4, <1>5, <1>6, <1>7, RoundQuiet

\* A new attempt comes after the last round: nothing of it is open, and what drone 1
\* knows of drone 2 is newer.
LEMMA NothingOpen ==
  ASSUME N = 2, AttemptInterval > MaxDelay, TypeInv, ExchangeInv, RoundInv, MayAttempt(1)
  PROVE  OpenRequests = {} /\ OpenResponses = {} /\ pair_opt[1].stamp < now
<1>1. /\ now \in Nat /\ pair_opt[1].stamp \in Nat /\ swarm_state[1][1].attempt \in Nat
      /\ MaxDelay \in Nat /\ AttemptInterval \in Nat \ {0}
  BY PairTypes, TimesType, RacerPairOptAssumption DEF TypeInv, TypeOK, DroneStates
<1>2. pair_opt[1].stamp <= swarm_state[1][1].attempt
  BY PairTypes DEF ExchangeInv
<1>3. now - swarm_state[1][1].attempt >= AttemptInterval
  BY DEF MayAttempt
<1>4. \A s \in Nat : now <= s + MaxDelay => s # pair_opt[1].stamp
  BY <1>1, <1>2, <1>3
<1>5. \A m \in OpenRequests : m.stamp \in Nat
  BY PairTypes DEF OpenRequests
<1>6. \A m \in OpenResponses : m.stamp \in Nat
  BY PairTypes DEF OpenResponses
<1>7. OpenRequests = {}
  BY <1>4, <1>5 DEF RoundInv, RequestInv
<1>8. OpenResponses = {}
  BY <1>4, <1>6 DEF RoundInv, ResponseInv
<1> QED BY <1>1, <1>2, <1>3, <1>7, <1>8

\* The allocation divides what drone d knows the two drones to own.
LEMMA OptTimerDivides ==
  ASSUME TypeInv, ~SolverMayFail, NEW d \in Drones, optTimerCallback(d)
  PROVE  \E e \in Drones, ego, other \in SUBSET Grids :
           /\ e \in Candidates(d)
           /\ net' = net \cup {[type |-> "PairOpt", from |-> d, to |-> e, stamp |-> now,
                                ego_ids |-> ego, other_ids |-> other]}
           /\ pair_opt'[d] = [ego_ids |-> ego, other_ids |-> other,
                              stamp |-> now, wait_response |-> TRUE]
           /\ ego \cap other = {}
           /\ Own(d) \subseteq ego \cup other
           /\ swarm_state[d][e].grid_ids \subseteq ego \cup other
<1>1. PICK e \in Drones :
        /\ IsSelected(d, e)
        /\ \E alloc \in Allocations(Own(d) \cup swarm_state[d][e].grid_ids \cup Missed(d)) :
             /\ net' = net \cup {[type |-> "PairOpt", from |-> d, to |-> e, stamp |-> now,
                                  ego_ids |-> alloc.ego, other_ids |-> alloc.other]}
             /\ pair_opt' = [pair_opt EXCEPT ![d] =
                  [ego_ids |-> alloc.ego, other_ids |-> alloc.other,
                   stamp |-> now, wait_response |-> TRUE]]
  BY DEF optTimerCallback
<1> DEFINE cells == Own(d) \cup swarm_state[d][e].grid_ids \cup Missed(d)
<1>2. cells \subseteq Grids
  BY DEF Own, Missed, TypeInv, TypeOK, DroneStates
<1>3. Own(d) \subseteq cells /\ swarm_state[d][e].grid_ids \subseteq cells
  OBVIOUS
<1>4. PICK alloc \in Allocations(cells) :
        /\ net' = net \cup {[type |-> "PairOpt", from |-> d, to |-> e, stamp |-> now,
                             ego_ids |-> alloc.ego, other_ids |-> alloc.other]}
        /\ pair_opt' = [pair_opt EXCEPT ![d] =
             [ego_ids |-> alloc.ego, other_ids |-> alloc.other,
              stamp |-> now, wait_response |-> TRUE]]
  BY <1>1
<1> HIDE DEF cells
<1>5. PICK ego \in SUBSET cells : alloc = [ego |-> ego, other |-> cells \ ego]
  BY <1>4 DEF Allocations
<1> DEFINE other == cells \ ego
<1>6. alloc.ego = ego /\ alloc.other = other
  BY <1>5
<1>7. ego \in SUBSET Grids /\ other \in SUBSET Grids
  BY <1>2
<1>8. ego \cap other = {} /\ cells = ego \cup other
  BY <1>5
<1> HIDE DEF other
<1>9. /\ net' = net \cup {[type |-> "PairOpt", from |-> d, to |-> e, stamp |-> now,
                            ego_ids |-> ego, other_ids |-> other]}
      /\ pair_opt'[d] = [ego_ids |-> ego, other_ids |-> other,
                         stamp |-> now, wait_response |-> TRUE]
  BY <1>4, <1>6 DEF TypeInv, TypeOK
<1>10. e \in Candidates(d)
  BY <1>1 DEF IsSelected
<1>11. Own(d) \subseteq ego \cup other /\ swarm_state[d][e].grid_ids \subseteq ego \cup other
  BY <1>3, <1>8
<1> QED BY <1>7, <1>8, <1>9, <1>10, <1>11, Zenon

\* A request divides the cells that the two drones own.
LEMMA AttemptRound ==
  ASSUME N = 2, ~SolverMayFail, AttemptInterval > MaxDelay, PairOptInterval > Fresh,
         TypeInv, ExchangeInv, RoundInv, NEW d \in Drones, optTimerCallback(d)
  PROVE  d = 1 /\ OpenResponses = {} /\ OpenResponses' = {} /\ RoundInv'
<1>1. PICK e \in Drones, ego \in SUBSET Grids, other \in SUBSET Grids :
        /\ e \in Candidates(d)
        /\ net' = net \cup {[type |-> "PairOpt", from |-> d, to |-> e, stamp |-> now,
                             ego_ids |-> ego, other_ids |-> other]}
        /\ pair_opt'[d] = [ego_ids |-> ego, other_ids |-> other,
                           stamp |-> now, wait_response |-> TRUE]
        /\ ego \cap other = {}
        /\ Own(d) \subseteq ego \cup other
        /\ swarm_state[d][e].grid_ids \subseteq ego \cup other
  BY OptTimerDivides
<1>2. Drones = {1, 2} /\ d = 1 /\ e = 2
  <2>1. Drones = {1, 2} /\ e \in d + 1 .. 2
    BY <1>1, PairTypes DEF Candidates
  <2> QED BY <2>1
<1>3. /\ \A f, g \in Drones :
           /\ swarm_state'[f][g].grid_ids = swarm_state[f][g].grid_ids
           /\ f # d \/ g # d => swarm_state'[f][g] = swarm_state[f][g]
  BY OptTimerType DEF TypeInv
<1>4. UNCHANGED <<now, initialized, req_stamp, res_stamp>> /\ MayAttempt(1)
  BY <1>2 DEF optTimerCallback
<1> DEFINE q == [type |-> "PairOpt", from |-> 1, to |-> 2, stamp |-> now,
                 ego_ids |-> ego, other_ids |-> other]
<1>5. /\ q.type = "PairOpt" /\ q.stamp = now /\ q.ego_ids = ego /\ q.other_ids = other
  OBVIOUS
<1>6. net' = net \cup {q}
  BY <1>1, <1>2
<1> HIDE DEF q
<1>7. /\ Requests' = Requests \cup {q} /\ Responses' = Responses
      /\ DroneStateMsgs' = DroneStateMsgs
  BY <1>5, <1>6 DEF Requests, Responses, DroneStateMsgs
<1>8. OpenRequests = {} /\ OpenResponses = {} /\ pair_opt[1].stamp < now
  BY <1>4, NothingOpen
<1>9. OpenRequests' \subseteq {q} /\ OpenResponses' = {}
  BY <1>4, <1>7, <1>8 DEF OpenRequests, OpenResponses
<1>10. /\ Own(1)' = Own(1) /\ Own(2)' = Own(2) /\ LastAccepted' = LastAccepted
       /\ swarm_state'[1][2] = swarm_state[1][2]
  BY <1>2, <1>3 DEF Own, LastAccepted
<1>11. /\ pair_opt'[1].stamp = now /\ pair_opt'[1].wait_response
       /\ pair_opt'[1].ego_ids = ego /\ pair_opt'[1].other_ids = other
  BY <1>1, <1>2
<1>12. initialized[1]
  <2>1. swarm_state[1][2].grid_ids \cup Own(1) # {}
    BY <1>1, <1>2 DEF Candidates
  <2> QED BY <2>1 DEF RoundInv, ClaimInv
<1>13. LastAccepted <= swarm_state[1][2].interact
  <2>1. ~(LastAccepted > swarm_state[1][2].interact)
    BY <1>8 DEF RoundInv, AppliedInv
  <2> QED BY <2>1, PairTypes
<1>14. swarm_state[1][2].stamp > LastAccepted
  <2>1. /\ now - swarm_state[1][2].stamp <= Fresh
        /\ now - swarm_state[1][2].interact >= PairOptInterval
    BY <1>1, <1>2 DEF Candidates
  <2>2. Fresh \in Nat /\ PairOptInterval \in Nat
    BY ConstantType
  <2> QED BY <1>13, <2>1, <2>2, PairTypes
<1>15. Own(2) \subseteq ego \cup other
  BY <1>1, <1>2, <1>14 DEF RoundInv, KnownInv
<1>16. ClaimInv'
  BY <1>4, <1>12 DEF ClaimInv
<1>17. KnownInv'
  BY <1>7, <1>10 DEF RoundInv, KnownInv
<1>18. RequestInv'
  <2>1. res_stamp'[1][2] < now /\ res_stamp'[1][2] <= now
    BY <1>4, <1>8, PairTypes DEF RoundInv, RequestInv
  <2>2. now <= now + MaxDelay
    BY PairTypes, RacerPairOptAssumption
  <2>3. \A m \in OpenRequests' : m = q
    BY <1>9
  <2>4. /\ now' <= q.stamp + MaxDelay
        /\ pair_opt'[1].stamp = q.stamp /\ pair_opt'[1].wait_response
        /\ pair_opt'[1].ego_ids = q.ego_ids /\ pair_opt'[1].other_ids = q.other_ids
        /\ res_stamp'[1][2] < q.stamp
        /\ q.ego_ids \cap q.other_ids = {}
        /\ Own(1)' \subseteq q.ego_ids \cup q.other_ids
        /\ Own(2)' \subseteq q.ego_ids \cup q.other_ids
    BY <1>1, <1>2, <1>4, <1>5, <1>10, <1>11, <1>15, <2>1, <2>2
  <2> QED BY <1>11, <2>1, <2>3, <2>4 DEF RequestInv
<1>19. ResponseInv'
  BY <1>9 DEF ResponseInv
<1>20. AppliedInv'
  BY <1>10, <1>13, PairTypes DEF AppliedInv
<1> QED BY <1>2, <1>8, <1>9, <1>16, <1>17, <1>18, <1>19, <1>20 DEF RoundInv

\* A request that is answered is the only message of its round.
LEMMA AnswerRound ==
  ASSUME N = 2, TypeInv, ExchangeInv, RoundInv, NEW d \in Drones, NEW m \in Requests,
         optMsgCallback(d, m)
  PROVE  /\ d = 2 /\ m \in OpenRequests /\ OpenResponses = {}
         /\ OpenRequests' = {}
         /\ RejectRequest(d, m) => \A r \in OpenResponses' : r.status = 2
         /\ AcceptRequest(d, m) => \E r \in OpenResponses' : r.status = 1
         /\ RoundInv'
<1>1. d = 2 /\ m.from = 1 /\ m.to = 2 /\ m.stamp \in Nat /\ Drones = {1, 2} /\ 1 \in Drones
  BY PairTypes DEF optMsgCallback
<1>2. m \in OpenRequests
  BY <1>1 DEF OpenRequests, optMsgCallback, NewRequest
<1>3. /\ UNCHANGED <<now, initialized, pair_opt, res_stamp>>
      /\ req_stamp'[2][1] = m.stamp
  BY <1>1 DEF optMsgCallback, TypeInv, TypeOK
<1>4. /\ now <= m.stamp + MaxDelay
      /\ pair_opt[1].stamp = m.stamp /\ pair_opt[1].wait_response
      /\ pair_opt[1].ego_ids = m.ego_ids /\ pair_opt[1].other_ids = m.other_ids
      /\ res_stamp[1][2] < m.stamp
      /\ Own(1) \subseteq m.ego_ids \cup m.other_ids
  BY <1>2 DEF RoundInv, RequestInv
<1>5. OpenResponses = {}
  <2> SUFFICES ASSUME NEW r \in OpenResponses PROVE FALSE
    OBVIOUS
  <2>1. r.stamp = m.stamp
    BY <1>4 DEF RoundInv, ResponseInv
  <2>2. r \in Responses
    BY DEF OpenResponses
  <2>3. r.stamp <= req_stamp[2][1] /\ r.stamp \in Nat
    BY <2>2, PairTypes DEF ExchangeInv
  <2>4. m.stamp > req_stamp[2][1]
    BY <1>2 DEF OpenRequests
  <2> QED BY <2>1, <2>3, <2>4, PairTypes
<1>6. PICK status \in {1, 2} :
        /\ net' = Received(m) \cup {Response(m, status)}
        /\ (RejectRequest(d, m) /\ status = 2) \/ (AcceptRequest(d, m) /\ status = 1)
  BY DEF optMsgCallback, RejectRequest, AcceptRequest
<1> DEFINE a == Response(m, status)
<1>7. a.type = "PairOptResponse" /\ a.stamp = m.stamp /\ a.status = status
  BY DEF Response
<1>8. net' = Received(m) \cup {a} /\ Received(m) \subseteq net
      /\ \A n \in net : n # m => n \in Received(m)
  BY <1>6 DEF Received
<1> HIDE DEF a
<1>9. /\ Requests' \subseteq Requests /\ Responses' \subseteq Responses \cup {a}
      /\ DroneStateMsgs' \subseteq DroneStateMsgs /\ a \in Responses'
  BY <1>7, <1>8 DEF Requests, Responses, DroneStateMsgs
<1>10. OpenRequests' = {}
  <2> SUFFICES ASSUME NEW q \in OpenRequests' PROVE FALSE
    OBVIOUS
  <2>1. q \in Requests /\ q.stamp > m.stamp /\ q.stamp \in Nat
    BY <1>3, <1>9, PairTypes DEF OpenRequests
  <2>2. m.stamp > req_stamp[2][1]
    BY <1>2 DEF OpenRequests
  <2>3. q \in OpenRequests
    BY <1>1, <2>1, <2>2, PairTypes DEF OpenRequests
  <2>4. q.stamp = m.stamp
    BY <1>4, <2>3 DEF RoundInv, RequestInv
  <2> QED BY <1>1, <2>1, <2>4
<1>11. OpenResponses' = {a}
  <2>1. a \in OpenResponses'
    BY <1>1, <1>3, <1>4, <1>7, <1>9, PairTypes DEF OpenResponses
  <2>2. \A r \in OpenResponses' : r \in OpenResponses \/ r = a
    BY <1>3, <1>9 DEF OpenResponses
  <2> QED BY <1>5, <2>1, <2>2
<1>12. /\ swarm_state'[1] = swarm_state[1]
       /\ status = 1 => LastAccepted' = now /\ Own(2)' = m.other_ids
       /\ status = 2 => LastAccepted' = LastAccepted /\ Own(2)' = Own(2)
  <2>1. CASE RejectRequest(d, m) /\ status = 2
    BY <2>1 DEF RejectRequest, LastAccepted, Own
  <2>2. CASE AcceptRequest(d, m) /\ status = 1
    <3>1. /\ swarm_state'[2][2].attempt = now /\ swarm_state'[2][2].grid_ids = m.other_ids
      BY <1>1, <2>2, AcceptEffect DEF TypeInv
    <3>2. swarm_state'[1] = swarm_state[1]
      BY <1>1, <2>2 DEF AcceptRequest, TypeInv, TypeOK
    <3> QED BY <2>2, <3>1, <3>2 DEF LastAccepted, Own
  <2> QED BY <1>6, <2>1, <2>2
<1>13. Own(1)' = Own(1)
  BY <1>12 DEF Own
<1>14. initialized[1]
  BY <1>2 DEF RoundInv, ClaimInv, OpenRequests
<1>15. ClaimInv'
  BY <1>3, <1>14 DEF ClaimInv
<1>16. KnownInv'
  <2>1. CASE status = 1
    <3>1. swarm_state'[1][2].stamp <= now /\ swarm_state'[1][2].stamp \in Nat /\ LastAccepted' = now
      BY <1>12, <2>1, PairTypes
    <3>2. \A n \in DroneStateMsgs' : n.stamp <= now /\ n.stamp \in Nat
      BY <1>9, PairTypes
    <3> QED BY <3>1, <3>2, PairTypes DEF KnownInv
  <2>2. CASE status = 2
    BY <1>9, <1>12, <2>2 DEF RoundInv, KnownInv
  <2> QED BY <2>1, <2>2
<1>17. RequestInv'
  BY <1>3, <1>10 DEF RoundInv, RequestInv
<1>18. ResponseInv'
  BY <1>3, <1>4, <1>7, <1>11, <1>12, <1>13 DEF ResponseInv
<1>19. AppliedInv'
  <2>1. CASE status = 1
    BY <1>7, <1>11, <2>1 DEF AppliedInv
  <2>2. CASE status = 2
    BY <1>5, <1>12, <2>2 DEF RoundInv, AppliedInv
  <2> QED BY <2>1, <2>2
<1>20. RejectRequest(d, m) => \A r \in OpenResponses' : r.status = 2
  <2>1. RejectRequest(d, m) => ~AcceptRequest(d, m)
    BY DEF RejectRequest, AcceptRequest
  <2> QED BY <1>6, <1>7, <1>11, <2>1
<1>21. AcceptRequest(d, m) => \E r \in OpenResponses' : r.status = 1
  <2>1. AcceptRequest(d, m) => ~RejectRequest(d, m)
    BY DEF RejectRequest, AcceptRequest
  <2> QED BY <1>6, <1>7, <1>11, <2>1
<1> QED BY <1>1, <1>2, <1>5, <1>10, <1>15, <1>16, <1>17, <1>18, <1>19, <1>20, <1>21 DEF RoundInv

\* The response to a request ends its round.
LEMMA ResponseRound ==
  ASSUME N = 2, TypeInv, ExchangeInv, RoundInv, NEW d \in Drones, NEW m \in Responses,
         optResMsgCallback(d, m)
  PROVE  /\ d = 1 /\ m \in OpenResponses /\ OpenResponses' = {}
         /\ \A r \in OpenResponses : r.status = m.status
         /\ m.status = 1 => ApplyResponse(1, m) /\ Own(1)' = pair_opt[1].ego_ids
         /\ m.status # 1 => Own(1)' = Own(1)
         /\ Own(2)' = Own(2)
         /\ RoundInv'
<1>1. d = 1 /\ m.from = 2 /\ m.to = 1 /\ m.stamp \in Nat /\ Drones = {1, 2} /\ 2 \in Drones
  BY PairTypes DEF optResMsgCallback
<1>2. m \in OpenResponses
  BY <1>1 DEF OpenResponses, optResMsgCallback
<1>3. /\ UNCHANGED <<now, initialized, req_stamp>>
      /\ res_stamp'[1][2] = m.stamp
  BY <1>1 DEF optResMsgCallback, TypeInv, TypeOK
<1>4. /\ pair_opt[1].stamp = m.stamp /\ pair_opt[1].wait_response
      /\ m.status = 1 => Own(2) \subseteq pair_opt[1].other_ids
  BY <1>2 DEF RoundInv, ResponseInv
<1>5. AnswersPending(1, m)
  BY <1>4 DEF AnswersPending
<1>6. net' \subseteq net /\ pair_opt'[1].stamp = pair_opt[1].stamp
  BY <1>1, ResponseType DEF TypeInv
<1>7. /\ Requests' \subseteq Requests /\ Responses' \subseteq Responses
      /\ DroneStateMsgs' \subseteq DroneStateMsgs
  BY <1>6 DEF Requests, Responses, DroneStateMsgs
<1>8. OpenRequests' = {}
  <2> SUFFICES ASSUME NEW q \in OpenRequests' PROVE FALSE
    OBVIOUS
  <2>1. q \in OpenRequests
    BY <1>3, <1>7 DEF OpenRequests
  <2>2. q.stamp = m.stamp
    BY <1>4, <2>1 DEF RoundInv, RequestInv
  <2>3. m.stamp <= req_stamp[2][1]
    BY <1>1 DEF ExchangeInv
  <2>4. q.stamp > req_stamp[2][1]
    BY <2>1 DEF OpenRequests
  <2> QED BY <1>1, <2>2, <2>3, <2>4, PairTypes
<1>9. OpenResponses' = {}
  <2> SUFFICES ASSUME NEW r \in OpenResponses' PROVE FALSE
    OBVIOUS
  <2>1. r \in Responses /\ r.stamp > m.stamp /\ r.stamp \in Nat
    BY <1>3, <1>7, PairTypes DEF OpenResponses
  <2>2. m.stamp > res_stamp[1][2]
    BY <1>2 DEF OpenResponses
  <2>3. r \in OpenResponses
    BY <1>1, <2>1, <2>2, PairTypes DEF OpenResponses
  <2>4. r.stamp = m.stamp
    BY <1>4, <2>3 DEF RoundInv, ResponseInv
  <2> QED BY <1>1, <2>1, <2>4
<1>10. \A r \in OpenResponses : r.status = m.status
  <2> SUFFICES ASSUME NEW r \in OpenResponses PROVE r.status = m.status
    OBVIOUS
  <2>1. r.stamp = m.stamp
    BY <1>4 DEF RoundInv, ResponseInv
  <2>2. r \in Responses
    BY DEF OpenResponses
  <2>3. r.from = m.from /\ r.to = m.to
    BY <1>1, <2>2, PairTypes
  <2> QED BY <2>1, <2>2, <2>3 DEF ExchangeInv, OneAnswer
<1>11. \/ m.status = 1 /\ ApplyResponse(1, m)
       \/ m.status # 1 /\ UNCHANGED <<swarm_state, state>>
  BY <1>1, <1>5 DEF optResMsgCallback, Agreed
<1>12. /\ Own(2)' = Own(2) /\ LastAccepted' = LastAccepted
       /\ swarm_state'[1][2].stamp = swarm_state[1][2].stamp
       /\ m.status = 1 => /\ Own(1)' = pair_opt[1].ego_ids
                          /\ swarm_state'[1][2].grid_ids = pair_opt[1].other_ids
                          /\ swarm_state'[1][2].interact = now
       /\ m.status # 1 => Own(1)' = Own(1) /\ swarm_state'[1][2] = swarm_state[1][2]
  <2>1. CASE m.status = 1 /\ ApplyResponse(1, m)
    BY <1>1, <2>1, ApplyEffect DEF TypeInv, Own, LastAccepted
  <2>2. CASE m.status # 1 /\ UNCHANGED <<swarm_state, state>>
    BY <2>2 DEF Own, LastAccepted
  <2> QED BY <1>11, <2>1, <2>2
<1>13. initialized[1]
  BY <1>2 DEF RoundInv, ClaimInv, OpenResponses
<1>14. ClaimInv'
  BY <1>3, <1>13 DEF ClaimInv
<1>15. KnownInv'
  <2>1. swarm_state'[1][2].stamp > LastAccepted => Own(2) \subseteq swarm_state'[1][2].grid_ids
    <3>1. CASE m.status = 1
      BY <1>4, <1>12, <3>1
    <3>2. CASE m.status # 1
      BY <1>12, <3>2 DEF RoundInv, KnownInv
    <3> QED BY <3>1, <3>2
  <2> QED BY <1>7, <1>12, <2>1 DEF RoundInv, KnownInv
<1>16. RequestInv'
  BY <1>1, <1>3, <1>4, <1>6, <1>8 DEF RequestInv
<1>17. ResponseInv'
  BY <1>9 DEF ResponseInv
<1>18. AppliedInv'
  <2>1. CASE m.status = 1
    BY <1>12, <2>1, PairTypes DEF AppliedInv
  <2>2. CASE m.status # 1
    BY <1>10, <1>12, <2>2 DEF RoundInv, AppliedInv
  <2> QED BY <2>1, <2>2
<1> QED BY <1>1, <1>2, <1>9, <1>10, <1>11, <1>12, <1>14, <1>15, <1>16, <1>17, <1>18 DEF RoundInv

\* Time passes no open message by.
LEMMA TickRound ==
  ASSUME N = 2, Reliable, TypeInv, RoundInv, Tick
  PROVE  OpenResponses' = OpenResponses /\ RoundInv'
<1>1. /\ now' = now + 1
      /\ net' = {m \in net : ~Handled(m) /\ m.stamp + MaxDelay >= now'}
      /\ \A m \in Requests \cup Responses : Handled(m) \/ m.stamp + MaxDelay >= now'
      /\ UNCHANGED <<initialized, relevant, swarm_state, pair_opt, req_stamp, res_stamp>>
  BY DEF Tick
<1>2. /\ Requests' \subseteq Requests /\ Responses' \subseteq Responses
      /\ DroneStateMsgs' \subseteq DroneStateMsgs
  BY <1>1 DEF Requests, Responses, DroneStateMsgs
<1>3. ASSUME NEW m \in OpenRequests PROVE now' <= m.stamp + MaxDelay
  <2>1. m \in Requests /\ m.stamp > req_stamp[2][1] /\ m.type = "PairOpt"
    BY DEF OpenRequests, Requests
  <2>2. m.to = 2 /\ m.from = 1 /\ m.stamp \in Nat
    BY <2>1, PairTypes
  <2>3. ~Handled(m)
    BY <2>1, <2>2, PairTypes DEF Handled
  <2> QED BY <1>1, <2>1, <2>2, <2>3, PairTypes, RacerPairOptAssumption
<1>4. ASSUME NEW m \in OpenResponses PROVE m \in Responses' /\ now' <= m.stamp + MaxDelay
  <2>1. m \in Responses /\ m.stamp > res_stamp[1][2] /\ m.type = "PairOptResponse" /\ m \in net
    BY DEF OpenResponses, Responses
  <2>2. m.to = 1 /\ m.from = 2 /\ m.stamp \in Nat
    BY <2>1, PairTypes
  <2>3. ~Handled(m)
    BY <2>1, <2>2, PairTypes DEF Handled
  <2>4. m.stamp + MaxDelay >= now'
    BY <1>1, <2>1, <2>3
  <2>5. m \in Responses'
    BY <1>1, <2>1, <2>3, <2>4 DEF Responses
  <2> QED BY <1>1, <2>2, <2>4, <2>5, PairTypes, RacerPairOptAssumption
<1>5. OpenRequests' \subseteq OpenRequests
  BY <1>1, <1>2 DEF OpenRequests
<1>6. OpenResponses' = OpenResponses
  BY <1>1, <1>2, <1>4 DEF OpenResponses
<1>7. /\ Own(1)' = Own(1) /\ Own(2)' = Own(2) /\ LastAccepted' = LastAccepted
  BY <1>1 DEF Own, LastAccepted
<1>8. ClaimInv'
  BY <1>1, <1>2, <1>7 DEF RoundInv, ClaimInv
<1>9. KnownInv'
  BY <1>1, <1>2, <1>7 DEF RoundInv, KnownInv
<1>10. RequestInv'
  BY <1>1, <1>3, <1>5, <1>7 DEF RoundInv, RequestInv
<1>11. ResponseInv'
  BY <1>1, <1>4, <1>6, <1>7 DEF RoundInv, ResponseInv
<1>12. AppliedInv'
  BY <1>1, <1>6, <1>7 DEF RoundInv, AppliedInv
<1> QED BY <1>6, <1>8, <1>9, <1>10, <1>11, <1>12 DEF RoundInv

LEMMA TransitionRound ==
  ASSUME N = 2, TypeInv, RoundInv, UNCHANGED <<now, initialized, swarm_state, pair_opt,
                                               req_stamp, res_stamp, net>>
  PROVE  RoundInv'
<1>1. /\ Requests' = Requests /\ Responses' = Responses /\ DroneStateMsgs' = DroneStateMsgs
  BY DEF Requests, Responses, DroneStateMsgs
<1>2. Own(1)' = Own(1) /\ Own(2)' = Own(2) /\ LastAccepted' = LastAccepted
  BY DEF Own, LastAccepted
<1>3. ClaimInv'
  BY <1>1, <1>2 DEF RoundInv, ClaimInv
<1> QED BY <1>1, <1>2, <1>3, RoundQuiet

\* Every request is answered in time, every division is complete and explored cells
\* stay explored: what keeps the cells of two drones apart.
Undisturbed ==
  /\ Reliable /\ ~SolverMayFail /\ ~Rediscovery
  /\ AttemptInterval > MaxDelay /\ PairOptInterval > Fresh

LEMMA StepRound ==
  ASSUME N = 2, Undisturbed, TypeInv, ExchangeInv, RoundInv, [Next]_vars
  PROVE  RoundInv'
<1> USE DEF Undisturbed
<1>1. ASSUME NEW d \in Drones,
             OdometryReady(d) \/ triggerCallback(d) \/ TriggeredTooLate(d)
               \/ NoFrontier(d) \/ GoBack(d)
      PROVE  RoundInv'
  BY <1>1, TransitionRound
     DEF OdometryReady, triggerCallback, TriggeredTooLate, NoFrontier, GoBack, Transition
<1>2. ASSUME NEW d \in Drones, NEW seen \in SUBSET Grids, PlanGridTour(d, seen)
      PROVE  RoundInv'
  BY <1>2, PlanRound
<1>3. ASSUME NEW d \in Drones, droneStateTimerCallback(d) PROVE RoundInv'
  BY <1>3, StateTimerRound
<1>4. ASSUME NEW d \in Drones, optTimerCallback(d) PROVE RoundInv'
  BY <1>4, AttemptRound
<1>5. ASSUME NEW d \in Drones, NEW m \in DroneStateMsgs, droneStateMsgCallback(d, m)
      PROVE  RoundInv'
  BY <1>5, StateMsgRound
<1>6. ASSUME NEW d \in Drones, NEW m \in Requests, optMsgCallback(d, m) PROVE RoundInv'
  BY <1>6, AnswerRound
<1>7. ASSUME NEW d \in Drones, NEW m \in Responses, optResMsgCallback(d, m) PROVE RoundInv'
  BY <1>7, ResponseRound
<1>8. CASE Tick
  BY <1>8, TickRound
<1>9. CASE UNCHANGED vars
  BY <1>9, TransitionRound DEF vars
<1> QED BY <1>1, <1>2, <1>3, <1>4, <1>5, <1>6, <1>7, <1>8, <1>9 DEF Next
-----------------------------------------------------------------------------
\* The cells of drone 1 are those of the allocation once it is accepted.
LEMMA EffectiveExact ==
  N = 2 /\ TypeInv /\ RoundInv =>
    /\ Effective(1) = IF \E m \in OpenResponses : m.status = 1 THEN pair_opt[1].ego_ids ELSE Own(1)
    /\ Effective(2) = Own(2)
<1> SUFFICES ASSUME N = 2, TypeInv, RoundInv
             PROVE  /\ Effective(1) = IF \E m \in OpenResponses : m.status = 1
                                      THEN pair_opt[1].ego_ids ELSE Own(1)
                    /\ Effective(2) = Own(2)
  OBVIOUS
<1>1. \A m \in Responses : m.from = 2 /\ m.to = 1 /\ m.stamp \in Nat /\ m.type = "PairOptResponse"
  BY PairTypes DEF Responses
<1>2. ASSUME NEW m \in Responses PROVE ~Handled(m) <=> m \in OpenResponses
  BY <1>1, PairTypes DEF Handled, OpenResponses
<1>3. ASSUME NEW m \in OpenResponses PROVE m \in Responses /\ AnswersPending(1, m)
  BY DEF OpenResponses, RoundInv, ResponseInv, AnswersPending
<1>4. (\E m \in Responses : m.to = 1 /\ m.status = 1 /\ ~Handled(m) /\ AnswersPending(1, m))
        <=> \E m \in OpenResponses : m.status = 1
  BY <1>1, <1>2, <1>3
<1>5. ~(\E m \in Responses : m.to = 2 /\ m.status = 1 /\ ~Handled(m) /\ AnswersPending(2, m))
  BY <1>1
<1> QED BY <1>4, <1>5 DEF Effective

\* The cells owned, as GridOwnership counts them.
Owned == [d \in Drones |-> Effective(d)]

LEMMA OwnedExact ==
  N = 2 /\ TypeInv /\ RoundInv =>
    /\ Owned = [d \in {1, 2} |-> IF d = 1 THEN Effective(1) ELSE Own(2)]
    /\ Effective(1) \subseteq Grids /\ Own(2) \subseteq Grids
<1> SUFFICES ASSUME N = 2, TypeInv, RoundInv
             PROVE  /\ Owned = [d \in {1, 2} |-> IF d = 1 THEN Effective(1) ELSE Own(2)]
                    /\ Effective(1) \subseteq Grids /\ Own(2) \subseteq Grids
  OBVIOUS
<1>1. Drones = {1, 2} /\ Effective(2) = Own(2)
  BY PairTypes, EffectiveExact
<1>2. Owned = [d \in {1, 2} |-> IF d = 1 THEN Effective(1) ELSE Own(2)]
  BY <1>1 DEF Owned
<1>3. Effective(1) \subseteq Grids /\ Own(2) \subseteq Grids
  BY <1>1 DEF Effective, Own, TypeInv, TypeOK, DroneStates
<1> QED BY <1>2, <1>3

LEMMA StepOwnership ==
  ASSUME N = 2, Undisturbed, TypeInv, ExchangeInv, RoundInv, TypeInv', RoundInv', [Next]_vars
  PROVE  [Ownership!Next]_<<Owned, relevant>>
<1> DEFINE Accepted == \E m \in OpenResponses : m.status = 1
<1>1. Drones = {1, 2} /\ Ownership!Drones = {1, 2}
  BY PairTypes DEF Ownership!Drones
<1>2. /\ Effective(1) = IF Accepted THEN pair_opt[1].ego_ids ELSE Own(1)
      /\ Owned = [d \in {1, 2} |-> IF d = 1 THEN Effective(1) ELSE Own(2)]
      /\ Effective(1) \subseteq Grids /\ Own(2) \subseteq Grids
  BY EffectiveExact, OwnedExact
<1>3. /\ Effective(1)' = IF Accepted' THEN pair_opt'[1].ego_ids ELSE Own(1)'
      /\ Owned' = [d \in {1, 2} |-> IF d = 1 THEN Effective(1)' ELSE Own(2)']
      /\ Effective(1)' \subseteq Grids /\ Own(2)' \subseteq Grids
  <2>1. (N = 2 /\ TypeInv /\ RoundInv =>
           /\ Effective(1) = IF Accepted THEN pair_opt[1].ego_ids ELSE Own(1)
           /\ Owned = [d \in {1, 2} |-> IF d = 1 THEN Effective(1) ELSE Own(2)]
           /\ Effective(1) \subseteq Grids /\ Own(2) \subseteq Grids)'
    BY EffectiveExact, OwnedExact, PTL
  <2> QED BY <2>1
<1>4. ASSUME Effective(1)' = Effective(1), Own(2)' = Own(2), relevant' = relevant
      PROVE  UNCHANGED <<Owned, relevant>>
  BY <1>2, <1>3, <1>4
<1>5. (Accepted <=> \E m \in OpenResponses : m.status = 1)
      /\ (Accepted' <=> \E m \in OpenResponses' : m.status = 1)
  OBVIOUS
<1> HIDE DEF Accepted
<1>6. ASSUME UNCHANGED <<swarm_state, pair_opt, res_stamp, net, relevant>>
      PROVE  UNCHANGED <<Owned, relevant>>
  <2>1. Effective(1)' = Effective(1) /\ Own(2)' = Own(2)
    BY <1>6 DEF Effective, Own, AnswersPending, Handled, Responses
  <2> QED BY <1>4, <1>6, <2>1
<1>7. ASSUME NEW d \in Drones, NEW seen \in SUBSET Grids, PlanGridTour(d, seen)
      PROVE  Ownership!Next
  <2>1. /\ seen \subseteq relevant[d]
        /\ initialized[d] => Own(d)' = Own(d) \cap seen
        /\ ~initialized[d] /\ d = 1 => Own(d)' = seen
        /\ ~initialized[d] /\ d # 1 => Own(d)' = Own(d)
    BY <1>7, PlanType, CellsLeftExact DEF Undisturbed, TypeInv
  <2>2. \A f \in Drones : f # d => Own(f)' = Own(f)
    BY <1>7, PlanType DEF Own, TypeInv
  <2>3. UNCHANGED <<pair_opt, res_stamp, net>> /\ relevant' = [relevant EXCEPT ![d] = seen]
    BY <1>7 DEF PlanGridTour
  <2>4. Accepted' <=> Accepted
    BY <1>5, <2>3 DEF OpenResponses, Responses
  <2>5. CASE d = 1 /\ ~initialized[1]
    <3>1. Own(1) = {} /\ Own(2) = {} /\ Responses = {}
      BY <2>5 DEF RoundInv, ClaimInv
    <3>2. ~Accepted
      BY <1>5, <3>1 DEF OpenResponses
    <3>3. Effective(1) = {} /\ Effective(1)' = seen /\ Own(2)' = {}
      BY <1>1, <1>2, <1>3, <2>1, <2>2, <2>4, <2>5, <3>1, <3>2
    <3>4. /\ \A f \in Ownership!Drones : Owned[f] = {}
          /\ Owned' = [Owned EXCEPT ![1] = seen]
      BY <1>1, <1>2, <1>3, <3>1, <3>3
    <3>5. Ownership!Claim(seen)
      BY <2>3, <2>5, <3>4 DEF Ownership!Claim, Owned
    <3> QED BY <3>5 DEF Ownership!Next
  <2>6. CASE d = 1 /\ initialized[1]
    <3>1. Effective(1)' = Effective(1) \/ Effective(1)' = Effective(1) \cap seen
      BY <1>2, <1>3, <2>1, <2>3, <2>4, <2>6
    <3>2. Own(2)' = Own(2)
      BY <1>1, <2>2, <2>6
    <3>3. Owned[1] = Effective(1) /\ Owned' = [Owned EXCEPT ![1] = Effective(1)']
      BY <1>2, <1>3, <3>2
    <3>4. Ownership!Explore(1, seen, Effective(1)')
      BY <2>1, <2>3, <2>6, <3>1, <3>3 DEF Ownership!Explore, Owned
    <3> QED BY <1>1, <1>3, <3>4 DEF Ownership!Next
  <2>7. CASE d = 2
    <3>1. Own(2)' = Own(2) \/ Own(2)' = Own(2) \cap seen
      BY <1>1, <2>1, <2>7
    <3>2. Effective(1)' = Effective(1)
      BY <1>1, <1>2, <1>3, <2>2, <2>3, <2>4, <2>7
    <3>3. Owned[2] = Own(2) /\ Owned' = [Owned EXCEPT ![2] = Own(2)']
      BY <1>2, <1>3, <3>2
    <3>4. Ownership!Explore(2, seen, Own(2)')
      BY <2>1, <2>3, <2>7, <3>1, <3>3 DEF Ownership!Explore, Owned
    <3> QED BY <1>1, <1>3, <3>4 DEF Ownership!Next
  <2> QED BY <1>1, <2>5, <2>6, <2>7
<1>8. ASSUME NEW d \in Drones, droneStateTimerCallback(d) PROVE UNCHANGED <<Owned, relevant>>
  <2>1. Own(1)' = Own(1) /\ Own(2)' = Own(2)
    BY <1>1, <1>8, StateTimerType DEF Own, TypeInv
  <2>2. Responses' = Responses
    BY <1>8, StateTimerType DEF Responses, TypeInv, droneStateTimerCallback
  <2>3. UNCHANGED <<pair_opt, res_stamp, relevant>>
    BY <1>8 DEF droneStateTimerCallback
  <2>4. Accepted' <=> Accepted
    BY <1>5, <2>2, <2>3 DEF OpenResponses
  <2> QED BY <1>2, <1>3, <1>4, <2>1, <2>3, <2>4
<1>9. ASSUME NEW d \in Drones, NEW m \in DroneStateMsgs, droneStateMsgCallback(d, m)
      PROVE  UNCHANGED <<Owned, relevant>>
  <2>1. Own(1)' = Own(1) /\ Own(2)' = Own(2)
    BY <1>1, <1>9, StateMsgType DEF Own, TypeInv
  <2>2. Responses' = Responses
    BY <1>9 DEF Responses, DroneStateMsgs, droneStateMsgCallback
  <2>3. UNCHANGED <<pair_opt, res_stamp, relevant>>
    BY <1>9 DEF droneStateMsgCallback
  <2>4. Accepted' <=> Accepted
    BY <1>5, <2>2, <2>3 DEF OpenResponses
  <2> QED BY <1>2, <1>3, <1>4, <2>1, <2>3, <2>4
<1>10. ASSUME NEW d \in Drones, optTimerCallback(d) PROVE UNCHANGED <<Owned, relevant>>
  <2>1. OpenResponses = {} /\ OpenResponses' = {}
    BY <1>10, AttemptRound DEF Undisturbed
  <2>2. Own(1)' = Own(1) /\ Own(2)' = Own(2)
    BY <1>1, <1>10, OptTimerType DEF Own, TypeInv
  <2>3. relevant' = relevant
    BY <1>10 DEF optTimerCallback
  <2>4. ~Accepted /\ ~Accepted'
    BY <1>5, <2>1
  <2> QED BY <1>2, <1>3, <1>4, <2>2, <2>3, <2>4
<1>11. ASSUME NEW d \in Drones, NEW m \in Requests, optMsgCallback(d, m)
       PROVE  Ownership!Next \/ UNCHANGED <<Owned, relevant>>
  <2>1. /\ d = 2 /\ m \in OpenRequests /\ OpenResponses = {}
        /\ RejectRequest(d, m) => \A r \in OpenResponses' : r.status = 2
        /\ AcceptRequest(d, m) => \E r \in OpenResponses' : r.status = 1
    BY <1>11, AnswerRound
  <2>2. UNCHANGED <<relevant, pair_opt>> /\ (RejectRequest(2, m) \/ AcceptRequest(2, m)) /\ m.to = 2
    BY <1>11, <2>1 DEF optMsgCallback
  <2>3. ~Accepted
    BY <1>5, <2>1
  <2>4. CASE RejectRequest(2, m)
    <3>1. Own(1)' = Own(1) /\ Own(2)' = Own(2)
      BY <2>4 DEF RejectRequest, Own
    <3>2. ~Accepted'
      BY <1>5, <2>1, <2>4
    <3> QED BY <1>2, <1>3, <1>4, <2>2, <2>3, <3>1, <3>2
  <2>5. CASE AcceptRequest(2, m)
    <3>1. Own(2)' = m.other_ids
      BY <2>1, <2>2, <2>5, AcceptEffect DEF Own, TypeInv
    <3>2. /\ pair_opt[1].ego_ids = m.ego_ids
          /\ m.ego_ids \cap m.other_ids = {}
          /\ Own(1) \subseteq m.ego_ids \cup m.other_ids
          /\ Own(2) \subseteq m.ego_ids \cup m.other_ids
      BY <2>1 DEF RoundInv, RequestInv
    <3>3. Effective(1) = Own(1) /\ Effective(1)' = m.ego_ids
      BY <1>2, <1>3, <1>5, <2>1, <2>2, <2>3, <2>5, <3>2
    <3>4. Owned[1] = Own(1) /\ Owned[2] = Own(2)
          /\ Owned' = [Owned EXCEPT ![1] = m.ego_ids, ![2] = m.other_ids]
      BY <1>2, <1>3, <3>1, <3>3
    <3>5. Ownership!OwnedByThird(1, 2) = {}
      BY <1>1 DEF Ownership!OwnedByThird
    <3>6. Ownership!Exchange(1, 2, m.ego_ids, m.other_ids)
      BY <2>2, <3>2, <3>4, <3>5 DEF Ownership!Exchange, Owned
    <3>7. m.ego_ids \subseteq Grids /\ m.other_ids \subseteq Grids
      BY <1>3, <3>1, <3>3
    <3> QED BY <1>1, <3>6, <3>7 DEF Ownership!Next
  <2> QED BY <2>2, <2>4, <2>5
<1>12. ASSUME NEW d \in Drones, NEW m \in Responses, optResMsgCallback(d, m)
       PROVE  UNCHANGED <<Owned, relevant>>
  <2>1. /\ m \in OpenResponses /\ OpenResponses' = {}
        /\ \A r \in OpenResponses : r.status = m.status
        /\ m.status = 1 => Own(1)' = pair_opt[1].ego_ids
        /\ m.status # 1 => Own(1)' = Own(1)
        /\ Own(2)' = Own(2)
    BY <1>12, ResponseRound
  <2>2. relevant' = relevant
    BY <1>12 DEF optResMsgCallback
  <2>3. ~Accepted' /\ (Accepted <=> m.status = 1)
    BY <1>5, <2>1
  <2> QED BY <1>2, <1>3, <1>4, <2>1, <2>2, <2>3
<1>13. CASE Tick
  <2>1. OpenResponses' = OpenResponses
    BY <1>13, TickRound DEF Undisturbed
  <2>2. UNCHANGED <<relevant, swarm_state, pair_opt>>
    BY <1>13 DEF Tick
  <2>3. Own(1)' = Own(1) /\ Own(2)' = Own(2) /\ (Accepted' <=> Accepted)
    BY <1>5, <2>1, <2>2 DEF Own
  <2> QED BY <1>2, <1>3, <1>4, <2>2, <2>3
<1>14. ASSUME NEW d \in Drones,
              OdometryReady(d) \/ triggerCallback(d) \/ TriggeredTooLate(d)
                \/ NoFrontier(d) \/ GoBack(d)
       PROVE  UNCHANGED <<Owned, relevant>>
  BY <1>6, <1>14 DEF OdometryReady, triggerCallback, TriggeredTooLate, NoFrontier, GoBack, Transition
<1>15. CASE UNCHANGED vars
  BY <1>6, <1>15 DEF vars
<1> QED BY <1>7, <1>8, <1>9, <1>10, <1>11, <1>12, <1>13, <1>14, <1>15 DEF Next

LEMMA InitOwnership ==
  ASSUME Init
  PROVE  /\ Owned = [d \in Ownership!Drones |-> {}]
         /\ relevant = [d \in Ownership!Drones |-> Grids]
<1>1. Ownership!Drones = Drones
  BY DEF Ownership!Drones, Drones
<1>2. \A d \in Drones : Effective(d) = {}
  BY DEF Init, Effective, Own, Responses
<1> QED BY <1>1, <1>2 DEF Init, Owned

\* Two drones keep the cells apart: when every request is answered before the next
\* attempt, no solver fails and the age up to which a state counts as recent is less
\* than the interval between two interactions, cells change hands as GridOwnership says.
THEOREM OwnershipCorrect ==
  ASSUME N = 2, Reliable, ~SolverMayFail, ~Rediscovery,
         AttemptInterval > MaxDelay, PairOptInterval > Fresh
  PROVE  Spec => OwnershipImplemented
<1>1. Undisturbed
  BY DEF Undisturbed
<1>2. Init => Ownership!Init
  BY InitOwnership DEF Ownership!Init, Owned
<1>3. Init => RoundInv
  BY InitRound
<1>4. TypeInv /\ ExchangeInv /\ RoundInv /\ [Next]_vars => RoundInv'
  BY <1>1, StepRound
<1>5. TypeInv /\ ExchangeInv /\ RoundInv /\ TypeInv' /\ RoundInv' /\ [Next]_vars
        => [Ownership!Next]_<<[d \in Drones |-> Effective(d)], relevant>>
  BY <1>1, StepOwnership DEF Owned
<1> QED BY <1>2, <1>3, <1>4, <1>5, InitType, StepType, InitExchange, StepExchange, PTL
        DEF Spec, OwnershipImplemented, Ownership!Spec

\* No cell has two owners.
OneOwner == \A d, e \in Drones : d # e => Effective(d) \cap Effective(e) = {}

LEMMA StepOneOwner ==
  ASSUME OneOwner, [Ownership!Next]_<<Owned, relevant>>
  PROVE  OneOwner'
<1>1. /\ DOMAIN Owned = Drones /\ \A d \in Drones : Owned[d] = Effective(d)
      /\ \A d \in Drones : Owned'[d] = Effective(d)'
      /\ Owned = [d \in Drones |-> Owned[d]]
  BY DEF Owned
<1>2. Ownership!Drones = Drones
  BY DEF Ownership!Drones, Drones
<1>3. \A d, e \in Drones : d # e => Owned[d] \cap Owned[e] = {}
  BY <1>1 DEF OneOwner
<1>4. SUFFICES \A d, e \in Drones : d # e => Owned'[d] \cap Owned'[e] = {}
  BY <1>1 DEF OneOwner
<1>5. ASSUME NEW seen \in SUBSET Grids, Ownership!Claim(seen)
      PROVE  \A d, e \in Drones : d # e => Owned'[d] \cap Owned'[e] = {}
  <2>1. (\A d \in Drones : Owned[d] = {}) /\ Owned' = [Owned EXCEPT ![1] = seen]
    BY <1>2, <1>5 DEF Ownership!Claim, Owned
  <2> QED BY <1>1, <2>1
<1>6. ASSUME NEW f \in Drones, NEW seen \in SUBSET Grids, NEW left \in SUBSET Grids,
             Ownership!Explore(f, seen, left)
      PROVE  \A d, e \in Drones : d # e => Owned'[d] \cap Owned'[e] = {}
  <2>1. left \subseteq Owned[f] /\ Owned' = [Owned EXCEPT ![f] = left]
    BY <1>6 DEF Ownership!Explore, Owned
  <2> QED BY <1>1, <1>3, <2>1
<1>7. ASSUME NEW f \in Drones, NEW g \in Drones,
             NEW ego \in SUBSET Grids, NEW other \in SUBSET Grids,
             Ownership!Exchange(f, g, ego, other)
      PROVE  \A d, e \in Drones : d # e => Owned'[d] \cap Owned'[e] = {}
  <2>1. /\ f # g /\ ego \cap other = {}
        /\ (ego \cup other) \cap Ownership!OwnedByThird(f, g) = {}
        /\ Owned' = [Owned EXCEPT ![f] = ego, ![g] = other]
    BY <1>7 DEF Ownership!Exchange, Owned, Drones
  <2>2. \A h \in Drones \ {f, g} : Owned[h] \cap (ego \cup other) = {}
    <3>1. \A h \in Drones \ {f, g} : Owned[h] \subseteq Ownership!OwnedByThird(f, g)
      BY <1>1, <1>2 DEF Ownership!OwnedByThird
    <3> QED BY <2>1, <3>1
  <2>3. /\ Owned'[f] = ego /\ Owned'[g] = other
        /\ \A h \in Drones \ {f, g} : Owned'[h] = Owned[h]
    BY <1>1, <2>1
  <2> TAKE d, e \in Drones
  <2>4. CASE d \in {f, g} /\ e \in {f, g}
    BY <2>1, <2>3, <2>4
  <2>5. CASE d \in {f, g} /\ e \notin {f, g}
    BY <2>2, <2>3, <2>5
  <2>6. CASE d \notin {f, g} /\ e \in {f, g}
    BY <2>2, <2>3, <2>6
  <2>7. CASE d \notin {f, g} /\ e \notin {f, g}
    BY <1>3, <2>3, <2>7
  <2> QED BY <2>4, <2>5, <2>6, <2>7
<1>8. CASE UNCHANGED <<Owned, relevant>>
  BY <1>3, <1>8
<1> QED BY <1>2, <1>5, <1>6, <1>7, <1>8 DEF Ownership!Next

\* Under the same conditions no cell has two owners, wherever the messages of an
\* exchange are.
THEOREM OneOwnerCorrect ==
  ASSUME N = 2, Reliable, ~SolverMayFail, ~Rediscovery,
         AttemptInterval > MaxDelay, PairOptInterval > Fresh
  PROVE  Spec => []OneOwner
<1>1. Undisturbed
  BY DEF Undisturbed
<1>2. Init => OneOwner
  <2> SUFFICES ASSUME Init PROVE OneOwner
    OBVIOUS
  <2>1. \A d \in Drones : Effective(d) = {}
    BY DEF Init, Effective, Own, Responses
  <2> QED BY <2>1 DEF OneOwner
<1>3. Init => RoundInv
  BY InitRound
<1>4. TypeInv /\ ExchangeInv /\ RoundInv /\ [Next]_vars => RoundInv'
  BY <1>1, StepRound
<1>5. TypeInv /\ ExchangeInv /\ RoundInv /\ TypeInv' /\ RoundInv' /\ OneOwner /\ [Next]_vars
        => OneOwner'
  BY <1>1, StepOwnership, StepOneOwner
<1> QED BY <1>2, <1>3, <1>4, <1>5, InitType, StepType, InitExchange, StepExchange, PTL DEF Spec

\* Whatever drone d accepts or applies in this step covers all that it owned.
Covered(d) ==
  /\ \A m \in Requests :
       m.to = d /\ req_stamp[d][m.from] < m.stamp /\ req_stamp'[d][m.from] = m.stamp =>
         Own(d) \subseteq Own(d)' \cup m.ego_ids
  /\ pair_opt[d].wait_response /\ ~pair_opt'[d].wait_response =>
       Own(d) \subseteq Own(d)' \cup pair_opt[d].other_ids

\* Where neither stamps nor the pending allocation change, no exchange takes place;
\* where a request is accepted or a response applied, its allocation covers all that
\* the drone owned.
LEMMA StepConsistent ==
  ASSUME N = 2, Undisturbed, TypeInv, ExchangeInv, RoundInv, [Next]_vars, NEW d \in Drones
  PROVE  Covered(d)
<1> USE DEF Covered
<1>1. Drones = {1, 2} /\ \A m \in Requests : m.from = 1 /\ m.to = 2 /\ m.stamp \in Nat
  BY PairTypes
<1>2. ASSUME req_stamp' = req_stamp,
             pair_opt'[d].wait_response \/ pair_opt'[d] = pair_opt[d]
      PROVE  Covered(d)
  <2>1. ASSUME NEW m \in Requests, m.to = d, req_stamp[d][m.from] < m.stamp,
               req_stamp'[d][m.from] = m.stamp
        PROVE  FALSE
    BY <1>1, <1>2, <2>1
  <2> QED BY <1>2, <2>1
<1>3. ASSUME UNCHANGED <<req_stamp, pair_opt>> PROVE Covered(d)
  BY <1>2, <1>3
<1>4. ASSUME NEW f \in Drones, optTimerCallback(f) PROVE Covered(d)
  <2>1. req_stamp' = req_stamp
    BY <1>4 DEF optTimerCallback
  <2>2. f = 1
    BY <1>4, AttemptRound DEF Undisturbed
  <2>3. pair_opt'[1].wait_response
    <3>1. PICK e \in Drones, ego, other \in SUBSET Grids :
            pair_opt'[f] = [ego_ids |-> ego, other_ids |-> other,
                            stamp |-> now, wait_response |-> TRUE]
      BY <1>4, OptTimerDivides DEF Undisturbed
    <3> QED BY <2>2, <3>1
  <2>4. \A e \in Drones \ {f} : pair_opt'[e] = pair_opt[e]
    BY <1>4, OptTimerType DEF TypeInv
  <2> QED BY <1>1, <1>2, <2>1, <2>2, <2>3, <2>4
<1>5. ASSUME NEW f \in Drones, NEW q \in Requests, optMsgCallback(f, q) PROVE Covered(d)
  <2>1. f = 2 /\ q \in OpenRequests /\ q.to = 2
    BY <1>1, <1>5, AnswerRound
  <2>2. pair_opt' = pair_opt /\ req_stamp' = [req_stamp EXCEPT ![2][1] = q.stamp]
    BY <1>1, <1>5, <2>1 DEF optMsgCallback
  <2>3. Own(2) \subseteq Own(2)' \cup q.ego_ids
    <3>1. CASE RejectRequest(2, q)
      BY <3>1 DEF RejectRequest, Own
    <3>2. CASE AcceptRequest(2, q)
      <4>1. Own(2)' = q.other_ids
        BY <1>1, <2>1, <3>2, AcceptEffect DEF Own, TypeInv
      <4>2. Own(2) \subseteq q.ego_ids \cup q.other_ids
        BY <2>1 DEF RoundInv, RequestInv
      <4> QED BY <4>1, <4>2
    <3> QED BY <1>5, <2>1, <3>1, <3>2 DEF optMsgCallback
  <2>4. ASSUME NEW m \in Requests, m.to = d, req_stamp[d][m.from] < m.stamp
        PROVE  Own(d) \subseteq Own(d)' \cup m.ego_ids
    <3>1. d = 2 /\ m \in OpenRequests
      BY <1>1, <2>4, PairTypes DEF OpenRequests
    <3>2. m.ego_ids = q.ego_ids
      BY <2>1, <3>1 DEF RoundInv, RequestInv
    <3> QED BY <2>3, <3>1, <3>2
  <2> QED BY <2>2, <2>4
<1>6. ASSUME NEW f \in Drones, NEW r \in Responses, optResMsgCallback(f, r) PROVE Covered(d)
  <2>1. f = 1 /\ r \in OpenResponses /\ req_stamp' = req_stamp
        /\ (r.status = 1 => Own(1)' = pair_opt[1].ego_ids)
        /\ (r.status # 1 => Own(1)' = Own(1))
    BY <1>6, ResponseRound DEF optResMsgCallback
  <2>2. Own(1) \subseteq pair_opt[1].ego_ids \cup pair_opt[1].other_ids
    BY <2>1 DEF RoundInv, ResponseInv
  <2>3. CASE d = 1
    <3>1. Own(1) \subseteq Own(1)' \cup pair_opt[1].other_ids
      BY <2>1, <2>2
    <3> QED BY <1>1, <2>3, <3>1
  <2>4. CASE d = 2
    <3>1. pair_opt'[2] = pair_opt[2]
      BY <1>1, <1>6, <2>1 DEF optResMsgCallback, TypeInv, TypeOK
    <3> QED BY <1>2, <2>1, <2>4, <3>1
  <2> QED BY <1>1, <2>3, <2>4
<1>7. ASSUME NEW f \in Drones,
             OdometryReady(f) \/ triggerCallback(f) \/ TriggeredTooLate(f)
               \/ NoFrontier(f) \/ GoBack(f)
      PROVE  Covered(d)
  BY <1>3, <1>7 DEF OdometryReady, triggerCallback, TriggeredTooLate, NoFrontier, GoBack, Transition
<1>8. ASSUME NEW f \in Drones, NEW seen \in SUBSET Grids, PlanGridTour(f, seen) PROVE Covered(d)
  BY <1>3, <1>8 DEF PlanGridTour
<1>9. ASSUME NEW f \in Drones, droneStateTimerCallback(f) PROVE Covered(d)
  BY <1>3, <1>9 DEF droneStateTimerCallback
<1>10. ASSUME NEW f \in Drones, NEW m \in DroneStateMsgs, droneStateMsgCallback(f, m)
       PROVE  Covered(d)
  BY <1>3, <1>10 DEF droneStateMsgCallback
<1>11. CASE Tick
  BY <1>3, <1>11 DEF Tick
<1>12. CASE UNCHANGED vars
  BY <1>3, <1>12 DEF vars
<1> HIDE DEF Covered
<1>13. CASE Next
  <2>1. ASSUME NEW f \in Drones,
               \/ OdometryReady(f) \/ triggerCallback(f) \/ TriggeredTooLate(f)
               \/ NoFrontier(f) \/ GoBack(f)
               \/ \E seen \in SUBSET Grids : PlanGridTour(f, seen)
               \/ droneStateTimerCallback(f) \/ optTimerCallback(f)
               \/ \E m \in DroneStateMsgs : droneStateMsgCallback(f, m)
               \/ \E m \in Requests : optMsgCallback(f, m)
               \/ \E m \in Responses : optResMsgCallback(f, m)
        PROVE  Covered(d)
    BY <1>4, <1>5, <1>6, <1>7, <1>8, <1>9, <1>10, <2>1
  <2> QED BY <1>11, <1>13, <2>1 DEF Next
<1>14. Covered(d)
  BY <1>12, <1>13
<1> QED BY <1>14

\* Only a solver that fails, or an answer that comes after the next attempt, makes the
\* drones disagree: otherwise what is accepted and applied covers all that two drones own.
THEOREM ConsistentExchangeCorrect ==
  ASSUME N = 2, Reliable, ~SolverMayFail, ~Rediscovery,
         AttemptInterval > MaxDelay, PairOptInterval > Fresh
  PROVE  Spec => ConsistentExchange
<1>1. Undisturbed
  BY DEF Undisturbed
<1>2. Init => RoundInv
  BY InitRound
<1>3. TypeInv /\ ExchangeInv /\ RoundInv /\ [Next]_vars => RoundInv'
  BY <1>1, StepRound
<1>4. TypeInv /\ ExchangeInv /\ RoundInv /\ [Next]_vars =>
        [\A d \in Drones :
           /\ \A m \in Requests :
                m.to = d /\ req_stamp[d][m.from] < m.stamp /\ req_stamp'[d][m.from] = m.stamp =>
                  Own(d) \subseteq Own(d)' \cup m.ego_ids
           /\ pair_opt[d].wait_response /\ ~pair_opt'[d].wait_response =>
                Own(d) \subseteq Own(d)' \cup pair_opt[d].other_ids]_vars
  BY <1>1, StepConsistent DEF Covered
<1> QED BY <1>2, <1>3, <1>4, InitType, StepType, InitExchange, StepExchange, PTL
        DEF Spec, ConsistentExchange
=============================================================================
