--------------------------- MODULE MCRacerPairOpt ---------------------------
(***************************************************************************)
(* RacerPairOpt with interchangeable cells.  The drone of highest id never  *)
(* sends a request, so that what it knows of the others does not matter:    *)
(* RelevantPart leaves it out of the states that TLC tells apart.           *)
(***************************************************************************)
EXTENDS RacerPairOpt, TLC

GridSymmetry == Permutations(Grids)

ForLast(m) == m.type = "DroneState" /\ m.to = N

RelevantPart ==
  <<now, state, initialized, relevant, pair_opt, req_stamp, res_stamp,
    {m \in net : ~ForLast(m)}, swarm_state[N][N], [d \in 1 .. N - 1 |-> swarm_state[d]]>>
=============================================================================
