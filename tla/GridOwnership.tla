--------------------------- MODULE GridOwnership ----------------------------
(***************************************************************************)
(* What the pairwise allocation of RACER promises: every grid cell has at   *)
(* most one owner; a pair of drones exchanges cells in one step, without    *)
(* losing any of theirs and without touching those of a third drone; and a  *)
(* drone gives up a cell in no other way than by exploring it.               *)
(***************************************************************************)
EXTENDS Integers

CONSTANTS N, Grids        \* drones are 1 .. N, as in the code

VARIABLES
  owned,                  \* owned[d]: the cells of drone d
  relevant                \* relevant[d]: the cells d has not seen explored

Drones == 1 .. N

Init ==
  /\ owned = [d \in Drones |-> {}]
  /\ relevant = [d \in Drones |-> Grids]

OwnedByThird(d, e) == UNION {owned[f] : f \in Drones \ {d, e}}

\* Drone 1 takes the whole space, before anybody owns any of it.
Claim(seen) ==
  /\ \A d \in Drones : owned[d] = {}
  /\ owned' = [owned EXCEPT ![1] = seen]
  /\ relevant' = [relevant EXCEPT ![1] = seen]

\* Explored cells may be given up; they do not become relevant again.
Explore(d, seen, left) ==
  /\ seen \subseteq relevant[d]
  /\ owned[d] \cap seen \subseteq left
  /\ left \subseteq owned[d]
  /\ owned' = [owned EXCEPT ![d] = left]
  /\ relevant' = [relevant EXCEPT ![d] = seen]

Exchange(d, e, ego, other) ==
  /\ d < e
  /\ ego \cap other = {}
  /\ owned[d] \cup owned[e] \subseteq ego \cup other
  /\ (ego \cup other) \cap OwnedByThird(d, e) = {}
  /\ owned' = [owned EXCEPT ![d] = ego, ![e] = other]
  /\ UNCHANGED relevant

Next ==
  \/ \E seen \in SUBSET Grids : Claim(seen)
  \/ \E d \in Drones, seen, left \in SUBSET Grids : Explore(d, seen, left)
  \/ \E d, e \in Drones, ego, other \in SUBSET Grids : Exchange(d, e, ego, other)

Spec == Init /\ [][Next]_<<owned, relevant>>
=============================================================================
