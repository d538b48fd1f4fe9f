---------------------------- MODULE ChunkGossip -----------------------------
(***************************************************************************)
(* What the multi-map manager of RACER promises.  Each drone cuts its own   *)
(* map into chunks, numbered without gaps.  What a chunk contains is        *)
(* settled once, by its owner; the others only ever hold settled chunks, as *)
(* the owner settled them, and nothing held is lost or changed.             *)
(***************************************************************************)
EXTENDS Naturals

CONSTANTS
  Drones,
  Ids,                    \* numbers of chunks
  Occ,                    \* what a chunk may contain
  Nothing,                \* not held
  Unsettled               \* held by the owner, contents still open

\* What the theorems assume of the constants.
GossipAssumption ==
  /\ Ids \subseteq Nat \ {0}
  /\ Nothing # Unsettled
  /\ Nothing \notin Occ
  /\ Unsettled \notin Occ

VARIABLE held             \* held[d][s][i]: what d holds as chunk i of s

Maps == [Drones -> [Drones -> [Ids -> Occ \cup {Nothing, Unsettled}]]]

Init == held = [d \in Drones |-> [s \in Drones |-> [i \in Ids |-> Nothing]]]

\* The chunks of s at d that the step changes.
Changed(d, s) == {i \in Ids : held'[d][s][i] # held[d][s][i]}

\* What d holds changes, and nothing else.
Only(d) ==
  /\ held'[d] # held[d]
  /\ held' \in Maps
  /\ \A e \in Drones \ {d} : held'[e] = held[e]

\* The owner appends chunks without leaving gaps.
Insert(d) ==
  /\ Only(d)
  /\ \A s \in Drones \ {d} : Changed(d, s) = {}
  /\ \A i \in Changed(d, d) : held[d][d][i] = Nothing /\ held'[d][d][i] = Unsettled
  /\ \A i, j \in Ids : i <= j /\ held'[d][d][j] # Nothing => held'[d][d][i] # Nothing

\* The owner settles some chunks.
Settle(d) ==
  /\ Only(d)
  /\ \A s \in Drones \ {d} : Changed(d, s) = {}
  /\ \A i \in Changed(d, d) : held[d][d][i] = Unsettled /\ held'[d][d][i] \in Occ

\* Another drone learns some settled chunks, of one or of several owners.
Learn(d) ==
  /\ Only(d)
  /\ Changed(d, d) = {}
  /\ \A s \in Drones \ {d} : \A i \in Changed(d, s) :
       /\ held[d][s][i] = Nothing
       /\ held[s][s][i] \in Occ
       /\ held'[d][s][i] = held[s][s][i]

Next == \E d \in Drones : Insert(d) \/ Settle(d) \/ Learn(d)

Spec == Init /\ [][Next]_held
-----------------------------------------------------------------------------
HeldType == held \in Maps

\* What a drone holds of another is what the owner holds, and it is settled.
HeldAsSettled ==
  \A d, s \in Drones, i \in Ids :
    d # s /\ held[d][s][i] # Nothing =>
      held[d][s][i] \in Occ /\ held[d][s][i] = held[s][s][i]

\* The chunks of a drone are numbered without gaps.
OwnWithoutGaps ==
  \A d \in Drones, i, j \in Ids :
    held[d][d][j] # Nothing /\ i <= j => held[d][d][i] # Nothing

\* A step never takes a chunk from a drone, nor changes a settled one.
NothingLost ==
  \A d, s \in Drones, i \in Ids :
    /\ held[d][s][i] # Nothing => held'[d][s][i] # Nothing
    /\ held[d][s][i] \in Occ => held'[d][s][i] = held[d][s][i]
=============================================================================
