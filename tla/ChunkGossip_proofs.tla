------------------------- MODULE ChunkGossip_proofs -------------------------
(***************************************************************************)
(* What follows from the promise of the multi-map manager, for any number   *)
(* of drones and of chunks.                                                 *)
(***************************************************************************)
EXTENDS ChunkGossip, TLAPS

\* A step leaves the held chunks well typed.
LEMMA HeldTyped == Spec => []HeldType
<1>1. Init => HeldType
  BY DEF Init, HeldType, Maps
<1>2. HeldType /\ [Next]_held => HeldType'
  BY DEF HeldType, Next, Insert, Settle, Learn, Only
<1>3. QED
  BY <1>1, <1>2, PTL DEF Spec

\* Only the owner's step changes its own chunks, and it does not change settled ones.
LEMMA SettledStays ==
  ASSUME GossipAssumption, HeldType, NEW d \in Drones, Insert(d) \/ Settle(d) \/ Learn(d),
         NEW e \in Drones, NEW s \in Drones, NEW i \in Ids
  PROVE  /\ held[e][s][i] # Nothing => held'[e][s][i] # Nothing
         /\ held[e][s][i] \in Occ => held'[e][s][i] = held[e][s][i]
<1> USE DEF GossipAssumption
<1>1. CASE e # d
  BY <1>1 DEF Insert, Settle, Learn, Only
<1>2. CASE e = d /\ Insert(d)
  BY <1>2 DEF Insert, Only, Changed
<1>3. CASE e = d /\ Settle(d)
  BY <1>3 DEF Settle, Only, Changed
<1>4. CASE e = d /\ Learn(d)
  BY <1>4 DEF Learn, Only, Changed
<1>5. QED
  BY <1>1, <1>2, <1>3, <1>4

\* Nothing held is lost or changed, by any drone's step.
THEOREM NothingLostCorrect ==
  ASSUME GossipAssumption PROVE Spec => [][NothingLost]_held
<1>1. HeldType /\ [Next]_held => [NothingLost]_held
  BY SettledStays DEF Next, NothingLost
<1>2. QED
  BY <1>1, HeldTyped, PTL DEF Spec

\* All copies of a chunk have the contents its owner settled.
THEOREM HeldAsSettledCorrect ==
  ASSUME GossipAssumption PROVE Spec => []HeldAsSettled
<1> USE DEF GossipAssumption
<1>1. Init => HeldAsSettled
  BY DEF Init, HeldAsSettled
<1>2. HeldType /\ HeldAsSettled /\ [Next]_held => HeldAsSettled'
  <2> SUFFICES ASSUME HeldType, HeldAsSettled, [Next]_held,
                      NEW e \in Drones, NEW s \in Drones, NEW i \in Ids,
                      e # s, held'[e][s][i] # Nothing
               PROVE  held'[e][s][i] \in Occ /\ held'[e][s][i] = held'[s][s][i]
    BY DEF HeldAsSettled
  <2>1. CASE UNCHANGED held
    BY <2>1 DEF HeldAsSettled
  <2>2. ASSUME NEW d \in Drones, Insert(d) \/ Settle(d) \/ Learn(d)
        PROVE  held'[e][s][i] \in Occ /\ held'[e][s][i] = held'[s][s][i]
    <3>1. CASE held[e][s][i] # Nothing
      <4>1. held[e][s][i] \in Occ /\ held[e][s][i] = held[s][s][i]
        BY <3>1 DEF HeldAsSettled
      <4>2. QED
        BY <4>1, <2>2, SettledStays
    <3>2. CASE held[e][s][i] = Nothing
      <4>1. Learn(d) /\ e = d
        BY <3>2, <2>2, SMTT(30) DEF Insert, Settle, Learn, Only, Changed
      <4>2. held[s][s][i] \in Occ /\ held'[e][s][i] = held[s][s][i]
        BY <4>1, <3>2 DEF Learn, Changed
      <4>3. QED
        BY <4>2, <2>2, SettledStays
    <3>3. QED
      BY <3>1, <3>2
  <2>3. QED
    BY <2>1, <2>2 DEF Next
<1>3. QED
  BY <1>1, <1>2, HeldTyped, PTL DEF Spec

\* The chunks of a drone are numbered without gaps.
THEOREM OwnWithoutGapsCorrect ==
  ASSUME GossipAssumption PROVE Spec => []OwnWithoutGaps
<1> USE DEF GossipAssumption
<1>1. Init => OwnWithoutGaps
  BY DEF Init, OwnWithoutGaps
<1>2. HeldType /\ OwnWithoutGaps /\ [Next]_held => OwnWithoutGaps'
  <2> SUFFICES ASSUME HeldType, OwnWithoutGaps, [Next]_held,
                      NEW e \in Drones, NEW i \in Ids, NEW j \in Ids,
                      held'[e][e][j] # Nothing, i <= j
               PROVE  held'[e][e][i] # Nothing
    BY DEF OwnWithoutGaps
  <2>1. CASE UNCHANGED held
    BY <2>1 DEF OwnWithoutGaps
  <2>2. ASSUME NEW d \in Drones, Insert(d) \/ Settle(d) \/ Learn(d)
        PROVE  held'[e][e][i] # Nothing
    <3>1. CASE e = d /\ Insert(d)
      BY <3>1 DEF Insert
    <3>2. CASE e # d \/ Settle(d) \/ Learn(d)
      <4>1. held[e][e][j] # Nothing
        BY <3>2, <2>2 DEF Insert, Settle, Learn, Only, Changed
      <4>2. held[e][e][i] # Nothing
        BY <4>1 DEF OwnWithoutGaps
      <4>3. QED
        BY <4>2, <2>2, SettledStays
    <3>3. QED
      BY <3>1, <3>2, <2>2
  <2>3. QED
    BY <2>1, <2>2 DEF Next
<1>3. QED
  BY <1>1, <1>2, HeldTyped, PTL DEF Spec
=============================================================================
