------------------------ MODULE SwarmStartup_proofs -------------------------
(* Proofs about the startup chain, for a swarm of any size and any number   *)
(* of lost messages, restarts and repeated tours.                           *)
EXTENDS SwarmStartup, TLAPS

-----------------------------------------------------------------------------
(* Chains.                                                                 *)

LEMMA PrefixLength ==
  ASSUME NEW n \in Nat
  PROVE  Prefix(n) \in Seq(Nat) /\ Len(Prefix(n)) = n
BY DEF Prefix

LEMMA PrefixType ==
  ASSUME NEW d \in Drones
  PROVE  Prefix(d) \in Seq(Drones) /\ Prefix(d + 1) \in Seq(Drones)
BY SwarmStartupAssumption DEF Prefix, Drones, SwarmStartupAssumption

LEMMA PrefixEmpty == Prefix(0) = <<>>
BY DEF Prefix

\* A drone that holds its predecessors' trajectories, or these and its own,
\* sends them with its own.
LEMMA OwnCompletes ==
  ASSUME NEW d \in Drones, chain[d] \in {Prefix(d), Prefix(d + 1)}
  PROVE  ChainWithOwn(d) = Prefix(d + 1)
<1>0. d \in Nat
  BY DEF Drones
<1>1. CASE chain[d] = Prefix(d)
  <2>1. Append(Prefix(d), d) = Prefix(d + 1)
    BY <1>0 DEF Prefix
  <2> QED
    BY <1>0, <1>1, <2>1, PrefixLength DEF ChainWithOwn
<1>2. CASE chain[d] = Prefix(d + 1)
  <2>1. [Prefix(d + 1) EXCEPT ![d + 1] = d] = Prefix(d + 1)
    BY <1>0 DEF Prefix
  <2> QED
    BY <1>0, <1>2, <2>1, PrefixLength DEF ChainWithOwn
<1> QED
  BY <1>1, <1>2

-----------------------------------------------------------------------------
(* The inductive invariant.                                                *)

\* Drones start in order and hear only from predecessors that have started.
OrderInv ==
  /\ \A d \in chained : 0 .. d - 1 \subseteq chained
  /\ \A d \in Drones :
       /\ link[d] # <<>> => d \in chained
       /\ d >= 1 /\ have_recv_pre_agent[d] => d - 1 \in chained

\* The first drone has no predecessor to hear from.
ChainInv ==
  /\ ChainsComplete
  /\ chain[0] \in {Prefix(0), Prefix(1)}

StartupInv == TypeOK /\ OrderInv /\ ChainInv /\ NoSilentWait

LEMMA InitStartupInv == Init => StartupInv
<1> SUFFICES ASSUME Init PROVE StartupInv
  OBVIOUS
<1> USE SwarmStartupAssumption DEF Init, Drones, SwarmStartupAssumption
<1>1. TypeOK
  BY DEF TypeOK, ExecStates
<1>2. OrderInv
  BY DEF OrderInv
<1>3. ChainInv
  BY PrefixEmpty DEF ChainInv, ChainsComplete
<1>4. NoSilentWait
  BY DEF NoSilentWait
<1> QED
  BY <1>1, <1>2, <1>3, <1>4 DEF StartupInv

\* Most steps touch nothing the chain depends on.
LEMMA QuietStep ==
  ASSUME OrderInv, ChainInv, NoSilentWait,
         UNCHANGED <<have_recv_pre_agent, chain, link, history>>
  PROVE  OrderInv' /\ ChainInv' /\ NoSilentWait'
BY DEF OrderInv, ChainInv, ChainsComplete, NoSilentWait, history

LEMMA QuietActions ==
  ASSUME StartupInv, NEW d \in Drones,
         \/ Odometry(d) \/ Trigger(d) \/ ReadGivenWps(d) \/ ExecInit(d)
         \/ ExecWaitTarget(d) \/ GenNewTraj(d) \/ EmergencyRestart(d)
         \/ Replan(d) \/ Finish(d)
  PROVE  StartupInv'
<1> USE DEF control, history, counters
<1>1. UNCHANGED <<have_recv_pre_agent, chain, link, history>>
  BY DEF Odometry, Trigger, ReadGivenWps, ExecInit, ExecWaitTarget, GenNewTraj,
         EmergencyRestart, Replan, Finish
<1>2. TypeOK'
  <2> USE DEF StartupInv, TypeOK, ExecStates, Enter
  <2>1. CASE Odometry(d) \/ Trigger(d)
    BY <2>1 DEF Odometry, Trigger
  <2>2. CASE ReadGivenWps(d)
    BY <2>2 DEF ReadGivenWps
  <2>3. CASE ExecInit(d) \/ ExecWaitTarget(d)
    BY <2>3 DEF ExecInit, ExecWaitTarget
  <2>4. CASE GenNewTraj(d) \/ EmergencyRestart(d) \/ Replan(d)
    BY <2>4 DEF GenNewTraj, EmergencyRestart, Replan
  <2>5. CASE Finish(d)
    BY <2>5 DEF Finish
  <2> QED
    BY <2>1, <2>2, <2>3, <2>4, <2>5
<1> QED
  BY <1>1, <1>2, QuietStep DEF StartupInv

\* What a drone that starts sends.
LEMMA StartSendsPrefix ==
  ASSUME StartupInv, NEW d \in Drones, SequentialStart(d)
  PROVE  /\ chain' = [chain EXCEPT ![d] = Prefix(d + 1)]
         /\ link' = [link EXCEPT ![d] = Append(link[d], Prefix(d + 1))]
<1>1. chain[d] \in {Prefix(d), Prefix(d + 1)}
  <2>1. CASE d = 0
    BY <2>1 DEF StartupInv, ChainInv
  <2>2. CASE d # 0
    BY <2>2 DEF StartupInv, ChainInv, ChainsComplete, SequentialStart, Drones
  <2> QED
    BY <2>1, <2>2
<1>2. ChainWithOwn(d) = Prefix(d + 1)
  BY <1>1, OwnCompletes
<1> QED
  BY <1>2 DEF SequentialStart, StartupInv, TypeOK

LEMMA SequentialStartKeeps ==
  ASSUME StartupInv, NEW d \in Drones, SequentialStart(d)
  PROVE  StartupInv'
<1> USE DEF StartupInv
<1>0. d \in Nat /\ Drones \subseteq Nat
  BY DEF Drones
<1>1. /\ chain' = [chain EXCEPT ![d] = Prefix(d + 1)]
      /\ link' = [link EXCEPT ![d] = Append(link[d], Prefix(d + 1))]
      /\ chained' = chained \cup {d}
      /\ UNCHANGED <<have_recv_pre_agent, lost>>
  BY StartSendsPrefix DEF SequentialStart
<1>2. TypeOK'
  <2>1. chain' \in [Drones -> Seq(Drones)] /\ link' \in [Drones -> Seq(Seq(Drones))]
    BY <1>1, PrefixType DEF TypeOK
  <2> QED
    BY <1>1, <2>1 DEF TypeOK, SequentialStart, Enter, ExecStates, control, counters
<1>3. 0 .. d - 1 \subseteq chained
  <2>1. CASE d = 0
    BY <2>1
  <2>2. CASE d # 0
    <3>1. d - 1 \in chained
      BY <1>0, <2>2 DEF OrderInv, SequentialStart
    <3> QED
      BY <1>0, <3>1 DEF OrderInv
  <2> QED
    BY <2>1, <2>2
<1>4. OrderInv'
  BY <1>0, <1>1, <1>3 DEF OrderInv, TypeOK
<1>5. ChainInv'
  <2>1. \A e \in Drones : \A i \in 1 .. Len(link'[e]) : link'[e][i] = Prefix(e + 1)
    BY <1>0, <1>1, PrefixType, SMTT(30) DEF ChainInv, ChainsComplete, TypeOK
  <2>2. \A e \in Drones : e >= 1 /\ have_recv_pre_agent'[e]
                            => chain'[e] \in {Prefix(e), Prefix(e + 1)}
    BY <1>0, <1>1 DEF ChainInv, ChainsComplete, TypeOK
  <2>3. chain'[0] \in {Prefix(0), Prefix(1)}
    BY <1>0, <1>1 DEF ChainInv, TypeOK
  <2> QED
    BY <2>1, <2>2, <2>3 DEF ChainInv, ChainsComplete
<1>6. NoSilentWait'
  <2>0. link[d] \in Seq(Seq(Drones)) /\ link'[d] = Append(link[d], Prefix(d + 1))
    BY <1>1 DEF TypeOK
  <2>2. link'[d] # <<>>
    <3>1. Len(Append(link[d], Prefix(d + 1))) = Len(link[d]) + 1 /\ Len(link[d]) \in Nat
      BY <2>0, PrefixType
    <3>2. Len(link'[d]) # 0
      BY <2>0, <3>1
    <3> QED
      BY <3>2
  <2>1. \A e \in Drones : link[e] # <<>> => link'[e] # <<>>
    BY <1>1, <2>2 DEF TypeOK
  <2> QED
    BY <1>0, <1>1, <2>1, <2>2 DEF NoSilentWait, Drones
<1> QED
  BY <1>2, <1>4, <1>5, <1>6

LEMMA RestartKeeps ==
  ASSUME StartupInv, NEW d \in Drones, Restart(d)
  PROVE  StartupInv'
<1> USE DEF StartupInv
<1>1. /\ chain' = [chain EXCEPT ![d] = <<>>]
      /\ have_recv_pre_agent' = [have_recv_pre_agent EXCEPT ![d] = FALSE]
      /\ lost' = lost \cup {d}
      /\ UNCHANGED <<link, chained>>
  BY DEF Restart
<1>2. TypeOK'
  BY SwarmStartupAssumption
     DEF TypeOK, Restart, Enter, ExecStates, SwarmStartupAssumption
<1>3. OrderInv'
  BY <1>1 DEF OrderInv, TypeOK
<1>4. ChainInv'
  BY <1>1, PrefixEmpty DEF ChainInv, ChainsComplete, TypeOK
<1>5. NoSilentWait'
  BY <1>1 DEF NoSilentWait, TypeOK
<1> QED
  BY <1>2, <1>3, <1>4, <1>5

\* The oldest message of a link leaves it.
LEMMA LinkShrinks ==
  ASSUME StartupInv, NEW d \in Drones, d >= 1, link[d - 1] # <<>>,
         link' = [link EXCEPT ![d - 1] = Tail(link[d - 1])]
  PROVE  /\ d - 1 \in Drones /\ d - 1 \in chained
         /\ Head(link[d - 1]) = Prefix(d)
         /\ link' \in [Drones -> Seq(Seq(Drones))]
         /\ \A e \in Drones : link'[e] # <<>> => link[e] # <<>>
         /\ \A e \in Drones : e # d - 1 => link'[e] = link[e]
         /\ \A e \in Drones : \A i \in 1 .. Len(link'[e]) : link'[e][i] = Prefix(e + 1)
<1> USE DEF StartupInv
<1>1. d - 1 \in Drones /\ d - 1 \in chained /\ d \in Nat
  BY SwarmStartupAssumption DEF Drones, OrderInv, SwarmStartupAssumption
<1>2. link[d - 1] \in Seq(Seq(Drones)) /\ Len(link[d - 1]) >= 1
  BY <1>1 DEF TypeOK
<1>3. Head(link[d - 1]) = Prefix(d)
  BY <1>1, <1>2 DEF ChainInv, ChainsComplete
<1>4. link' \in [Drones -> Seq(Seq(Drones))]
  BY <1>1, <1>2 DEF TypeOK
<1>5. \A i \in 1 .. Len(Tail(link[d - 1])) : Tail(link[d - 1])[i] = Prefix(d)
  BY <1>1, <1>2 DEF ChainInv, ChainsComplete
<1>6. link'[d - 1] = Tail(link[d - 1]) /\ \A e \in Drones : e # d - 1 => link'[e] = link[e]
  BY <1>1 DEF TypeOK
<1>7. \A e \in Drones : link'[e] # <<>> => link[e] # <<>>
  BY <1>6
<1>8. \A e \in Drones : \A i \in 1 .. Len(link'[e]) : link'[e][i] = Prefix(e + 1)
  <2> SUFFICES ASSUME NEW e \in Drones PROVE \A i \in 1 .. Len(link'[e]) : link'[e][i] = Prefix(e + 1)
    OBVIOUS
  <2>1. CASE e = d - 1
    <3>1. e + 1 = d
      BY <1>1, <2>1
    <3> QED BY <1>5, <1>6, <2>1, <3>1
  <2>2. CASE e # d - 1
    BY <1>6, <2>2 DEF ChainInv, ChainsComplete
  <2> QED BY <2>1, <2>2
<1> QED
  BY <1>1, <1>3, <1>4, <1>6, <1>7, <1>8

\* The link that shrinks is that of the predecessor and no other.
LEMMA OtherLink ==
  ASSUME NEW d \in Drones, NEW e \in Drones, e >= 1, e # d,
         \A f \in Drones : f # d - 1 => link'[f] = link[f]
  PROVE  link'[e - 1] = link[e - 1]
<1>1. e - 1 \in Drones /\ e - 1 # d - 1
  BY SwarmStartupAssumption DEF Drones, SwarmStartupAssumption
<1> QED
  BY <1>1

LEMMA LoseChainKeeps ==
  ASSUME StartupInv, NEW d \in Drones, LoseChain(d)
  PROVE  StartupInv'
<1> USE DEF StartupInv
<1>1. /\ link' \in [Drones -> Seq(Seq(Drones))]
      /\ \A e \in Drones : link'[e] # <<>> => link[e] # <<>>
      /\ \A e \in Drones : e # d - 1 => link'[e] = link[e]
      /\ \A e \in Drones : \A i \in 1 .. Len(link'[e]) : link'[e][i] = Prefix(e + 1)
  BY LinkShrinks DEF LoseChain
<1>2. /\ lost' = lost \cup {d}
      /\ UNCHANGED <<have_recv_pre_agent, chain, chained>>
  BY DEF LoseChain
<1>3. TypeOK'
  BY <1>1, <1>2 DEF TypeOK, LoseChain, control, counters
<1>4. OrderInv'
  BY <1>1, <1>2 DEF OrderInv
<1>5. ChainInv'
  BY <1>1, <1>2 DEF ChainInv, ChainsComplete
<1>6. NoSilentWait'
  <2> SUFFICES ASSUME NEW e \in Drones, e >= 1, e - 1 \in chained', e \notin lost'
               PROVE  have_recv_pre_agent'[e] \/ link'[e - 1] # <<>>
    BY DEF NoSilentWait
  <2>1. link'[e - 1] = link[e - 1]
    BY <1>1, <1>2, OtherLink
  <2> QED
    BY <1>2, <2>1 DEF NoSilentWait
<1> QED
  BY <1>3, <1>4, <1>5, <1>6

LEMMA SwarmTrajsKeeps ==
  ASSUME StartupInv, NEW d \in Drones, SwarmTrajs(d)
  PROVE  StartupInv'
<1> USE DEF StartupInv
<1>1. /\ d - 1 \in Drones /\ d - 1 \in chained
      /\ Head(link[d - 1]) = Prefix(d)
      /\ link' \in [Drones -> Seq(Seq(Drones))]
      /\ \A e \in Drones : link'[e] # <<>> => link[e] # <<>>
      /\ \A e \in Drones : e # d - 1 => link'[e] = link[e]
      /\ \A e \in Drones : \A i \in 1 .. Len(link'[e]) : link'[e][i] = Prefix(e + 1)
  BY LinkShrinks DEF SwarmTrajs
<1>0. d \in Nat
  BY DEF Drones
<1>2. /\ chain' = [chain EXCEPT ![d] = Prefix(d)]
      /\ chained' = chained /\ d >= 1
  BY <1>1 DEF SwarmTrajs
<1>3. \/ have_recv_pre_agent' = [have_recv_pre_agent EXCEPT ![d] = TRUE] /\ lost' = lost
      \/ have_recv_pre_agent' = have_recv_pre_agent /\ lost' = lost \cup {d}
  BY DEF SwarmTrajs
<1>4. TypeOK'
  <2>1. chain' \in [Drones -> Seq(Drones)]
    BY <1>2, PrefixType DEF TypeOK
  <2>2. have_recv_pre_agent' \in [Drones -> BOOLEAN] /\ lost' \subseteq Drones
    BY <1>3 DEF TypeOK
  <2> QED
    BY <1>1, <2>1, <2>2 DEF TypeOK, SwarmTrajs, control, counters
<1>5. OrderInv'
  BY <1>1, <1>2, <1>3 DEF OrderInv, TypeOK
<1>6. ChainInv'
  <2>1. chain'[0] \in {Prefix(0), Prefix(1)}
    BY <1>0, <1>2 DEF ChainInv, TypeOK
  <2>2. \A e \in Drones : e >= 1 /\ have_recv_pre_agent'[e]
                            => chain'[e] \in {Prefix(e), Prefix(e + 1)}
    BY <1>2, <1>3 DEF ChainInv, ChainsComplete, TypeOK
  <2> QED
    BY <1>1, <2>1, <2>2 DEF ChainInv, ChainsComplete
<1>7. NoSilentWait'
  <2> SUFFICES ASSUME NEW e \in Drones, e >= 1, e - 1 \in chained', e \notin lost'
               PROVE  have_recv_pre_agent'[e] \/ link'[e - 1] # <<>>
    BY DEF NoSilentWait
  <2>1. CASE e = d
    BY <1>3, <2>1 DEF TypeOK
  <2>2. CASE e # d
    <3>1. link'[e - 1] = link[e - 1]
      BY <1>1, <2>2, OtherLink
    <3>2. have_recv_pre_agent'[e] = have_recv_pre_agent[e] /\ e \notin lost
      BY <1>3, <2>2 DEF TypeOK
    <3> QED
      BY <1>2, <3>1, <3>2 DEF NoSilentWait
  <2> QED
    BY <2>1, <2>2
<1> QED
  BY <1>4, <1>5, <1>6, <1>7

LEMMA NextStartupInv == StartupInv /\ [Next]_vars => StartupInv'
<1> SUFFICES ASSUME StartupInv, [Next]_vars PROVE StartupInv'
  OBVIOUS
<1>1. CASE UNCHANGED vars
  <2>1. TypeOK'
    BY <1>1 DEF StartupInv, TypeOK, vars, control, history, counters
  <2> QED
    BY <1>1, <2>1, QuietStep DEF StartupInv, vars, history
<1>2. CASE Next
  BY <1>2, QuietActions, SequentialStartKeeps, RestartKeeps, LoseChainKeeps,
     SwarmTrajsKeeps DEF Next
<1> QED
  BY <1>1, <1>2

LEMMA StartupInvCorrect == Spec => []StartupInv
BY InitStartupInv, NextStartupInv, PTL DEF Spec

-----------------------------------------------------------------------------
(* The theorems.                                                           *)

\* The variables keep their types, whatever the size of the swarm.
THEOREM StartupTypeCorrect == Spec => []TypeOK
<1>1. StartupInv => TypeOK
  BY DEF StartupInv
<1> QED
  BY <1>1, StartupInvCorrect, PTL

\* The chains sent are complete and in order, in a swarm of any size and
\* whatever was lost, restarted or repeated.
THEOREM ChainsCompleteCorrect == Spec => []ChainsComplete
<1>1. StartupInv => ChainsComplete
  BY DEF StartupInv, ChainInv
<1> QED
  BY <1>1, StartupInvCorrect, PTL

\* A drone whose predecessor has started waits in silence only after it
\* missed its chain.
THEOREM NoSilentWaitCorrect == Spec => []NoSilentWait
<1>1. StartupInv => NoSilentWait
  BY DEF StartupInv
<1> QED
  BY <1>1, StartupInvCorrect, PTL

\* The startup chain implements StartOrder: the sequential starts happen in
\* the order of the ids.
THEOREM StartOrderImplementedCorrect == Spec => StartOrderImplemented
<1>1. Init => StartsInOrder!Init
  BY DEF Init, StartsInOrder!Init
<1>2. StartupInv /\ [Next]_vars => [StartsInOrder!Next]_chained
  <2> SUFFICES ASSUME StartupInv, [Next]_vars, chained' # chained
               PROVE  StartsInOrder!Next
    OBVIOUS
  <2>1. PICK d \in Drones : SequentialStart(d)
    BY DEF Next, Odometry, Trigger, ReadGivenWps, ExecInit, ExecWaitTarget,
           GenNewTraj, EmergencyRestart, Replan, Finish, Restart, SwarmTrajs,
           LoseChain, vars, history
  <2>2. chained' = chained \cup {d} /\ d \notin chained
    BY <2>1 DEF SequentialStart
  <2>3. StartupInv'
    BY <2>1, SequentialStartKeeps
  <2>4. 0 .. d - 1 \subseteq chained
    BY <2>2, <2>3 DEF StartupInv, OrderInv, Drones
  <2> QED
    BY <2>2, <2>4 DEF StartsInOrder!Next, StartsInOrder!Start, StartsInOrder!Drones, Drones
<1> QED
  BY <1>1, <1>2, StartupInvCorrect, PTL
     DEF Spec, StartOrderImplemented, StartsInOrder!Spec

=============================================================================
