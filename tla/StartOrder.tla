----------------------------- MODULE StartOrder -----------------------------
(***************************************************************************)
(* What the startup chain of an EGO swarm promises: the drones take their   *)
(* sequential start one after the other, in the order of their ids.         *)
(***************************************************************************)
EXTENDS Integers

CONSTANT N                \* number of drones; their ids are 0 .. N - 1

VARIABLE chained          \* drones that have taken their sequential start

Drones == 0 .. N - 1

Init == chained = {}

Start(d) ==
  /\ d \notin chained
  /\ 0 .. d - 1 \subseteq chained
  /\ chained' = chained \cup {d}

Next == \E d \in Drones : Start(d)

Spec == Init /\ [][Next]_chained
=============================================================================
