----------------------------- MODULE MCMultiMap -----------------------------
(***************************************************************************)
(* MultiMap with one or two chunks of one drone: those of different drones  *)
(* travel alike and do not influence each other.                            *)
(***************************************************************************)
EXTENDS MultiMap

OneOwner == [d \in 1 .. MapNum |-> IF d = 1 THEN 2 ELSE 0]
OneChunk == [d \in 1 .. MapNum |-> IF d = 1 THEN 1 ELSE 0]
=============================================================================
