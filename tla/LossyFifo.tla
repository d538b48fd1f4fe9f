----------------------------- MODULE LossyFifo ------------------------------
(***************************************************************************)
(* What a link of the swarm bridge promises: messages, numbered in the      *)
(* order they are sent, arrive in that order and at most once; any of them  *)
(* may be lost, or arrive as something that nobody sent.                    *)
(***************************************************************************)
EXTENDS Naturals, Sequences

VARIABLES
  sent,           \* messages sent
  waiting,        \* those that may still arrive
  delivered       \* those that have arrived, in the order of their arrival

\* What nobody sent.
Garbage == 0

Init == sent = 0 /\ waiting = {} /\ delivered = <<>>

\* The next message is on its way, or lost at once.
Send ==
  /\ sent' = sent + 1
  /\ waiting' \in {waiting, waiting \union {sent + 1}}
  /\ UNCHANGED delivered

\* The oldest message on its way arrives.
Deliver(m) ==
  /\ \A n \in waiting : m <= n
  /\ waiting' = waiting \ {m}
  /\ delivered' = Append(delivered, m)
  /\ UNCHANGED sent

\* The messages up to the m-th will not arrive any more.
LoseUpTo(m) ==
  /\ waiting' = {n \in waiting : n > m}
  /\ UNCHANGED <<sent, delivered>>

\* Garbage arrives in the place of the m-th message, which has not arrived and
\* will not, nor will an older one.
Misdeliver(m) ==
  /\ \A i \in 1 .. Len(delivered) : delivered[i] < m
  /\ waiting' = {n \in waiting : n > m}
  /\ delivered' = Append(delivered, Garbage)
  /\ UNCHANGED sent

Next ==
  \/ Send
  \/ \E m \in waiting : Deliver(m)
  \/ \E m \in 1 .. sent : LoseUpTo(m) \/ Misdeliver(m)

Spec == Init /\ [][Next]_<<sent, waiting, delivered>>
=============================================================================
