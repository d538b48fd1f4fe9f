----------------------------- MODULE TcpBridge ------------------------------
(***************************************************************************)
(* One link of rosmsg_tcp_bridge: the bridge of a drone forwards the        *)
(* startup chains of its planner over a TCP connection to the bridge of the *)
(* next drone, which publishes them there.                                  *)
(*                                                                         *)
(* A message is serialised to one or more parts (the unit in which a read   *)
(* may split the stream).  Nothing marks where a message begins: the        *)
(* receiver deserialises whatever read() returns and publishes it when the  *)
(* length it deserialises is the length of the read.                        *)
(***************************************************************************)
EXTENDS Integers, Sequences

CONSTANTS
  Sizes,          \* numbers of parts a serialised message may have
  MaxSent,        \* bound: messages sent
  MaxStops        \* bound: processes stopped

ASSUME TcpBridgeAssumption ==
  Sizes \subseteq Nat \ {0} /\ MaxSent \in Nat /\ MaxStops \in Nat

VARIABLES
  sender,         \* main() of the sending bridge, see SenderStates
  receiver,       \* server_fun of the receiving bridge, see ReceiverStates
  stream,         \* parts sent and not yet read
  eof,            \* the sending end of the accepted connection is closed
  sent,           \* messages given to multitraj_sub_tcp_cb
  delivered,      \* what the receiving bridge published, see Published
  stops           \* counter for the bound

vars == <<sender, receiver, stream, eof, sent, delivered, stops>>

\* "failed":  send_sock_ is -1, for connect is tried only once
\* "unheard": connected, but to a server that never accepts again
SenderStates == {"starting", "connected", "failed", "unheard", "down"}

\* "closed": the thread has returned after the end of its only connection
ReceiverStates == {"starting", "listening", "reading", "closed", "down"}

\* Mutant of Parts: the length sent is one part more than what was serialised.
PartsTooMany(m, n) == [i \in 1 .. n + 1 |-> [msg |-> m, part |-> i, of |-> n]]

Parts(m, n) == [i \in 1 .. n |-> [msg |-> m, part |-> i, of |-> n]]

Init ==
  /\ sender = "starting" /\ receiver = "starting"
  /\ stream = <<>> /\ eof = FALSE
  /\ sent = 0 /\ delivered = <<>> /\ stops = 0

-----------------------------------------------------------------------------
(* The sending bridge.                                                     *)

\* connect_to_next_drone, once, at start.  The server socket stays open while
\* its only connection is read, so a late connect succeeds, unheard.
Connect ==
  /\ sender = "starting"
  /\ \/ /\ receiver = "listening"
        /\ sender' = "connected" /\ receiver' = "reading"
     \/ /\ receiver = "reading"
        /\ sender' = "unheard" /\ UNCHANGED receiver
     \/ /\ receiver \notin {"listening", "reading"}
        /\ sender' = "failed" /\ UNCHANGED receiver
  /\ UNCHANGED <<stream, eof, sent, delivered, stops>>

\* multitraj_sub_tcp_cb.  A send to a closed peer may also raise SIGPIPE,
\* which the process does not handle.
Send ==
  /\ sender \in {"connected", "failed", "unheard"} /\ sent < MaxSent
  /\ sent' = sent + 1
  /\ \/ /\ sender = "connected" /\ receiver = "reading"
        /\ \E n \in Sizes : stream' = stream \o Parts(sent + 1, n)
        /\ UNCHANGED <<sender, eof>>
     \/ /\ sender = "connected" /\ receiver # "reading"
        /\ sender' \in {"connected", "down"}
        /\ UNCHANGED <<stream, eof>>
     \/ /\ sender = "unheard"
        /\ sender' \in IF receiver = "reading" THEN {"unheard"} ELSE {"unheard", "down"}
        /\ UNCHANGED <<stream, eof>>
     \/ /\ sender = "failed"
        /\ UNCHANGED <<sender, stream, eof>>
  /\ UNCHANGED <<receiver, delivered, stops>>

SenderStops ==
  /\ sender # "down" /\ stops < MaxStops /\ stops' = stops + 1
  /\ sender' = "down"
  /\ eof' = (eof \/ (sender = "connected" /\ receiver = "reading"))
  /\ UNCHANGED <<receiver, stream, sent, delivered>>

SenderStarts ==
  /\ sender = "down"
  /\ sender' = "starting"
  /\ UNCHANGED <<receiver, stream, eof, sent, delivered, stops>>

-----------------------------------------------------------------------------
(* The receiving bridge.                                                   *)

Listen ==
  /\ receiver = "starting"
  /\ receiver' = "listening"
  /\ UNCHANGED <<sender, stream, eof, sent, delivered, stops>>

StartsMessage == stream[1].part = 1

\* A chain that was never sent.
Garbage == 0

\* Mutant of MayMatch: the length is not compared.
MayMatchAnyLength(k) == TRUE

\* deserializeMultiBsplines returns the length of the message that the bytes
\* spell out.  Where a message begins that is its own, whatever follows it (and
\* what it misses it takes from beyond the read); bytes from the middle of one
\* may spell out a chain of any length, of the read's too.
MayMatch(k) == StartsMessage => k = stream[1].of
MayMismatch(k) == StartsMessage => k # stream[1].of
Published == IF StartsMessage THEN stream[1].msg ELSE Garbage

\* deserializeMultiBsplines takes sizes from bytes that are not sizes.
ReadIsGarbled(k) == ~StartsMessage \/ k < stream[1].of

\* server_fun: one read() of k parts.  A read of the right length is
\* published, any other is dropped; a garbled one may end the process.
Read(k) ==
  /\ receiver = "reading"
  /\ stream' = SubSeq(stream, k + 1, Len(stream))
  /\ \/ MayMatch(k) /\ delivered' = Append(delivered, Published)
     \/ MayMismatch(k) /\ UNCHANGED delivered
  /\ UNCHANGED <<sender, receiver, eof, sent, stops>>

ReadGarbled(k) ==
  /\ receiver = "reading" /\ ReadIsGarbled(k)
  /\ receiver' = "down" /\ stream' = <<>> /\ eof' = FALSE
  /\ UNCHANGED <<sender, sent, delivered, stops>>

\* read() returns 0: the sockets are closed and the thread returns for good.
ReadEnd ==
  /\ receiver = "reading" /\ stream = <<>> /\ eof
  /\ receiver' = "closed" /\ eof' = FALSE
  /\ UNCHANGED <<sender, stream, sent, delivered, stops>>

ReceiverStops ==
  /\ receiver # "down" /\ stops < MaxStops /\ stops' = stops + 1
  /\ receiver' = "down" /\ stream' = <<>> /\ eof' = FALSE
  /\ UNCHANGED <<sender, sent, delivered>>

ReceiverStarts ==
  /\ receiver = "down"
  /\ receiver' = "starting"
  /\ UNCHANGED <<sender, stream, eof, sent, delivered, stops>>

Next ==
  \/ Connect \/ Send \/ SenderStops \/ SenderStarts
  \/ Listen \/ ReadEnd \/ ReceiverStops \/ ReceiverStarts
  \/ \E k \in 1 .. Len(stream) : Read(k) \/ ReadGarbled(k)

Spec == Init /\ [][Next]_vars

-----------------------------------------------------------------------------
(* Properties.                                                             *)

\* Every variable stays within its type.
TypeOK ==
  /\ sender \in SenderStates /\ receiver \in ReceiverStates
  /\ \A i \in 1 .. Len(stream) :
       stream[i] \in [msg : 1 .. MaxSent, part : 1 .. stream[i].of, of : Sizes]
  /\ eof \in BOOLEAN /\ sent \in 0 .. MaxSent /\ stops \in 0 .. MaxStops
  /\ \A i \in 1 .. Len(delivered) : delivered[i] \in {Garbage} \union 1 .. MaxSent

\* The messages of which nothing has been read yet.
Unread == {stream[i].msg : i \in {j \in 1 .. Len(stream) : stream[j].part = 1}}

\* Whatever the reads split or merge and whichever process stops and starts, the
\* chains that the receiver publishes were sent, in this order, and at most once;
\* one that was never sent comes only in the place of a chain that is lost.
Fifo == INSTANCE LossyFifo WITH waiting <- Unread
FifoImplemented == Fifo!Spec

=============================================================================
