-------------------------- MODULE TcpBridge_proofs ---------------------------
(***************************************************************************)
(* What a link of the bridge publishes, for messages of any length, any     *)
(* number of them, and any number of restarts.                              *)
(***************************************************************************)
EXTENDS TcpBridge, SequenceTheorems, TLAPS

USE TcpBridgeAssumption

\* The parts on their way and the messages published are sequences of their types.
Bytes == [msg : 1 .. MaxSent, part : Nat, of : Nat]

SeqOK ==
  /\ stream \in Seq(Bytes)
  /\ delivered \in Seq({Garbage} \union 1 .. MaxSent)

TypeInv == TypeOK /\ SeqOK

LEMMA InitType == Init => TypeInv
<1> SUFFICES ASSUME Init PROVE TypeInv
  OBVIOUS
<1>1. sender \in SenderStates /\ receiver \in ReceiverStates
  BY DEF Init, SenderStates, ReceiverStates
<1>2. eof \in BOOLEAN
  BY Zenon DEF Init
<1>3. stream = <<>> /\ delivered = <<>> /\ sent \in 0 .. MaxSent /\ stops \in 0 .. MaxStops
  BY DEF Init
<1> QED BY <1>1, <1>2, <1>3 DEF TypeInv, TypeOK, SeqOK

\* The stream after a message has been sent: its parts come last.
LEMMA SendStream ==
  ASSUME TypeInv, sent < MaxSent, NEW n \in Sizes,
         stream' = stream \o Parts(sent + 1, n)
  PROVE  /\ stream' \in Seq(Bytes)
         /\ Len(stream') = Len(stream) + n
         /\ \A i \in 1 .. Len(stream) : stream'[i] = stream[i]
         /\ \A i \in Len(stream) + 1 .. Len(stream') :
              stream'[i] = [msg |-> sent + 1, part |-> i - Len(stream), of |-> n]
<1> DEFINE new == Parts(sent + 1, n)
<1>1. n \in Nat \ {0} /\ sent + 1 \in 1 .. MaxSent
  BY DEF TypeInv, TypeOK
<1>2. /\ new \in Seq(Bytes) /\ Len(new) = n
      /\ \A i \in 1 .. n : new[i] = [msg |-> sent + 1, part |-> i, of |-> n]
  BY <1>1 DEF Parts, Bytes
<1>3. stream \in Seq(Bytes)
  BY DEF TypeInv, SeqOK
<1>4. stream' = stream \o new
  OBVIOUS
<1> HIDE DEF new
<1>5. /\ stream' \in Seq(Bytes) /\ Len(stream') = Len(stream) + n
      /\ \A i \in 1 .. Len(stream) + n :
           stream'[i] = IF i <= Len(stream) THEN stream[i] ELSE new[i - Len(stream)]
  <2>1. /\ stream \o new \in Seq(Bytes) /\ Len(stream \o new) = Len(stream) + Len(new)
        /\ \A i \in 1 .. Len(stream) + Len(new) :
             (stream \o new)[i] = IF i <= Len(stream) THEN stream[i] ELSE new[i - Len(stream)]
    BY <1>2, <1>3, ConcatProperties, Zenon
  <2> QED BY <1>2, <1>4, <2>1, Zenon
<1>6. Len(stream) \in Nat
  BY <1>3
<1>7. \A i \in 1 .. Len(stream) : stream'[i] = stream[i]
  BY <1>1, <1>5, <1>6
<1>8. ASSUME NEW i \in Len(stream) + 1 .. Len(stream')
      PROVE  stream'[i] = [msg |-> sent + 1, part |-> i - Len(stream), of |-> n]
  <2>1. /\ i \in 1 .. Len(stream) + n /\ ~(i <= Len(stream))
        /\ i - Len(stream) \in 1 .. n
    BY <1>1, <1>5, <1>6
  <2>2. stream'[i] = new[i - Len(stream)]
    BY <1>5, <2>1
  <2> QED BY <1>2, <2>1, <2>2
<1> QED BY <1>5, <1>7, <1>8

\* The stream after a read of k parts: what comes after them.
LEMMA ReadStream ==
  ASSUME TypeInv, NEW k \in 1 .. Len(stream), stream' = SubSeq(stream, k + 1, Len(stream))
  PROVE  /\ stream' \in Seq(Bytes)
         /\ Len(stream') = Len(stream) - k
         /\ \A i \in 1 .. Len(stream') : i + k \in 1 .. Len(stream) /\ stream'[i] = stream[i + k]
BY DEF TypeInv, SeqOK

\* A step that adds nothing to the stream keeps the type of what is in it.
LEMMA StreamType ==
  ASSUME TypeInv, stream' \in Seq(Bytes),
         \A i \in 1 .. Len(stream') : \E j \in 1 .. Len(stream) : stream'[i] = stream[j]
  PROVE  \A i \in 1 .. Len(stream') :
           stream'[i] \in [msg : 1 .. MaxSent, part : 1 .. stream'[i].of, of : Sizes]
BY DEF TypeInv, TypeOK

\* What is in the stream.
LEMMA StreamParts ==
  ASSUME TypeInv
  PROVE  /\ Len(stream) \in Nat
         /\ \A i \in 1 .. Len(stream) :
              /\ stream[i].msg \in 1 .. MaxSent
              /\ stream[i].part \in Nat /\ stream[i].of \in Nat
<1>1. stream \in Seq(Bytes)
  BY DEF TypeInv, SeqOK
<1>2. \A i \in 1 .. Len(stream) : stream[i] \in Bytes
  BY <1>1, ElementOfSeq
<1> QED BY <1>1, <1>2, SMTT(30) DEF Bytes

\* After a process has stopped there is nothing in the stream.
LEMMA EmptyStream ==
  ASSUME TypeInv, receiver' \in ReceiverStates, stops' \in 0 .. MaxStops,
         stream' = <<>>, eof' = FALSE, UNCHANGED <<sender, sent, delivered>>
  PROVE  TypeInv'
<1>1. stream' \in Seq(Bytes) /\ Len(stream') = 0 /\ eof' \in BOOLEAN
  BY EmptySeq
<1> QED BY <1>1 DEF TypeInv, TypeOK, SeqOK

LEMMA StepType == TypeInv /\ [Next]_vars => TypeInv'
<1> SUFFICES ASSUME TypeInv, [Next]_vars PROVE TypeInv'
  OBVIOUS
<1> USE DEF TypeInv
<1>1. CASE Connect
  BY <1>1 DEF Connect, TypeOK, SeqOK, SenderStates, ReceiverStates
<1>2. CASE Send
  <2>1. /\ sent' \in 0 .. MaxSent /\ sender' \in SenderStates
        /\ UNCHANGED <<eof, receiver, delivered, stops>>
    BY <1>2 DEF Send, TypeOK, SenderStates
  <2>2. CASE UNCHANGED stream
    BY <2>1, <2>2 DEF TypeOK, SeqOK
  <2>3. ASSUME NEW n \in Sizes, stream' = stream \o Parts(sent + 1, n)
        PROVE  TypeInv'
    <3>1. /\ stream' \in Seq(Bytes)
          /\ Len(stream') = Len(stream) + n
          /\ \A i \in 1 .. Len(stream) : stream'[i] = stream[i]
          /\ \A i \in Len(stream) + 1 .. Len(stream') :
               stream'[i] = [msg |-> sent + 1, part |-> i - Len(stream), of |-> n]
      BY <1>2, <2>3, SendStream DEF Send
    <3>2. ASSUME NEW i \in 1 .. Len(stream')
          PROVE  stream'[i] \in [msg : 1 .. MaxSent, part : 1 .. stream'[i].of, of : Sizes]
      <4>1. CASE i \in 1 .. Len(stream)
        BY <3>1, <4>1 DEF TypeOK
      <4>2. CASE i \in Len(stream) + 1 .. Len(stream')
        <5>1. i - Len(stream) \in 1 .. n /\ sent + 1 \in 1 .. MaxSent
          BY <1>2, <3>1, <4>2 DEF Send, TypeOK, SeqOK
        <5> DEFINE p == [msg |-> sent + 1, part |-> i - Len(stream), of |-> n]
        <5>2. p \in [msg : 1 .. MaxSent, part : 1 .. n, of : Sizes] /\ p.of = n
          BY <5>1
        <5>3. stream'[i] = p
          BY <3>1, <4>2
        <5> HIDE DEF p
        <5> QED BY <5>2, <5>3
      <4> QED BY <3>1, <4>1, <4>2 DEF SeqOK
    <3> QED BY <2>1, <3>1, <3>2 DEF TypeOK, SeqOK
  <2> QED BY <1>2, <2>2, <2>3 DEF Send
<1>3. CASE SenderStops
  <2>1. eof' \in BOOLEAN
    BY <1>3 DEF SenderStops
  <2>2. sender' \in SenderStates /\ stops' \in 0 .. MaxStops
    BY <1>3 DEF SenderStops, TypeOK, SenderStates
  <2> QED BY <1>3, <2>1, <2>2 DEF SenderStops, TypeOK, SeqOK
<1>4. CASE SenderStarts
  BY <1>4 DEF SenderStarts, TypeOK, SeqOK, SenderStates
<1>5. CASE Listen
  BY <1>5 DEF Listen, TypeOK, SeqOK, ReceiverStates
<1>6. CASE ReadEnd
  BY <1>6 DEF ReadEnd, TypeOK, SeqOK, ReceiverStates
<1>7. CASE ReceiverStops
  <2>1. receiver' \in ReceiverStates /\ stops' \in 0 .. MaxStops
    BY <1>7 DEF ReceiverStops, TypeOK, ReceiverStates
  <2>2. stream' = <<>> /\ eof' = FALSE /\ UNCHANGED <<sender, sent, delivered>>
    BY <1>7 DEF ReceiverStops
  <2> QED BY <2>1, <2>2, EmptyStream
<1>8. CASE ReceiverStarts
  BY <1>8 DEF ReceiverStarts, TypeOK, SeqOK, ReceiverStates
<1>9. ASSUME NEW k \in 1 .. Len(stream), Read(k) PROVE TypeInv'
  <2>1. /\ stream' \in Seq(Bytes)
        /\ \A i \in 1 .. Len(stream') : i + k \in 1 .. Len(stream) /\ stream'[i] = stream[i + k]
    BY <1>9, ReadStream DEF Read
  <2>2. \A i \in 1 .. Len(stream') :
          stream'[i] \in [msg : 1 .. MaxSent, part : 1 .. stream'[i].of, of : Sizes]
    BY <2>1, StreamType
  <2>3. /\ delivered' \in Seq({Garbage} \union 1 .. MaxSent)
        /\ \A i \in 1 .. Len(delivered') : delivered'[i] \in {Garbage} \union 1 .. MaxSent
    <3>1. Published \in {Garbage} \union 1 .. MaxSent
      BY StreamParts DEF Published
    <3>2. delivered' = delivered \/ delivered' = Append(delivered, Published)
      BY <1>9 DEF Read
    <3>3. delivered' \in Seq({Garbage} \union 1 .. MaxSent)
      BY <3>1, <3>2 DEF SeqOK
    <3> QED BY <3>3, ElementOfSeq
  <2>4. UNCHANGED <<sender, receiver, eof, sent, stops>>
    BY <1>9 DEF Read
  <2> QED BY <2>1, <2>2, <2>3, <2>4 DEF TypeOK, SeqOK
<1>10. ASSUME NEW k \in 1 .. Len(stream), ReadGarbled(k) PROVE TypeInv'
  <2>1. receiver' \in ReceiverStates
    BY <1>10 DEF ReadGarbled, ReceiverStates
  <2>2. stream' = <<>> /\ eof' = FALSE /\ UNCHANGED <<sender, sent, delivered, stops>>
    BY <1>10 DEF ReadGarbled
  <2>3. stops' \in 0 .. MaxStops
    BY <2>2 DEF TypeOK
  <2> QED BY <2>1, <2>2, <2>3, EmptyStream
<1>11. CASE UNCHANGED vars
  BY <1>11 DEF vars, TypeOK, SeqOK
<1> QED BY <1>1, <1>2, <1>3, <1>4, <1>5, <1>6, <1>7, <1>8, <1>9, <1>10, <1>11 DEF Next

\* Every variable keeps its type.
THEOREM BridgeTypeCorrect == Spec => []TypeOK
<1>1. TypeInv => TypeOK
  BY DEF TypeInv
<1> QED BY <1>1, InitType, StepType, PTL DEF Spec
-----------------------------------------------------------------------------
\* The chains that the receiver publishes were sent, in this order, and at most once;
\* before one that was never sent, and between two that were with such a one between
\* them, a chain is missing.
DeliveredInOrder ==
  /\ \A i \in 1 .. Len(delivered) : delivered[i] <= sent
  /\ \A i, j \in 1 .. Len(delivered) : i < j /\ delivered[j] # Garbage =>
       delivered[i] < delivered[j]
  /\ \A i, j \in 1 .. Len(delivered) : i < j /\ delivered[j] = Garbage =>
       /\ delivered[i] < sent
       /\ \A l \in 1 .. Len(delivered) : j < l /\ delivered[l] # Garbage =>
            delivered[i] + 1 < delivered[l]

\* All that is in the stream is newer than all that was published; a message that has
\* not been read from is newer than all that is before it, and by two than what was
\* published before a chain that was never sent.
OrderInv ==
  /\ DeliveredInOrder
  /\ \A i \in 1 .. Len(stream) : stream[i].msg <= sent
  /\ \A j \in 1 .. Len(stream) : \A i \in 1 .. Len(delivered) : delivered[i] < stream[j].msg
  /\ \A j \in 1 .. Len(stream) : stream[j].part = 1 =>
       /\ \A i \in 1 .. j - 1 : stream[i].msg < stream[j].msg
       /\ \A i, l \in 1 .. Len(delivered) : i < l /\ delivered[l] = Garbage =>
            delivered[i] + 1 < stream[j].msg

\* What is read and what is left keep the order and the parts of the messages: the
\* messages in the stream do not get older, and from any part on, the rest of its
\* message follows, part by part, and then only newer ones.
FramedInv ==
  /\ \A i, j \in 1 .. Len(stream) : i <= j => stream[i].msg <= stream[j].msg
  /\ \A i \in 1 .. Len(stream) : \A j \in 0 .. stream[i].of - stream[i].part :
       i + j <= Len(stream) /\ stream[i + j].part = stream[i].part + j
  /\ \A i, j \in 1 .. Len(stream) : stream[i].of - stream[i].part < j - i =>
       stream[i].msg < stream[j].msg

LEMMA InitOrder == Init => OrderInv
BY DEF Init, OrderInv, DeliveredInOrder

\* What is published is a number.
LEMMA DeliveredNat ==
  ASSUME TypeInv
  PROVE  Len(delivered) \in Nat /\ \A i \in 1 .. Len(delivered) : delivered[i] \in Nat
<1>1. delivered \in Seq({Garbage} \union 1 .. MaxSent) /\ MaxSent \in Nat /\ Garbage = 0
  BY DEF TypeInv, SeqOK, Garbage
<1>2. \A i \in 1 .. Len(delivered) : delivered[i] \in {Garbage} \union 1 .. MaxSent
  BY <1>1, ElementOfSeq
<1> QED BY <1>1, <1>2

LEMMA SendOrder ==
  ASSUME TypeInv, OrderInv, Send
  PROVE  OrderInv'
<1>1. sent' = sent + 1 /\ sent \in Nat /\ UNCHANGED delivered
  BY DEF Send, TypeInv, TypeOK
<1>2. \A i \in 1 .. Len(delivered) : delivered[i] \in Nat
  BY DeliveredNat
<1>3. \A i \in 1 .. Len(stream) : stream[i].msg \in Nat
  BY StreamParts
<1>4. DeliveredInOrder'
  <2>1. \A i \in 1 .. Len(delivered) : delivered[i] <= sent'
    BY <1>1, <1>2 DEF OrderInv, DeliveredInOrder
  <2>2. \A i \in 1 .. Len(delivered) : delivered[i] < sent => delivered[i] < sent'
    BY <1>1, <1>2
  <2> QED BY <1>1, <2>1, <2>2 DEF OrderInv, DeliveredInOrder
<1>5. CASE UNCHANGED stream
  <2>1. \A i \in 1 .. Len(stream) : stream[i].msg <= sent'
    BY <1>1, <1>3 DEF OrderInv
  <2> QED BY <1>1, <1>4, <1>5, <2>1 DEF OrderInv
<1>6. ASSUME NEW n \in Sizes, stream' = stream \o Parts(sent + 1, n)
      PROVE  OrderInv'
  <2>1. /\ stream' \in Seq(Bytes)
        /\ Len(stream') = Len(stream) + n
        /\ \A i \in 1 .. Len(stream) : stream'[i] = stream[i]
        /\ \A i \in Len(stream) + 1 .. Len(stream') :
             stream'[i] = [msg |-> sent + 1, part |-> i - Len(stream), of |-> n]
    BY <1>6, SendStream DEF Send
  <2>2. Len(stream) \in Nat /\ Len(stream') \in Nat /\ n \in Nat
    BY <2>1, StreamParts, TcpBridgeAssumption
  <2>3. ASSUME NEW i \in 1 .. Len(stream')
        PROVE  /\ stream'[i].msg <= sent'
               /\ i \notin 1 .. Len(stream) => stream'[i].msg = sent + 1
    <3>1. CASE i \in 1 .. Len(stream)
      BY <1>1, <1>3, <2>1, <3>1 DEF OrderInv
    <3>2. CASE i \in Len(stream) + 1 .. Len(stream')
      <4>1. stream'[i] = [msg |-> sent + 1, part |-> i - Len(stream), of |-> n]
        BY <2>1, <3>2
      <4> QED BY <1>1, <2>2, <3>2, <4>1
    <3> QED BY <2>2, <3>1, <3>2
  <2>4. ASSUME NEW j \in 1 .. Len(stream') \ 1 .. Len(stream)
        PROVE  /\ stream'[j].msg = sent + 1
               /\ stream'[j].part = 1 => j = Len(stream) + 1
    <3>1. j \in Len(stream) + 1 .. Len(stream')
      BY <2>2
    <3>2. stream'[j] = [msg |-> sent + 1, part |-> j - Len(stream), of |-> n]
      BY <2>1, <3>1
    <3> QED BY <2>2, <3>1, <3>2
  <2>5. \A i \in 1 .. Len(delivered) : delivered[i] < sent + 1
    BY <1>1, <1>2 DEF OrderInv, DeliveredInOrder
  <2>6. ASSUME NEW j \in 1 .. Len(stream'), NEW i \in 1 .. Len(delivered)
        PROVE  delivered[i] < stream'[j].msg
    <3>1. CASE j \in 1 .. Len(stream)
      BY <2>1, <3>1 DEF OrderInv
    <3>2. CASE j \notin 1 .. Len(stream)
      BY <2>4, <2>5, <3>2
    <3> QED BY <3>1, <3>2
  <2>7. ASSUME NEW j \in 1 .. Len(stream'), stream'[j].part = 1, NEW i \in 1 .. j - 1
        PROVE  stream'[i].msg < stream'[j].msg
    <3>1. CASE j \in 1 .. Len(stream)
      <4>1. i \in 1 .. Len(stream)
        BY <2>2, <3>1
      <4> QED BY <2>1, <2>7, <3>1, <4>1 DEF OrderInv
    <3>2. CASE j \notin 1 .. Len(stream)
      <4>1. i \in 1 .. Len(stream) /\ stream'[j].msg = sent + 1
        BY <2>2, <2>4, <2>7, <3>2
      <4>2. stream'[i] = stream[i] /\ stream[i].msg <= sent /\ stream[i].msg \in Nat
        BY <1>3, <2>1, <4>1 DEF OrderInv
      <4> QED BY <1>1, <4>1, <4>2
    <3> QED BY <3>1, <3>2
  <2>8. ASSUME NEW j \in 1 .. Len(stream'), stream'[j].part = 1,
               NEW i \in 1 .. Len(delivered), NEW l \in 1 .. Len(delivered),
               i < l, delivered[l] = Garbage
        PROVE  delivered[i] + 1 < stream'[j].msg
    <3>1. CASE j \in 1 .. Len(stream)
      <4>1. stream'[j] = stream[j] /\ stream[j].part = 1
        BY <2>1, <2>8, <3>1
      <4> QED BY <2>8, <3>1, <4>1 DEF OrderInv
    <3>2. CASE j \notin 1 .. Len(stream)
      <4>1. delivered[i] < sent
        BY <2>8 DEF OrderInv, DeliveredInOrder
      <4> QED BY <1>1, <1>2, <2>4, <3>2, <4>1
    <3> QED BY <3>1, <3>2
  <2> QED BY <1>1, <1>4, <2>3, <2>6, <2>7, <2>8 DEF OrderInv
<1> QED BY <1>5, <1>6 DEF Send

\* What is published is newer than what was, and older than all that is left: by two
\* when a chain that was never sent comes between.
LEMMA ReadPublishes ==
  ASSUME TypeInv, OrderInv, FramedInv, NEW k \in 1 .. Len(stream), MayMatch(k)
  PROVE  /\ Published \in Nat /\ Published <= sent
         /\ \A j \in k + 1 .. Len(stream) : Published < stream[j].msg
         /\ Published # Garbage => stream[1].part = 1 /\ Published = stream[1].msg
         /\ Published = Garbage =>
              /\ \A i \in 1 .. Len(delivered) : delivered[i] < sent
              /\ \A j \in k + 1 .. Len(stream) : stream[j].part = 1 =>
                   \A i \in 1 .. Len(delivered) : delivered[i] + 1 < stream[j].msg
<1>1. /\ Len(stream) \in Nat /\ k \in Nat \ {0} /\ 1 \in 1 .. Len(stream)
      /\ \A i \in 1 .. Len(stream) :
           stream[i].msg \in Nat \ {0} /\ stream[i].part \in Nat /\ stream[i].of \in Nat
  <2>1. Len(stream) \in Nat /\ k \in Nat \ {0} /\ 1 \in 1 .. Len(stream)
    BY StreamParts
  <2> QED BY <2>1, StreamParts
<1>2. sent \in Nat /\ stream[1].msg <= sent /\ Garbage = 0
  BY <1>1 DEF OrderInv, TypeInv, TypeOK, Garbage
<1>3. \A i \in 1 .. Len(delivered) : delivered[i] \in Nat /\ delivered[i] < stream[1].msg
  BY <1>1, DeliveredNat DEF OrderInv
<1>4. CASE StartsMessage
  <2>1. Published = stream[1].msg /\ stream[1].part = 1 /\ stream[1].of = k
    BY <1>4 DEF Published, StartsMessage, MayMatch
  <2>2. ASSUME NEW j \in k + 1 .. Len(stream) PROVE stream[1].msg < stream[j].msg
    <3>1. j \in 1 .. Len(stream) /\ stream[1].of - stream[1].part < j - 1
      BY <1>1, <2>1
    <3> QED BY <1>1, <3>1 DEF FramedInv
  <2> QED BY <1>1, <1>2, <2>1, <2>2
<1>5. CASE ~StartsMessage
  <2>1. Published = Garbage /\ stream[1].part # 1
    BY <1>5 DEF Published, StartsMessage
  <2>2. \A i \in 1 .. Len(delivered) : delivered[i] < sent
    BY <1>1, <1>2, <1>3
  <2>3. \A j \in k + 1 .. Len(stream) : j \in 1 .. Len(stream)
    BY <1>1
  <2>4. ASSUME NEW j \in k + 1 .. Len(stream), stream[j].part = 1,
               NEW i \in 1 .. Len(delivered)
        PROVE  delivered[i] + 1 < stream[j].msg
    <3>1. j \in 1 .. Len(stream) /\ 1 \in 1 .. j - 1
      BY <1>1
    <3>2. stream[1].msg < stream[j].msg
      BY <2>4, <3>1 DEF OrderInv
    <3> QED BY <1>1, <1>3, <3>1, <3>2
  <2> QED BY <1>1, <1>2, <2>1, <2>2, <2>3, <2>4
<1> QED BY <1>4, <1>5

LEMMA ReadOrder ==
  ASSUME TypeInv, OrderInv, FramedInv, NEW k \in 1 .. Len(stream), Read(k)
  PROVE  OrderInv'
<1>1. /\ stream' \in Seq(Bytes) /\ Len(stream') = Len(stream) - k
      /\ \A i \in 1 .. Len(stream') : i + k \in 1 .. Len(stream) /\ stream'[i] = stream[i + k]
  BY ReadStream DEF Read
<1>2. Len(stream) \in Nat /\ k \in Nat \ {0} /\ sent' = sent
  BY DEF Read, TypeInv, SeqOK
<1>3. \A i \in 1 .. Len(stream') : stream'[i].msg <= sent' /\ i + k \in k + 1 .. Len(stream)
  BY <1>1, <1>2 DEF OrderInv
<1>4. ASSUME NEW j \in 1 .. Len(stream'), stream'[j].part = 1, NEW i \in 1 .. j - 1
      PROVE  stream'[i].msg < stream'[j].msg
  <2>1. j + k \in 1 .. Len(stream) /\ stream'[j] = stream[j + k] /\ stream[j + k].part = 1
    BY <1>1, <1>4
  <2>2. i \in 1 .. Len(stream') /\ i + k \in 1 .. (j + k) - 1
    BY <1>1, <1>2
  <2> QED BY <1>1, <2>1, <2>2 DEF OrderInv
<1>5. ASSUME NEW j \in 1 .. Len(stream'), NEW i \in 1 .. Len(delivered)
      PROVE  /\ delivered[i] < stream'[j].msg
             /\ stream'[j].part = 1 => \A l \in 1 .. Len(delivered) :
                  i < l /\ delivered[l] = Garbage => delivered[i] + 1 < stream'[j].msg
  BY <1>1 DEF OrderInv
<1>6. CASE UNCHANGED delivered
  BY <1>2, <1>3, <1>4, <1>5, <1>6 DEF OrderInv, DeliveredInOrder
<1>7. CASE MayMatch(k) /\ delivered' = Append(delivered, Published)
  <2> DEFINE n == Len(delivered) + 1
  <2>1. delivered \in Seq({Garbage} \union 1 .. MaxSent) /\ Len(delivered) \in Nat
    BY DEF TypeInv, SeqOK
  <2>2. /\ Len(delivered') = n /\ delivered'[n] = Published
        /\ \A i \in 1 .. Len(delivered) : delivered'[i] = delivered[i]
    BY <1>7, <2>1
  <2>3. \A i \in 1 .. Len(delivered') :
          /\ i \in 1 .. Len(delivered) \/ i = n
          /\ \A j \in 1 .. Len(delivered') : i < j => i \in 1 .. Len(delivered) /\ i # n
    BY <2>1, <2>2
  <2>4. \A i \in 1 .. Len(delivered) : delivered[i] \in Nat
    BY DeliveredNat
  <2>5. /\ Published \in Nat /\ Published <= sent
        /\ \A j \in 1 .. Len(stream') : Published < stream'[j].msg
        /\ Published # Garbage => stream[1].part = 1 /\ Published = stream[1].msg
        /\ Published = Garbage =>
             /\ \A i \in 1 .. Len(delivered) : delivered[i] < sent
             /\ \A j \in 1 .. Len(stream') : stream'[j].part = 1 =>
                  \A i \in 1 .. Len(delivered) : delivered[i] + 1 < stream'[j].msg
    BY <1>1, <1>3, <1>7, ReadPublishes
  <2>6. 1 \in 1 .. Len(stream)
    BY <1>2
  <2> HIDE DEF n
  <2>7. DeliveredInOrder'
    <3>1. \A i \in 1 .. Len(delivered') : delivered'[i] <= sent'
      BY <1>2, <2>2, <2>3, <2>5 DEF OrderInv, DeliveredInOrder
    <3>2. ASSUME NEW i \in 1 .. Len(delivered'), NEW j \in 1 .. Len(delivered'), i < j,
                 delivered'[j] # Garbage
          PROVE  delivered'[i] < delivered'[j]
      <4>1. i \in 1 .. Len(delivered)
        BY <2>3, <3>2
      <4>2. CASE j \in 1 .. Len(delivered)
        BY <2>2, <3>2, <4>1, <4>2 DEF OrderInv, DeliveredInOrder
      <4>3. CASE j = n
        BY <2>2, <2>5, <2>6, <3>2, <4>1, <4>3 DEF OrderInv
      <4> QED BY <2>3, <4>2, <4>3
    <3>3. ASSUME NEW i \in 1 .. Len(delivered'), NEW j \in 1 .. Len(delivered'), i < j,
                 delivered'[j] = Garbage
          PROVE  delivered'[i] < sent'
      <4>1. i \in 1 .. Len(delivered) /\ delivered'[i] = delivered[i]
        BY <2>2, <2>3, <3>3
      <4>2. CASE j \in 1 .. Len(delivered)
        BY <1>2, <2>2, <3>3, <4>1, <4>2 DEF OrderInv, DeliveredInOrder
      <4>3. CASE j = n
        BY <1>2, <2>2, <2>5, <3>3, <4>1, <4>3
      <4> QED BY <2>3, <4>2, <4>3
    <3>4. ASSUME NEW i \in 1 .. Len(delivered'), NEW j \in 1 .. Len(delivered'),
                 NEW l \in 1 .. Len(delivered'), i < j, j < l,
                 delivered'[j] = Garbage, delivered'[l] # Garbage
          PROVE  delivered'[i] + 1 < delivered'[l]
      <4>1. /\ i \in 1 .. Len(delivered) /\ delivered'[i] = delivered[i]
            /\ j \in 1 .. Len(delivered) /\ delivered'[j] = delivered[j]
        BY <2>2, <2>3, <3>4
      <4>2. CASE l \in 1 .. Len(delivered)
        BY <2>2, <3>4, <4>1, <4>2 DEF OrderInv, DeliveredInOrder
      <4>3. CASE l = n
        BY <2>2, <2>5, <2>6, <3>4, <4>1, <4>3 DEF OrderInv
      <4> QED BY <2>3, <4>2, <4>3
    <3> QED BY <3>1, <3>2, <3>3, <3>4 DEF DeliveredInOrder
  <2>8. ASSUME NEW j \in 1 .. Len(stream'), NEW i \in 1 .. Len(delivered')
        PROVE  delivered'[i] < stream'[j].msg
    BY <1>5, <2>2, <2>3, <2>5
  <2>9. ASSUME NEW j \in 1 .. Len(stream'), stream'[j].part = 1,
               NEW i \in 1 .. Len(delivered'), NEW l \in 1 .. Len(delivered'),
               i < l, delivered'[l] = Garbage
        PROVE  delivered'[i] + 1 < stream'[j].msg
    <3>1. i \in 1 .. Len(delivered) /\ delivered'[i] = delivered[i]
      BY <2>2, <2>3, <2>9
    <3>2. CASE l \in 1 .. Len(delivered)
      BY <1>5, <2>2, <2>9, <3>1, <3>2
    <3>3. CASE l = n
      BY <2>2, <2>5, <2>9, <3>1, <3>3
    <3> QED BY <2>3, <3>2, <3>3
  <2> QED BY <1>3, <1>4, <2>7, <2>8, <2>9 DEF OrderInv
<1> QED BY <1>6, <1>7 DEF Read

LEMMA StepOrder == TypeInv /\ OrderInv /\ FramedInv /\ [Next]_vars => OrderInv'
<1> SUFFICES ASSUME TypeInv, OrderInv, FramedInv, [Next]_vars PROVE OrderInv'
  OBVIOUS
<1> USE DEF OrderInv, DeliveredInOrder
<1>1. CASE Connect
  BY <1>1 DEF Connect
<1>2. CASE Send
  BY <1>2, SendOrder
<1>3. CASE SenderStops
  BY <1>3 DEF SenderStops
<1>4. CASE SenderStarts
  BY <1>4 DEF SenderStarts
<1>5. CASE Listen
  BY <1>5 DEF Listen
<1>6. CASE ReadEnd
  BY <1>6 DEF ReadEnd
<1>7. CASE ReceiverStops
  BY <1>7 DEF ReceiverStops
<1>8. CASE ReceiverStarts
  BY <1>8 DEF ReceiverStarts
<1>9. ASSUME NEW k \in 1 .. Len(stream), Read(k) PROVE OrderInv'
  BY <1>9, ReadOrder
<1>10. ASSUME NEW k \in 1 .. Len(stream), ReadGarbled(k) PROVE OrderInv'
  BY <1>10 DEF ReadGarbled
<1>11. CASE UNCHANGED vars
  BY <1>11 DEF vars
<1> QED BY <1>1, <1>2, <1>3, <1>4, <1>5, <1>6, <1>7, <1>8, <1>9, <1>10, <1>11 DEF Next

LEMMA InitFramed == Init => FramedInv
BY DEF Init, FramedInv

LEMMA SendFramed ==
  ASSUME TypeInv, OrderInv, FramedInv, NEW n \in Sizes, sent < MaxSent,
         stream' = stream \o Parts(sent + 1, n)
  PROVE  FramedInv'
<1>1. /\ Len(stream') = Len(stream) + n
      /\ \A i \in 1 .. Len(stream) : stream'[i] = stream[i]
      /\ \A i \in Len(stream) + 1 .. Len(stream') :
           stream'[i] = [msg |-> sent + 1, part |-> i - Len(stream), of |-> n]
  BY SendStream
<1>2. Len(stream) \in Nat /\ n \in Nat \ {0} /\ sent \in Nat
  BY StreamParts DEF TypeInv, TypeOK
<1>3. \A i \in 1 .. Len(stream') :
        i \in 1 .. Len(stream) \/ i \in Len(stream) + 1 .. Len(stream')
  BY <1>1, <1>2
<1>4. \A i \in Len(stream) + 1 .. Len(stream') :
        stream'[i].msg = sent + 1 /\ stream'[i].part = i - Len(stream) /\ stream'[i].of = n
  <2> SUFFICES ASSUME NEW i \in Len(stream) + 1 .. Len(stream')
               PROVE  stream'[i].msg = sent + 1 /\ stream'[i].part = i - Len(stream) /\ stream'[i].of = n
    OBVIOUS
  <2>1. stream'[i] = [msg |-> sent + 1, part |-> i - Len(stream), of |-> n]
    BY <1>1
  <2>2. sent + 1 \in Nat /\ i - Len(stream) \in Nat
    BY <1>1, <1>2
  <2> QED BY <1>2, <2>1, <2>2
<1>5. \A i \in 1 .. Len(stream) :
        stream[i].msg \in Nat /\ stream[i].part \in Nat /\ stream[i].of \in Nat
  BY StreamParts
<1>6. ASSUME NEW i \in 1 .. Len(stream'), NEW j \in 1 .. Len(stream'), i <= j
      PROVE  stream'[i].msg <= stream'[j].msg
  <2>1. CASE j \in 1 .. Len(stream)
    <3>1. i \in 1 .. Len(stream)
      BY <1>2, <1>6, <2>1
    <3> QED BY <1>1, <1>6, <2>1, <3>1 DEF FramedInv
  <2>2. CASE j \in Len(stream) + 1 .. Len(stream')
    <3>1. CASE i \in 1 .. Len(stream)
      BY <1>1, <1>2, <1>4, <1>5, <2>2, <3>1 DEF OrderInv
    <3>2. CASE i \in Len(stream) + 1 .. Len(stream')
      BY <1>2, <1>4, <2>2, <3>2
    <3> QED BY <1>3, <3>1, <3>2
  <2> QED BY <1>3, <2>1, <2>2
<1>7. ASSUME NEW i \in 1 .. Len(stream'), NEW j \in 0 .. stream'[i].of - stream'[i].part
      PROVE  i + j <= Len(stream') /\ stream'[i + j].part = stream'[i].part + j
  <2>1. CASE i \in 1 .. Len(stream)
    <3>1. stream'[i] = stream[i]
      BY <1>1, <2>1
    <3>2. i + j <= Len(stream) /\ stream[i + j].part = stream[i].part + j
      BY <1>7, <2>1, <3>1 DEF FramedInv
    <3>3. i + j \in 1 .. Len(stream)
      BY <1>2, <1>5, <2>1, <3>1, <3>2
    <3> QED BY <1>1, <1>2, <3>1, <3>2, <3>3
  <2>2. CASE i \in Len(stream) + 1 .. Len(stream')
    <3>1. stream'[i].part = i - Len(stream) /\ j \in 0 .. n - (i - Len(stream))
      BY <1>4, <1>7, <2>2
    <3>2. i + j \in Len(stream) + 1 .. Len(stream')
      BY <1>1, <1>2, <2>2, <3>1
    <3>3. stream'[i + j].part = (i + j) - Len(stream)
      BY <1>4, <3>2
    <3> QED BY <1>1, <1>2, <2>2, <3>1, <3>2, <3>3
  <2> QED BY <1>3, <2>1, <2>2
<1>8. ASSUME NEW i \in 1 .. Len(stream'), NEW j \in 1 .. Len(stream'),
             stream'[i].of - stream'[i].part < j - i
      PROVE  stream'[i].msg < stream'[j].msg
  <2>1. CASE i \in 1 .. Len(stream)
    <3>1. stream'[i] = stream[i] /\ stream[i].msg \in Nat /\ stream[i].msg <= sent
      BY <1>1, <1>5, <2>1 DEF OrderInv
    <3>2. CASE j \in 1 .. Len(stream)
      BY <1>1, <1>8, <2>1, <3>1, <3>2 DEF FramedInv
    <3>3. CASE j \in Len(stream) + 1 .. Len(stream')
      BY <1>2, <1>4, <3>1, <3>3
    <3> QED BY <1>3, <3>2, <3>3
  <2>2. CASE i \in Len(stream) + 1 .. Len(stream')
    <3>1. stream'[i].of - stream'[i].part = n - (i - Len(stream))
      BY <1>4, <2>2
    <3> QED BY <1>1, <1>2, <1>8, <2>2, <3>1
  <2> QED BY <1>3, <2>1, <2>2
<1> QED BY <1>6, <1>7, <1>8 DEF FramedInv

LEMMA ReadFramed ==
  ASSUME TypeInv, FramedInv, NEW k \in 1 .. Len(stream),
         stream' = SubSeq(stream, k + 1, Len(stream))
  PROVE  FramedInv'
<1>1. /\ Len(stream') = Len(stream) - k
      /\ \A i \in 1 .. Len(stream') : i + k \in 1 .. Len(stream) /\ stream'[i] = stream[i + k]
  BY ReadStream
<1>2. Len(stream) \in Nat /\ k \in Nat
  BY StreamParts
<1>3. \A i \in 1 .. Len(stream) : stream[i].part \in Nat /\ stream[i].of \in Nat
  BY StreamParts
<1>4. ASSUME NEW i \in 1 .. Len(stream'), NEW j \in 1 .. Len(stream'), i <= j
      PROVE  stream'[i].msg <= stream'[j].msg
  <2>1. i + k <= j + k
    BY <1>1, <1>2, <1>4
  <2> QED BY <1>1, <2>1 DEF FramedInv
<1>5. ASSUME NEW i \in 1 .. Len(stream'), NEW j \in 0 .. stream'[i].of - stream'[i].part
      PROVE  i + j <= Len(stream') /\ stream'[i + j].part = stream'[i].part + j
  <2>1. i + k \in 1 .. Len(stream) /\ stream'[i] = stream[i + k]
    BY <1>1
  <2>2. (i + k) + j <= Len(stream) /\ stream[(i + k) + j].part = stream[i + k].part + j
    BY <1>5, <2>1 DEF FramedInv
  <2>3. stream[i + k].part \in Nat /\ stream[i + k].of \in Nat
    BY <1>3, <2>1
  <2>4. j \in Nat /\ i \in Nat /\ i >= 1
    BY <2>1, <2>3
  <2>5. i + j \in 1 .. Len(stream') /\ (i + j) + k = (i + k) + j
    BY <1>1, <1>2, <2>2, <2>4
  <2>6. stream'[i + j] = stream[(i + k) + j]
    BY <1>1, <2>5
  <2> QED BY <2>1, <2>2, <2>5, <2>6
<1>6. ASSUME NEW i \in 1 .. Len(stream'), NEW j \in 1 .. Len(stream'),
             stream'[i].of - stream'[i].part < j - i
      PROVE  stream'[i].msg < stream'[j].msg
  <2>1. /\ i + k \in 1 .. Len(stream) /\ stream'[i] = stream[i + k]
        /\ j + k \in 1 .. Len(stream) /\ stream'[j] = stream[j + k]
    BY <1>1
  <2>2. (j + k) - (i + k) = j - i
    BY <1>2
  <2>3. stream[i + k].of - stream[i + k].part < (j + k) - (i + k)
    BY <1>6, <2>1, <2>2
  <2> QED BY <2>1, <2>3 DEF FramedInv
<1> QED BY <1>4, <1>5, <1>6 DEF FramedInv

LEMMA StepFramed == TypeInv /\ OrderInv /\ FramedInv /\ [Next]_vars => FramedInv'
<1> SUFFICES ASSUME TypeInv, OrderInv, FramedInv, [Next]_vars PROVE FramedInv'
  OBVIOUS
<1>1. CASE UNCHANGED stream
  BY <1>1 DEF FramedInv
<1>2. CASE stream' = <<>>
  BY <1>2 DEF FramedInv
<1>3. CASE Send
  BY <1>1, <1>3, SendFramed DEF Send
<1>4. ASSUME NEW k \in 1 .. Len(stream), Read(k) PROVE FramedInv'
  BY <1>4, ReadFramed DEF Read
<1>5. ASSUME NEW k \in 1 .. Len(stream), ReadGarbled(k) PROVE FramedInv'
  BY <1>2, <1>5 DEF ReadGarbled
<1>6. CASE Connect \/ SenderStops \/ SenderStarts \/ Listen \/ ReadEnd \/ ReceiverStarts
  BY <1>1, <1>6 DEF Connect, SenderStops, SenderStarts, Listen, ReadEnd, ReceiverStarts
<1>7. CASE ReceiverStops
  BY <1>2, <1>7 DEF ReceiverStops
<1>8. CASE UNCHANGED vars
  BY <1>1, <1>8 DEF vars
<1> QED BY <1>3, <1>4, <1>5, <1>6, <1>7, <1>8 DEF Next

\* Whatever reads split or merge, and whichever process stops and starts, the chains
\* that the receiver publishes were sent, in this order, and at most once; one that was
\* never sent takes the place of one that is missing.
THEOREM DeliveredInOrderCorrect == Spec => []DeliveredInOrder
<1>1. OrderInv => DeliveredInOrder
  BY DEF OrderInv
<1> QED BY <1>1, InitType, StepType, InitOrder, StepOrder, InitFramed, StepFramed, PTL DEF Spec
-----------------------------------------------------------------------------
(***************************************************************************)
(* Each step of the link is a step of LossyFifo, or none.                   *)
(***************************************************************************)
\* A message waits as long as its first part does.
LEMMA UnreadExact ==
  \A m : m \in Unread <=> \E i \in 1 .. Len(stream) : stream[i].part = 1 /\ stream[i].msg = m
BY Zenon DEF Unread

LEMMA UnreadExactNext ==
  \A m : m \in Unread' <=> \E i \in 1 .. Len(stream') : stream'[i].part = 1 /\ stream'[i].msg = m
BY Zenon DEF Unread

LEMMA UnreadSent ==
  ASSUME TypeInv, OrderInv
  PROVE  \A m \in Unread : m \in 1 .. sent
<1> SUFFICES ASSUME NEW m \in Unread PROVE m \in 1 .. sent
  OBVIOUS
<1>1. PICK i \in 1 .. Len(stream) : stream[i].part = 1 /\ stream[i].msg = m
  BY UnreadExact
<1>2. stream[i].msg \in Nat \ {0} /\ stream[i].msg <= sent
  BY StreamParts DEF OrderInv
<1>3. sent \in Nat
  BY DEF TypeInv, TypeOK
<1> QED BY <1>1, <1>2, <1>3

\* A message that is sent waits behind the others.
LEMMA SendWaits ==
  ASSUME TypeInv, sent < MaxSent, NEW n \in Sizes,
         stream' = stream \o Parts(sent + 1, n)
  PROVE  Unread' = Unread \union {sent + 1}
<1>1. /\ Len(stream') = Len(stream) + n
      /\ \A i \in 1 .. Len(stream) : stream'[i] = stream[i]
      /\ \A i \in Len(stream) + 1 .. Len(stream') :
           stream'[i] = [msg |-> sent + 1, part |-> i - Len(stream), of |-> n]
  BY SendStream
<1>2. Len(stream) \in Nat /\ n \in Nat \ {0} /\ sent \in Nat
  BY StreamParts DEF TypeInv, TypeOK
<1>3. \A i \in Len(stream) + 1 .. Len(stream') :
        stream'[i].msg = sent + 1 /\ stream'[i].part = i - Len(stream)
  <2> SUFFICES ASSUME NEW i \in Len(stream) + 1 .. Len(stream')
               PROVE  stream'[i].msg = sent + 1 /\ stream'[i].part = i - Len(stream)
    OBVIOUS
  <2>1. stream'[i] = [msg |-> sent + 1, part |-> i - Len(stream), of |-> n]
    BY <1>1
  <2>2. sent + 1 \in Nat /\ i - Len(stream) \in Nat
    BY <1>1, <1>2
  <2> QED BY <1>2, <2>1, <2>2
<1>4. ASSUME NEW m \in Unread' PROVE m \in Unread \union {sent + 1}
  <2>1. PICK i \in 1 .. Len(stream') : stream'[i].part = 1 /\ stream'[i].msg = m
    BY UnreadExactNext
  <2>2. CASE i \in 1 .. Len(stream)
    <3>1. stream'[i] = stream[i]
      BY <1>1, <2>2
    <3>2. m \in Unread
      BY <2>1, <2>2, <3>1, UnreadExact, Zenon
    <3> QED BY <3>2
  <2>3. CASE i \in Len(stream) + 1 .. Len(stream')
    BY <1>3, <2>1, <2>3
  <2> QED BY <1>1, <1>2, <2>2, <2>3
<1>5. ASSUME NEW m \in Unread PROVE m \in Unread'
  <2>1. PICK i \in 1 .. Len(stream) : stream[i].part = 1 /\ stream[i].msg = m
    BY UnreadExact
  <2>2. i \in 1 .. Len(stream') /\ stream'[i] = stream[i]
    BY <1>1, <1>2
  <2> QED BY <2>1, <2>2, UnreadExactNext, Zenon
<1>6. sent + 1 \in Unread'
  <2> DEFINE i == Len(stream) + 1
  <2>1. i \in Len(stream) + 1 .. Len(stream') /\ i \in 1 .. Len(stream') /\ i - Len(stream) = 1
    BY <1>1, <1>2
  <2>2. stream'[i].part = 1 /\ stream'[i].msg = sent + 1
    BY <1>3, <2>1
  <2> HIDE DEF i
  <2> QED BY <2>1, <2>2, UnreadExactNext, Zenon
<1> QED BY <1>4, <1>5, <1>6

\* After a read of k parts, the messages newer than the last part read wait.
LEMMA ReadKeepsNewer ==
  ASSUME TypeInv, OrderInv, FramedInv, NEW k \in 1 .. Len(stream),
         stream' = SubSeq(stream, k + 1, Len(stream))
  PROVE  Unread' = {m \in Unread : m > stream[k].msg}
<1>1. /\ Len(stream') = Len(stream) - k
      /\ \A i \in 1 .. Len(stream') : i + k \in 1 .. Len(stream) /\ stream'[i] = stream[i + k]
  BY ReadStream
<1>2. Len(stream) \in Nat /\ k \in Nat
  BY StreamParts
<1>3. \A i \in 1 .. Len(stream) : stream[i].msg \in Nat
  BY StreamParts
<1>4. ASSUME NEW m \in Unread' PROVE m \in Unread /\ m > stream[k].msg
  <2>1. PICK i \in 1 .. Len(stream') : stream'[i].part = 1 /\ stream'[i].msg = m
    BY UnreadExactNext
  <2>2. i + k \in 1 .. Len(stream) /\ stream[i + k].part = 1 /\ stream[i + k].msg = m
    BY <1>1, <2>1
  <2>3. m \in Unread
    BY <2>2, UnreadExact, Zenon
  <2>4. k \in 1 .. (i + k) - 1
    BY <1>2
  <2>5. stream[k].msg < stream[i + k].msg
    BY <2>2, <2>4 DEF OrderInv
  <2> QED BY <1>3, <2>2, <2>3, <2>5
<1>5. ASSUME NEW m \in Unread, m > stream[k].msg PROVE m \in Unread'
  <2>1. PICK i \in 1 .. Len(stream) : stream[i].part = 1 /\ stream[i].msg = m
    BY UnreadExact
  <2>2. ~(i <= k)
    <3>1. i <= k => stream[i].msg <= stream[k].msg
      BY DEF FramedInv
    <3> QED BY <1>3, <1>5, <2>1, <3>1
  <2>3. i - k \in 1 .. Len(stream') /\ (i - k) + k = i
    BY <1>1, <1>2, <2>2
  <2>4. stream'[i - k] = stream[i]
    BY <1>1, <2>3
  <2>5. stream'[i - k].part = 1 /\ stream'[i - k].msg = m
    BY <2>1, <2>4
  <2> QED BY <2>3, <2>5, UnreadExactNext, Zenon
<1> QED BY <1>4, <1>5

\* What is published of a message is the oldest one, and no other is read with it.
LEMMA ReadDelivers ==
  ASSUME TypeInv, OrderInv, FramedInv, NEW k \in 1 .. Len(stream), StartsMessage, MayMatch(k),
         stream' = SubSeq(stream, k + 1, Len(stream))
  PROVE  /\ stream[1].msg \in Unread
         /\ \A m \in Unread : stream[1].msg <= m
         /\ Unread' = Unread \ {stream[1].msg}
<1>1. 1 \in 1 .. Len(stream) /\ Len(stream) \in Nat /\ k \in Nat \ {0}
  BY StreamParts
<1>2. stream[1].part = 1 /\ stream[1].of = k
  BY DEF MayMatch, StartsMessage
<1>3. \A i \in 1 .. Len(stream) : stream[i].msg \in Nat
  BY StreamParts
<1>4. stream[1].msg \in Unread
  BY <1>1, <1>2, UnreadExact, Zenon
<1>5. \A i \in 1 .. k : stream[i].part = i
  <2> SUFFICES ASSUME NEW i \in 1 .. k PROVE stream[i].part = i
    OBVIOUS
  <2>1. i - 1 \in 0 .. stream[1].of - stream[1].part /\ 1 + (i - 1) = i
    BY <1>1, <1>2
  <2>2. stream[1 + (i - 1)].part = stream[1].part + (i - 1)
    BY <1>1, <2>1 DEF FramedInv
  <2> QED BY <1>2, <2>1, <2>2
<1>6. Unread' = {m \in Unread : m > stream[k].msg}
  BY ReadKeepsNewer
<1>7. ASSUME NEW m \in Unread, m # stream[1].msg
      PROVE  m > stream[k].msg /\ m > stream[1].msg
  <2>1. PICK i \in 1 .. Len(stream) : stream[i].part = 1 /\ stream[i].msg = m
    BY UnreadExact
  <2>2. i # 1 /\ ~(i \in 1 .. k)
    BY <1>1, <1>5, <1>7, <2>1
  <2>3. k \in 1 .. i - 1 /\ 1 \in 1 .. i - 1
    BY <1>1, <2>2
  <2>4. stream[k].msg < stream[i].msg /\ stream[1].msg < stream[i].msg
    BY <2>1, <2>3 DEF OrderInv
  <2> QED BY <1>1, <1>3, <2>1, <2>4
<1>8. ~(stream[1].msg > stream[k].msg)
  <2>1. 1 <= k
    BY <1>1
  <2>2. stream[1].msg <= stream[k].msg
    BY <1>1, <2>1 DEF FramedInv
  <2> QED BY <1>1, <1>3, <2>2
<1>9. \A m \in Unread : stream[1].msg <= m
  BY <1>1, <1>3, <1>7, UnreadSent
<1> QED BY <1>4, <1>6, <1>7, <1>8, <1>9

\* With its process a receiver loses all that waits.
LEMMA StopLosesAll ==
  ASSUME TypeInv, OrderInv, stream' = <<>>, UNCHANGED <<sent, delivered>>
  PROVE  [Fifo!Next]_<<sent, Unread, delivered>>
<1>1. Unread' = {}
  BY UnreadExactNext
<1>2. sent \in Nat
  BY DEF TypeInv, TypeOK
<1>3. CASE sent = 0
  <2>1. Unread = {}
    BY <1>3, UnreadSent
  <2> QED BY <1>1, <2>1
<1>4. CASE sent # 0
  <2>1. sent \in 1 .. sent
    BY <1>2, <1>4
  <2>2. {n \in Unread : n > sent} = {}
    BY <1>2, UnreadSent
  <2>3. Fifo!LoseUpTo(sent)
    BY <1>1, <2>2 DEF Fifo!LoseUpTo
  <2> QED BY <2>1, <2>3 DEF Fifo!Next
<1> QED BY <1>3, <1>4

LEMMA StepFifo ==
  TypeInv /\ OrderInv /\ FramedInv /\ [Next]_vars => [Fifo!Next]_<<sent, Unread, delivered>>
<1> SUFFICES ASSUME TypeInv, OrderInv, FramedInv, [Next]_vars
             PROVE  [Fifo!Next]_<<sent, Unread, delivered>>
  OBVIOUS
<1>1. CASE UNCHANGED <<stream, sent, delivered>>
  <2>1. Unread' = Unread
    BY <1>1 DEF Unread
  <2> QED BY <1>1, <2>1
<1>2. CASE Send
  <2>1. Unread' \in {Unread, Unread \union {sent + 1}}
    <3>1. CASE UNCHANGED stream
      BY <3>1 DEF Unread
    <3>2. CASE \E n \in Sizes : stream' = stream \o Parts(sent + 1, n)
      BY <1>2, <3>2, SendWaits DEF Send
    <3> QED BY <1>2, <3>1, <3>2 DEF Send
  <2>2. Fifo!Send
    BY <1>2, <2>1 DEF Send, Fifo!Send
  <2> QED BY <2>2 DEF Fifo!Next
<1>3. ASSUME NEW k \in 1 .. Len(stream), Read(k)
      PROVE  [Fifo!Next]_<<sent, Unread, delivered>>
  <2>1. stream' = SubSeq(stream, k + 1, Len(stream)) /\ sent' = sent
    BY <1>3 DEF Read
  <2>2. Unread' = {m \in Unread : m > stream[k].msg} /\ stream[k].msg \in 1 .. sent
    <3>1. Unread' = {m \in Unread : m > stream[k].msg}
      BY <2>1, ReadKeepsNewer
    <3> QED BY <3>1, StreamParts DEF OrderInv, TypeInv, TypeOK
  <2>3. CASE StartsMessage /\ MayMatch(k) /\ delivered' = Append(delivered, Published)
    <3>1. /\ stream[1].msg \in Unread
          /\ \A m \in Unread : stream[1].msg <= m
          /\ Unread' = Unread \ {stream[1].msg}
      BY <2>1, <2>3, ReadDelivers
    <3>2. Fifo!Deliver(stream[1].msg)
      BY <2>1, <2>3, <3>1 DEF Published, Fifo!Deliver
    <3> QED BY <3>1, <3>2 DEF Fifo!Next
  <2>4. CASE ~StartsMessage /\ delivered' = Append(delivered, Published)
    <3>1. Published = Fifo!Garbage
      BY <2>4 DEF Published, Garbage, Fifo!Garbage
    <3>2. \A i \in 1 .. Len(delivered) : delivered[i] < stream[k].msg
      BY DEF OrderInv
    <3>3. Fifo!Misdeliver(stream[k].msg)
      BY <2>1, <2>2, <2>4, <3>1, <3>2 DEF Fifo!Misdeliver
    <3> QED BY <2>2, <3>3 DEF Fifo!Next
  <2>5. CASE UNCHANGED delivered
    <3>1. Fifo!LoseUpTo(stream[k].msg)
      BY <2>1, <2>2, <2>5 DEF Fifo!LoseUpTo
    <3> QED BY <2>2, <3>1 DEF Fifo!Next
  <2> QED BY <1>3, <2>3, <2>4, <2>5 DEF Read
<1>4. ASSUME NEW k \in 1 .. Len(stream), ReadGarbled(k)
      PROVE  [Fifo!Next]_<<sent, Unread, delivered>>
  BY <1>4, StopLosesAll DEF ReadGarbled
<1>5. CASE ReceiverStops
  BY <1>5, StopLosesAll DEF ReceiverStops
<1>6. CASE Connect \/ SenderStops \/ SenderStarts \/ Listen \/ ReadEnd \/ ReceiverStarts
  BY <1>1, <1>6 DEF Connect, SenderStops, SenderStarts, Listen, ReadEnd, ReceiverStarts
<1>7. CASE UNCHANGED vars
  BY <1>1, <1>7 DEF vars
<1> QED BY <1>2, <1>3, <1>4, <1>5, <1>6, <1>7 DEF Next

LEMMA InitFifo == Init => Fifo!Init
<1> SUFFICES ASSUME Init PROVE Fifo!Init
  OBVIOUS
<1>1. Unread = {}
  BY UnreadExact DEF Init
<1> QED BY <1>1 DEF Init, Fifo!Init

\* A link of the bridge implements LossyFifo: a read that begins a message publishes the
\* oldest one or loses it, a read that does not publishes something only in the place of
\* a message whose beginning is lost, and whatever a read or a process that stops takes
\* from the stream is older than all that still arrives.
THEOREM FifoCorrect == Spec => FifoImplemented
<1> QED BY InitType, StepType, InitOrder, StepOrder, InitFramed, StepFramed, InitFifo,
           StepFifo, PTL DEF Spec, FifoImplemented, Fifo!Spec
=============================================================================
