------------------------------ MODULE MultiMap ------------------------------
(***************************************************************************)
(* The multi-map manager of RACER (multi_map_manager.cpp): drones cut their *)
(* maps into chunks, tell each other which chunks they know, and send those *)
(* that another one misses, their own or relayed, over a network that       *)
(* loses, repeats and reorders.  An idx_list_ is a sequence of intervals    *)
(* <<first, last>>; the contents of a chunk are one value.                  *)
(***************************************************************************)
EXTENDS Integers, Sequences, FiniteSetsExt

CONSTANTS
  MapNum,                 \* map_num_: drones 1 .. MapNum, the last the ground node
  ChunkSize,              \* chunk_size_
  Occ,                    \* results of querying the occupancy of a chunk
  Empty,                  \* a placeholder (empty_)
  NeedQuery,              \* an own chunk whose occupancy is not yet queried
  MaxChunks,              \* bound: chunks of drone d; with 0 its map does not grow
  MaxAdrs,                \* bound: addresses of one call of updateMapChunk
  MaxNet,                 \* bound: chunks on their way, the others are lost at once
  MaxListId               \* bound: lists on which ListOpsExact is checked

Infinite == 2147483647     \* the largest int, the type of a chunk's number

ASSUME MultiMapAssumption ==
  /\ MapNum \in Nat \ {0}
  /\ ChunkSize \in Nat \ {0}
  /\ MaxAdrs \in Nat
  /\ MaxChunks \in [1 .. MapNum -> 0 .. Infinite]
  /\ MaxListId \in 0 .. Infinite
  /\ Empty # NeedQuery /\ {Empty, NeedQuery} \cap Occ = {}

VARIABLES
  up,                     \* the drones whose process has not crashed
  adr_buffer,             \* adr_buffer[d]: its number of addresses
  chunks,                 \* chunks[d][s]: multi_map_chunks_[s - 1].chunks_ of d
  idx_list,               \* idx_list[d][s]: multi_map_chunks_[s - 1].idx_list_ of d
  chunk_buffer,           \* chunk_buffer[d][s]: received, not yet processed
  stamp,                  \* stamp[d]: the idx lists d has sent last
  net                     \* chunks on their way, to everybody

vars == <<up, adr_buffer, chunks, idx_list, chunk_buffer, stamp, net>>

Drones == 1 .. MapNum
ChunkIds == UNION {1 .. MaxChunks[d] : d \in Drones}
Messages == [from : Drones, chunk_drone : Drones, idx : ChunkIds, occ : Occ]

Init ==
  /\ up = Drones
  /\ adr_buffer = [d \in Drones |-> 0]
  /\ chunks = [d \in Drones |-> [s \in Drones |-> <<>>]]
  /\ idx_list = [d \in Drones |-> [s \in Drones |-> <<>>]]
  /\ chunk_buffer = [d \in Drones |-> [s \in Drones |-> {}]]
  /\ stamp = [d \in Drones |-> [s \in Drones |-> <<>>]]
  /\ net = {}
-----------------------------------------------------------------------------
(***************************************************************************)
(* Lists of intervals.                                                      *)
(***************************************************************************)
IdsOf(intervals) == UNION {i[1] .. i[2] : i \in intervals}
ListIds(list) == IdsOf(Range(list))

findIntersect(a, b) == <<Max({a[1], b[1]}), Min({a[2], b[2]})>>
Intersects(a, b) == findIntersect(a, b)[1] <= findIntersect(a, b)[2]

\* The complement of a list that is not empty.
NotInOther(other) ==
  {<<other[k][2] + 1, IF k = Len(other) THEN Infinite ELSE other[k + 1][1] - 1>> :
     k \in DOMAIN other}
  \cup (IF other[1][1] > 1 THEN {<<1, other[1][1] - 1>>} ELSE {})

\* Mutant: a drone that lists nothing misses nothing.
findMissedChunkIdsNotEmpty(self, other) ==
  IF other = <<>> THEN {}
  ELSE {i \in {findIntersect(a, b) : a \in Range(self), b \in NotInOther(other)} :
          i[1] <= i[2]}

\* The intervals of self that other misses.
findMissedChunkIds(self, other) ==
  IF other = <<>> THEN Range(self)
  ELSE {i \in {findIntersect(a, b) : a \in Range(self), b \in NotInOther(other)} :
          i[1] <= i[2]}

\* back() of the vector is assigned.
SetBack(list, last) == [list EXCEPT ![Len(list)] = <<@[1], last>>]

\* An interval that touches or overlaps the last one extends it.
Join(list, i) ==
  IF list # <<>> /\ list[Len(list)][2] >= i[1] - 1
  THEN SetBack(list, i[2]) ELSE Append(list, i)

\* Mutant: the order of comparison leaves intervals apart that touch.
RemoveRedundantOverlaps(list) ==
  LET done[k \in 0 .. Len(list)] ==
        IF k = 0 THEN <<>>
        ELSE LET prev == done[k - 1]
             IN IF prev # <<>> /\ prev[Len(prev)][2] > list[k][1] - 1
                THEN SetBack(prev, list[k][2]) ELSE Append(prev, list[k])
  IN done[Len(list)]

\* Neighbouring intervals that touch or overlap become one.
RemoveRedundant(list) ==
  LET done[k \in 0 .. Len(list)] == IF k = 0 THEN <<>> ELSE Join(done[k - 1], list[k])
  IN done[Len(list)]

\* The intervals that i meets, widened by i.
Widened(list, i) ==
  [k \in DOMAIN list |->
     IF Intersects(list[k], i)
     THEN <<Min({list[k][1], i[1]}), Max({list[k][2], i[2]})>>
     ELSE list[k]]

\* i lies between the intervals p and p + 1, or before or after all.
Fits(list, i, p) ==
  /\ p = 0 \/ list[p][2] < i[1]
  /\ p = Len(list) \/ i[2] < list[p + 1][1]

\* An interval that meets none, inserted at its place.
Inserted(list, i) ==
  LET p == CHOOSE p \in 0 .. Len(list) : Fits(list, i, p)
  IN [k \in 1 .. Len(list) + 1 |->
        IF k <= p THEN list[k] ELSE IF k = p + 1 THEN i ELSE list[k - 1]]

MergeInterval(list, i) ==
  RemoveRedundant(IF \E k \in DOMAIN list : Intersects(list[k], i)
                  THEN Widened(list, i) ELSE Inserted(list, i))

mergeChunkIds(list1, list2) ==
  LET output[k \in 0 .. Len(list2)] ==
        IF k = 0 THEN list1 ELSE MergeInterval(output[k - 1], list2[k])
  IN IF list1 = <<>> THEN list2 ELSE output[Len(list2)]

\* The list of a set of numbers, as chunkTimerCallback builds it: in order, each
\* number extends the last interval or starts the next.
ListOf(ids) ==
  LET list[n \in 0 .. Max({0} \cup ids)] ==
        IF n = 0 THEN <<>>
        ELSE IF n \in ids THEN Join(list[n - 1], <<n, n>>) ELSE list[n - 1]
  IN list[Max({0} \cup ids)]
-----------------------------------------------------------------------------
(***************************************************************************)
(* Own chunks.                                                              *)
(***************************************************************************)
\* Of size addresses, the complete chunks; the loop's comparison is strict,
\* so that some addresses always stay in the buffer.
CompleteChunks(size) == IF size >= ChunkSize THEN (size - 1) \div ChunkSize ELSE 0

\* The map has n new voxels.  A buffer of exactly ChunkSize addresses inserts
\* no chunk; back() of a vector still empty then ends the process.
updateMapChunk(d, n) ==
  LET size == adr_buffer[d] + n
      inserted == CompleteChunks(size)
      own == chunks[d][d] \o [k \in 1 .. inserted |-> NeedQuery]
  IN /\ d \in up
     /\ MaxChunks[d] > 0 /\ Len(own) <= MaxChunks[d]
     /\ IF size >= ChunkSize /\ own = <<>>
        THEN /\ up' = up \ {d}
             /\ UNCHANGED <<adr_buffer, chunks, idx_list>>
        ELSE /\ adr_buffer' = [adr_buffer EXCEPT ![d] = size - inserted * ChunkSize]
             /\ chunks' = [chunks EXCEPT ![d][d] = own]
             /\ idx_list' = [idx_list EXCEPT ![d][d] =
                  IF size < ChunkSize THEN @
                  ELSE IF @ = <<>> THEN << <<1, Len(own)>> >>
                  ELSE SetBack(@, Len(own))]
             /\ UNCHANGED up
     /\ UNCHANGED <<chunk_buffer, stamp, net>>
-----------------------------------------------------------------------------
(***************************************************************************)
(* Exchange.                                                                *)
(***************************************************************************)
\* The own list is sent as well, but no receiver reads it.
stampTimerCallback(d) ==
  /\ d \in up
  /\ stamp' = [stamp EXCEPT ![d] = [idx_list[d] EXCEPT ![d] = <<>>]]
  /\ UNCHANGED <<up, adr_buffer, chunks, idx_list, chunk_buffer, net>>

\* What d sends on the stamp of another: chunks of everybody but that one.
Sends(d, from) ==
  {p \in (Drones \ {from}) \X ChunkIds :
     p[2] \in IdsOf(findMissedChunkIds(idx_list[d][p[1]], stamp[from][p[1]]))}

\* Mutants: chunks are sent without a query, or queried each time.
QueriedNever(d, from) == {}
QueriedAlways(d, from) == {i \in ChunkIds : <<d, i>> \in Sends(d, from)}

\* An own chunk is queried before it is sent for the first time.
Queried(d, from) == {i \in ChunkIds : <<d, i>> \in Sends(d, from) /\ chunks[d][d][i] = NeedQuery}

\* The ground node, which has the last id, sends nothing.  That a stamp may be
\* dropped by the 0.3 s check is one of the ways to lose it.
stampMsgCallback(d, from) ==
  /\ d \in up
  /\ from # d
  /\ d # MapNum
  /\ \E occ \in [Queried(d, from) -> Occ] :
       chunks' = [chunks EXCEPT ![d][d] =
         [i \in DOMAIN @ |-> IF i \in DOMAIN occ THEN occ[i] ELSE @[i]]]
  /\ net' \in {n \in SUBSET (net \cup
       {[from |-> d, chunk_drone |-> p[1], idx |-> p[2], occ |-> chunks'[d][p[1]][p[2]]] :
          p \in Sends(d, from)}) : net \subseteq n /\ Cardinality(n) <= MaxNet}
  /\ UNCHANGED <<up, adr_buffer, idx_list, chunk_buffer, stamp>>

\* Everybody takes every chunk: the check of to_drone_id is commented out.
\* One copy of a chunk is buffered at a time (buffer_map_).
chunkCallback(d, m) ==
  /\ d \in up
  /\ m.from # d
  /\ \A b \in chunk_buffer[d][m.chunk_drone] : b.idx # m.idx
  /\ chunk_buffer' = [chunk_buffer EXCEPT ![d][m.chunk_drone] =
       @ \cup {[idx |-> m.idx, occ |-> m.occ]}]
  /\ UNCHANGED <<up, adr_buffer, chunks, idx_list, stamp, net>>

\* Mutants: a placeholder is not filled; the vector ends with the last chunk received.
InsertNoFill(held, buffer) ==
  LET ids == {b.idx : b \in buffer}
  IN [i \in 1 .. Max({Len(held)} \cup ids) |->
        IF i <= Len(held) THEN held[i]
        ELSE IF i \in ids THEN (CHOOSE b \in buffer : b.idx = i).occ
        ELSE Empty]
InsertResized(held, buffer) ==
  LET ids == {b.idx : b \in buffer}
  IN [i \in 1 .. (IF ids = {} THEN Len(held) ELSE Max(ids)) |->
        IF i <= Len(held) /\ held[i] # Empty THEN held[i]
        ELSE IF i \in ids THEN (CHOOSE b \in buffer : b.idx = i).occ
        ELSE Empty]

\* Placeholders up to the highest number, then only what was one is filled.
Insert(held, buffer) ==
  LET ids == {b.idx : b \in buffer}
  IN [i \in 1 .. Max({Len(held)} \cup ids) |->
        IF i <= Len(held) /\ held[i] # Empty THEN held[i]
        ELSE IF i \in ids THEN (CHOOSE b \in buffer : b.idx = i).occ
        ELSE Empty]

chunkTimerCallback(d) ==
  /\ d \in up
  /\ chunks' = [chunks EXCEPT ![d] = [s \in Drones |-> Insert(@[s], chunk_buffer[d][s])]]
  /\ idx_list' = [idx_list EXCEPT ![d] = [s \in Drones |->
       IF chunk_buffer[d][s] = {} THEN @[s]
       ELSE mergeChunkIds(ListOf({b.idx : b \in chunk_buffer[d][s]}), @[s])]]
  /\ chunk_buffer' = [chunk_buffer EXCEPT ![d] = [s \in Drones |-> {}]]
  /\ UNCHANGED <<up, adr_buffer, stamp, net>>

\* A message stays, and may arrive again, until it is lost.
Lose(m) ==
  /\ net' = net \ {m}
  /\ UNCHANGED <<up, adr_buffer, chunks, idx_list, chunk_buffer, stamp>>

Next ==
  \/ \E d \in Drones, n \in 1 .. MaxAdrs : updateMapChunk(d, n)
  \/ \E d \in Drones : stampTimerCallback(d) \/ chunkTimerCallback(d)
  \/ \E d, from \in Drones : stampMsgCallback(d, from)
  \/ \E d \in Drones, m \in net : chunkCallback(d, m)
  \/ \E m \in net : Lose(m)

Spec == Init /\ [][Next]_vars

\* Some copy of chunk i of s reaches d.
Receives(d, s, i) ==
  \E m \in net : m.chunk_drone = s /\ m.idx = i /\ chunkCallback(d, m)

\* Timers run; a stamp sent again and again is at last handled, and a chunk
\* sent again and again at last arrives.
Fairness ==
  \A d \in Drones :
    /\ WF_vars(stampTimerCallback(d))
    /\ WF_vars(chunkTimerCallback(d))
    /\ \A s \in Drones \ {d} :
         /\ WF_vars(stampMsgCallback(s, d))
         /\ \A i \in 1 .. MaxChunks[s] : SF_vars(Receives(d, s, i))

FairSpec == Spec /\ Fairness
-----------------------------------------------------------------------------
TypeOK ==
  /\ up \subseteq Drones
  /\ adr_buffer \in [Drones -> 0 .. ChunkSize]
  /\ \A d, s \in Drones :
       /\ Range(chunks[d][s]) \subseteq Occ \cup {Empty, NeedQuery}
       /\ Len(chunks[d][s]) <= MaxChunks[s]
       /\ \A l \in {idx_list[d][s], stamp[d][s]} : Range(l) \subseteq ChunkIds \X ChunkIds
       /\ chunk_buffer[d][s] \subseteq [idx : ChunkIds, occ : Occ]
  /\ net \subseteq Messages

Held(d, s) == {i \in DOMAIN chunks[d][s] : chunks[d][s][i] # Empty}

\* Intervals in order, with a gap between neighbours.
Apart(list) ==
  \A k \in DOMAIN list :
    list[k][1] <= list[k][2] /\ (k > 1 => list[k - 1][2] + 1 < list[k][1])

\* The list of known chunks, which is all that the others and sendChunks go by,
\* names exactly the chunks that are there and not a placeholder, in intervals
\* that are ordered and apart, whatever the batches they came in.
ListsExact ==
  \A d, s \in Drones :
    ListIds(idx_list[d][s]) = Held(d, s) /\ Apart(idx_list[d][s])

\* The interval arithmetic agrees with sets of numbers: what is found missing is
\* the difference, what is merged is the union, in order and apart again.
OpsExact(list, other) ==
  LET S == ListIds(list)  T == ListIds(other)
  IN /\ IdsOf(findMissedChunkIds(list, other)) = S \ T
     /\ mergeChunkIds(list, other) = ListOf(S \cup T)

\* It does so on all pairs of lists of numbers up to MaxListId.
OpsExactUpTo == \A S, T \in SUBSET (1 .. MaxListId) : OpsExact(ListOf(S), ListOf(T))

\* A stamp is answered with exactly what its sender misses, neither skipping a
\* chunk at the edge of an interval nor reaching beyond the chunks that are
\* there, for the lists drones hold and for all others up to MaxListId.
ListOpsExact ==
  OpsExactUpTo /\ \A from \in Drones : \A d, s \in Drones \ {from} :
                    OpsExact(idx_list[d][s], stamp[from][s])

\* All copies of a chunk have the contents the owner has: its map changes on,
\* but it is queried once, and relays pass on what they were given.
SameContents ==
  \A d, s \in Drones : \A i \in Held(d, s) :
    d # s => i \in Held(s, s) /\ chunks[d][s][i] = chunks[s][s][i]

\* The exchange keeps the promise of ChunkGossip.
Gossip == INSTANCE ChunkGossip WITH
  Ids <- ChunkIds,
  Nothing <- Empty,
  Unsettled <- NeedQuery,
  held <- [d \in Drones |-> [s \in Drones |-> [i \in ChunkIds |->
             IF i \in DOMAIN chunks[d][s] THEN chunks[d][s][i] ELSE Empty]]]
GossipImplemented == Gossip!Spec

\* Once the maps no longer grow (MaxChunks), every drone that is up comes to
\* hold all chunks of every other but the ground node, however often messages
\* are lost.
EventuallyShared ==
  <>[](\A d \in up, s \in Drones \ {MapNum} : Held(s, s) \subseteq Held(d, s))
=============================================================================
