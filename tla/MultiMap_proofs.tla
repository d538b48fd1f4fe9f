--------------------------- MODULE MultiMap_proofs ---------------------------
(***************************************************************************)
(* The exchange of chunks is correct, for any number of drones, of chunks    *)
(* and of messages.  First comes what its definitions by recursion compute:  *)
(* the library's induction takes a predicate, here it is taken for a set,    *)
(* which is first order; so each of these definitions has a solution and     *)
(* its values are known.  Then come the interval lists: what is missing is a *)
(* difference, what is merged a union, whatever the lists.  On these rests    *)
(* the inductive invariant, and on it the properties of the runs and the     *)
(* refinement of ChunkGossip.                                                *)
(***************************************************************************)
EXTENDS MultiMap, WellFoundedInduction, TLAPS

\* An interval has two ends; a list is a sequence of intervals, in any order.
Intervals == Nat \X Nat
Lists == Seq(Intervals)

\* Induction over the naturals, for a set in place of a predicate: if a number
\* were missing, the least missing one would not be 0, nor a successor.
LEMMA SetInduction ==
  ASSUME NEW S, 0 \in S, \A n \in Nat : n \in S => n + 1 \in S
  PROVE  Nat \subseteq S
<1> DEFINE T == Nat \ S
<1>1. SUFFICES ASSUME T # {} PROVE FALSE
  OBVIOUS
<1> DEFINE R == OpToRel(<, Nat)
<1>2. IsWellFoundedOn(R, Nat)
  BY NatLessThanWellFounded
<1> HIDE DEF R
<1>3. PICK x \in T : \A y \in T : ~ (<<y, x>> \in R)
  <2>1. T \subseteq Nat OBVIOUS
  <2> HIDE DEF T
  <2> QED BY <1>1, <1>2, <2>1, WFMin
<1>4. x # 0 /\ x - 1 \in Nat
  OBVIOUS
<1>5. x - 1 \in T
  BY <1>4
<1>6. <<x - 1, x>> \in R
  BY <1>4 DEF R, OpToRel
<1> QED BY <1>3, <1>5, <1>6

\* g is defined by recursion over 0 .. n: from b, by step.
Steps(D, n) == [(1 .. n) \X D -> D]
Solves(g, b, step, n, D) ==
  /\ g \in [0 .. n -> D]
  /\ g[0] = b
  /\ \A i \in 1 .. n : g[i] = step[<<i, g[i - 1]>>]

\* A definition by recursion over 0 .. n has a solution.
LEMMA RecursionExists ==
  ASSUME NEW D, NEW b \in D, NEW n \in Nat, NEW step \in Steps(D, n)
  PROVE  \E g : Solves(g, b, step, n, D)
<1> USE DEF Steps
<1> DEFINE SolvesTo(g, m) == /\ g \in [0 .. m -> D]
                             /\ g[0] = b
                             /\ \A i \in 1 .. m : g[i] = step[<<i, g[i - 1]>>]
<1> DEFINE S == {m \in Nat : m <= n => \E g : SolvesTo(g, m)}
<1>1. 0 \in S
  <2>1. SolvesTo([i \in 0 .. 0 |-> b], 0)
    OBVIOUS
  <2> QED BY <2>1
<1>2. ASSUME NEW m \in Nat, m \in S PROVE m + 1 \in S
  <2>1. SUFFICES ASSUME m + 1 <= n PROVE \E g : SolvesTo(g, m + 1)
    BY <1>2
  <2>2. PICK g : SolvesTo(g, m)
    BY <1>2, <2>1
  <2> DEFINE h == [i \in 0 .. m + 1 |-> IF i = m + 1 THEN step[<<m + 1, g[m]>>] ELSE g[i]]
  <2>3. g[m] \in D /\ step[<<m + 1, g[m]>>] \in D
    BY <2>1, <2>2
  <2>4. h \in [0 .. m + 1 -> D] /\ h[0] = b
    BY <2>2, <2>3
  <2>5. ASSUME NEW i \in 1 .. m + 1 PROVE h[i] = step[<<i, h[i - 1]>>]
    <3>1. CASE i = m + 1
      <4>1. h[m + 1] = step[<<m + 1, g[m]>>] /\ h[m] = g[m]
        OBVIOUS
      <4>2. i - 1 = m
        BY <3>1
      <4> HIDE DEF h
      <4> QED BY <3>1, <4>1, <4>2
    <3>2. CASE i # m + 1
      <4>1. i \in 1 .. m /\ i - 1 \in 0 .. m /\ i - 1 # m + 1
        BY <3>2
      <4>2. h[i] = g[i] /\ h[i - 1] = g[i - 1]
        BY <4>1
      <4> QED BY <2>2, <4>1, <4>2
    <3> QED BY <3>1, <3>2
  <2> QED BY <2>4, <2>5
<1>3. Nat \subseteq S
  <2> HIDE DEF S
  <2> QED BY <1>1, <1>2, SetInduction
<1> QED BY <1>3 DEF Solves

\* Induction over 0 .. n.
LEMMA BoundedInduction ==
  ASSUME NEW n \in Nat, NEW S, 0 \in S, \A k \in 1 .. n : k - 1 \in S => k \in S
  PROVE  \A k \in 0 .. n : k \in S
<1> DEFINE T == {k \in Nat : k <= n => k \in S}
<1>1. 0 \in T
  OBVIOUS
<1>2. ASSUME NEW k \in Nat, k \in T PROVE k + 1 \in T
  <2>1. CASE k + 1 <= n
    <3>1. k + 1 \in 1 .. n /\ (k + 1) - 1 = k /\ k \in S
      BY <1>2, <2>1
    <3>2. k + 1 \in S
      BY <3>1
    <3> QED BY <3>2
  <2>2. CASE ~ (k + 1 <= n)
    BY <2>2
  <2> QED BY <2>1, <2>2
<1>3. Nat \subseteq T
  <2> HIDE DEF T
  <2> QED BY <1>1, <1>2, SetInduction
<1> QED BY <1>3

\* A set of numbers up to a bound has a largest one.
LEMMA MaxOfBounded ==
  ASSUME NEW N \in Nat, NEW S \in SUBSET (0 .. N), S # {}
  PROVE  Max(S) \in S /\ \A x \in S : x <= Max(S)
<1> DEFINE Tops == {m \in Nat : \A T \in SUBSET (0 .. m) :
                                 T # {} => \E x \in T : \A y \in T : y <= x}
<1>1. 0 \in Tops
  <2>1. ASSUME NEW T \in SUBSET (0 .. 0), NEW x \in T PROVE \A y \in T : y <= x
    <3>1. \A y \in T : y = 0
      OBVIOUS
    <3> QED BY <3>1
  <2> QED BY <2>1
<1>2. ASSUME NEW m \in Nat, m \in Tops PROVE m + 1 \in Tops
  <2>1. SUFFICES ASSUME NEW T \in SUBSET (0 .. m + 1), T # {}
                 PROVE  \E x \in T : \A y \in T : y <= x
    OBVIOUS
  <2>2. CASE m + 1 \in T
    BY <2>2
  <2>3. CASE m + 1 \notin T
    <3>1. T \in SUBSET (0 .. m)
      BY <2>3
    <3> QED BY <1>2, <2>1, <3>1
  <2> QED BY <2>2, <2>3
<1>3. Nat \subseteq Tops
  <2> HIDE DEF Tops
  <2> QED BY <1>1, <1>2, SetInduction
<1>4. \E x \in S : \A y \in S : y <= x
  BY <1>3
<1> QED
  BY <1>4 DEF Max

\* The bound is the maximum of a set it belongs to.
LEMMA MaxIsBound ==
  ASSUME NEW N \in Nat, NEW S \in SUBSET (0 .. N), N \in S PROVE Max(S) = N
<1>1. Max(S) \in S /\ \A x \in S : x <= Max(S)
  BY MaxOfBounded
<1>2. Max(S) \in 0 .. N /\ N <= Max(S)
  BY <1>1
<1> QED
  BY <1>2

\* The maximum of two numbers.
LEMMA MaxOfTwo ==
  ASSUME NEW a \in Int, NEW b \in Int PROVE Max({a, b}) = IF a >= b THEN a ELSE b
BY DEF Max

\* The minimum of two numbers.
LEMMA MinOfTwo ==
  ASSUME NEW a \in Int, NEW b \in Int PROVE Min({a, b}) = IF a <= b THEN a ELSE b
BY DEF Min
-----------------------------------------------------------------------------
(***************************************************************************)
(* Lists of intervals.                                                      *)
(***************************************************************************)
\* What a list is made of.
LEMMA ListFacts ==
  ASSUME NEW list \in Lists
  PROVE  /\ Len(list) \in Nat /\ DOMAIN list = 1 .. Len(list)
         /\ \A k \in DOMAIN list : /\ list[k] \in Intervals
                                   /\ list[k] = <<list[k][1], list[k][2]>>
                                   /\ list[k][1] \in Nat /\ list[k][2] \in Nat
<1>1. Len(list) \in Nat /\ DOMAIN list = 1 .. Len(list)
  BY DEF Lists
<1>2. \A k \in DOMAIN list : list[k] \in Intervals
  BY <1>1 DEF Lists
<1>3. \A i \in Intervals : i = <<i[1], i[2]>> /\ i[1] \in Nat /\ i[2] \in Nat
  BY DEF Intervals
<1> QED
  BY <1>1, <1>2, <1>3

\* A list names the numbers that lie in one of its intervals.
LEMMA ListIdsMember ==
  ASSUME NEW list \in Lists, NEW n
  PROVE  n \in ListIds(list) <=>
           n \in Int /\ \E k \in DOMAIN list : list[k][1] <= n /\ n <= list[k][2]
BY DEF ListIds, IdsOf, Range, Lists, Intervals

\* The empty list is in order and names nothing.
LEMMA EmptyList == <<>> \in Lists /\ Apart(<<>>) /\ ListIds(<<>>) = {}
<1>1. <<>> \in Lists /\ Apart(<<>>)
  BY DEF Lists, Apart
<1>2. \A n : n \notin ListIds(<<>>)
  BY <1>1, ListIdsMember
<1> QED BY <1>1, <1>2

\* Two lists with the same integers have the same numbers.
LEMMA SameIds ==
  ASSUME NEW list \in Lists, NEW S \in SUBSET Int,
         \A m \in Int : m \in ListIds(list) <=> m \in S
  PROVE  ListIds(list) = S
BY ListIdsMember

\* Not only neighbours are apart.
LEMMA ApartInOrder ==
  ASSUME NEW list \in Lists, Apart(list), NEW j \in DOMAIN list, NEW k \in DOMAIN list, j < k
  PROVE  list[j][2] + 1 < list[k][1]
<1> USE ListFacts
<1> DEFINE S == {n \in Nat : j + 1 + n \in DOMAIN list => list[j][2] + 1 < list[j + 1 + n][1]}
<1>1. 0 \in S
  BY DEF Apart
<1>2. ASSUME NEW n \in Nat, n \in S PROVE n + 1 \in S
  <2>1. SUFFICES ASSUME j + 1 + (n + 1) \in DOMAIN list
                 PROVE  list[j][2] + 1 < list[j + 1 + (n + 1)][1]
    OBVIOUS
  <2>2. PICK p \in DOMAIN list : p = j + 1 + n /\ p + 1 \in DOMAIN list
    BY <2>1, SMTT(30)
  <2>3. list[j][2] + 1 < list[p][1]
    BY <1>2, <2>2
  <2>4. list[p][1] <= list[p][2] /\ list[p][2] + 1 < list[p + 1][1]
    <3>1. p + 1 > 1 /\ (p + 1) - 1 = p
      BY <2>2, SMTT(30)
    <3> QED BY <2>2, <3>1 DEF Apart
  <2>5. /\ list[j][2] \in Nat /\ list[p][1] \in Nat /\ list[p][2] \in Nat
        /\ list[p + 1][1] \in Nat
    BY <2>2
  <2>6. list[j][2] + 1 < list[p + 1][1]
    BY <2>3, <2>4, <2>5, SMTT(30)
  <2>7. j + 1 + (n + 1) = p + 1
    BY <2>2
  <2> QED
    BY <2>6, <2>7
<1>3. Nat \subseteq S
  <2> HIDE DEF S
  <2> QED BY <1>1, <1>2, SetInduction
<1>4. k - j - 1 \in Nat /\ j + 1 + (k - j - 1) = k
  OBVIOUS
<1> QED
  BY <1>3, <1>4

\* An interval that meets none of a list fits between two neighbours.
LEMMA SomePlaceFits ==
  ASSUME NEW list \in Lists, Apart(list), NEW i \in Intervals, i[1] <= i[2],
         \A k \in DOMAIN list : list[k][2] < i[1] \/ i[2] < list[k][1]
  PROVE  \E p \in 0 .. Len(list) : Fits(list, i, p)
<1> USE ListFacts
<1>0. i[1] \in Nat /\ i[2] \in Nat
  BY DEF Intervals
<1> DEFINE Below == {k \in 0 .. Len(list) : k = 0 \/ list[k][2] < i[1]}
<1>1. Below \in SUBSET (0 .. Len(list)) /\ Below # {} /\ Len(list) \in Nat
  OBVIOUS
<1>2. Max(Below) \in Below /\ \A k \in Below : k <= Max(Below)
  <2> HIDE DEF Below
  <2> QED BY <1>1, MaxOfBounded
<1> DEFINE p == Max(Below)
<1>3. p \in 0 .. Len(list) /\ (p = 0 \/ list[p][2] < i[1])
  BY <1>2
<1>4. ASSUME p # Len(list) PROVE i[2] < list[p + 1][1]
  <2>1. p + 1 \in DOMAIN list /\ p + 1 \notin Below
    <3> DEFINE q == Max(Below)
    <3>1. q \in Nat /\ q + 1 \notin Below
      <4>1. q \in Nat /\ \A k \in Below : k <= q
        BY <1>2, <1>3
      <4> HIDE DEF Below, q
      <4> QED BY <4>1
    <3> QED BY <1>3, <1>4, <3>1
  <2> QED BY <1>0, <2>1
<1> QED
  BY <1>3, <1>4 DEF Fits

\* Of two lists of the same numbers that agree up to n, where one starts its next
\* interval the other has one, which does not start later.
LEMMA NextStart ==
  ASSUME NEW X \in Lists, NEW Y \in Lists, Apart(X), Apart(Y), ListIds(X) = ListIds(Y),
         NEW n \in Nat, \A k \in 1 .. n : k \in DOMAIN Y /\ X[k] = Y[k],
         n + 1 \in DOMAIN X
  PROVE  n + 1 \in DOMAIN Y /\ Y[n + 1][1] <= X[n + 1][1]
<1> DEFINE x == X[n + 1][1]
<1>1. x \in Nat /\ x <= X[n + 1][2]
  BY ListFacts DEF Apart
<1>2. x \in ListIds(X)
  BY <1>1, ListIdsMember
<1>3. PICK m \in DOMAIN Y : Y[m][1] <= x /\ x <= Y[m][2]
  BY <1>2, ListIdsMember
<1>4. m \in Nat \ {0} /\ Y[m][1] \in Nat /\ Y[m][2] \in Nat
  BY ListFacts
<1>5. m > n
  <2>1. SUFFICES ASSUME m <= n PROVE FALSE
    BY <1>4
  <2>2. m \in DOMAIN X /\ X[m] = Y[m] /\ m < n + 1
    BY <1>4, <2>1, ListFacts
  <2>3. X[m][2] + 1 < x
    BY <2>2, ApartInOrder
  <2> QED BY <1>1, <1>3, <1>4, <2>2, <2>3
<1>6. n + 1 \in DOMAIN Y
  BY <1>4, <1>5, ListFacts
<1>7. Y[n + 1][1] \in Nat /\ Y[n + 1][2] \in Nat /\ Y[n + 1][1] <= Y[n + 1][2]
  BY <1>6, ListFacts DEF Apart
<1>8. CASE m = n + 1
  BY <1>3, <1>6, <1>8
<1>9. CASE m > n + 1
  <2>1. Y[n + 1][2] + 1 < Y[m][1]
    BY <1>6, <1>9, ApartInOrder
  <2> QED BY <1>1, <1>3, <1>4, <1>6, <1>7, <2>1
<1> QED BY <1>4, <1>5, <1>8, <1>9

\* Where both start an interval, one does not end before the other: the next
\* number would be missing.
LEMMA NextEnd ==
  ASSUME NEW X \in Lists, NEW Y \in Lists, Apart(X), Apart(Y), ListIds(X) = ListIds(Y),
         NEW n \in DOMAIN X, n \in DOMAIN Y, X[n][1] = Y[n][1]
  PROVE  X[n][2] >= Y[n][2]
<1> DEFINE x == X[n][2] + 1
<1>1. SUFFICES ASSUME x <= Y[n][2] PROVE FALSE
  BY ListFacts
<1>2. /\ X[n][1] \in Nat /\ X[n][2] \in Nat /\ Y[n][2] \in Nat /\ X[n][1] <= X[n][2]
  BY ListFacts DEF Apart
<1>3. x \in ListIds(Y)
  BY <1>1, <1>2, ListIdsMember
<1>4. PICK m \in DOMAIN X : X[m][1] <= x /\ x <= X[m][2]
  BY <1>3, ListIdsMember
<1>5. n \in Nat /\ m \in Nat /\ X[m][1] \in Nat /\ X[m][2] \in Nat
  BY ListFacts
<1>6. CASE m < n
  <2>1. X[m][2] + 1 < X[n][1]
    BY <1>6, ApartInOrder
  <2> QED BY <1>2, <1>4, <1>5, <2>1
<1>7. CASE m > n
  <2>1. X[n][2] + 1 < X[m][1]
    BY <1>7, ApartInOrder
  <2> QED BY <1>2, <1>4, <1>5, <2>1
<1>8. CASE m = n
  BY <1>2, <1>4, <1>8
<1> QED BY <1>5, <1>6, <1>7, <1>8

\* Two lists whose intervals are apart are equal when they name the same numbers.
LEMMA SameIdsSameList ==
  ASSUME NEW A \in Lists, NEW B \in Lists, Apart(A), Apart(B), ListIds(A) = ListIds(B)
  PROVE  A = B
<1> DEFINE Agree(k) == (k \in DOMAIN A <=> k \in DOMAIN B) /\ (k \in DOMAIN A => A[k] = B[k])
<1> DEFINE S == {n \in Nat : \A k \in 1 .. n : Agree(k)}
<1>1. 0 \in S
  OBVIOUS
<1>2. ASSUME NEW n \in Nat, n \in S PROVE Agree(n + 1)
  <2>1. ASSUME n + 1 \in DOMAIN A \/ n + 1 \in DOMAIN B
        PROVE  \A k \in 1 .. n : k \in DOMAIN A /\ k \in DOMAIN B /\ A[k] = B[k]
    BY <1>2, <2>1, ListFacts
  <2>2. n + 1 \in DOMAIN A <=> n + 1 \in DOMAIN B
    BY <2>1, NextStart
  <2>3. ASSUME n + 1 \in DOMAIN A PROVE A[n + 1] = B[n + 1]
    <3>1. A[n + 1][1] <= B[n + 1][1] /\ B[n + 1][1] <= A[n + 1][1]
      BY <2>1, <2>2, <2>3, NextStart
    <3>2. A[n + 1][1] = B[n + 1][1]
      BY <2>2, <2>3, <3>1, ListFacts
    <3>3. A[n + 1][2] >= B[n + 1][2] /\ B[n + 1][2] >= A[n + 1][2]
      BY <2>2, <2>3, <3>2, NextEnd
    <3> QED BY <2>2, <2>3, <3>2, <3>3, ListFacts
  <2> QED BY <2>2, <2>3
<1>3. ASSUME NEW n \in Nat, n \in S PROVE n + 1 \in S
  <2>1. \A k \in 1 .. n + 1 : k \in 1 .. n \/ k = n + 1
    OBVIOUS
  <2>2. Agree(n + 1)
    BY <1>2, <1>3
  <2> HIDE DEF Agree
  <2> QED BY <1>3, <2>1, <2>2
<1>4. Nat \subseteq S
  <2> HIDE DEF S
  <2> QED BY <1>1, <1>3, SetInduction
<1>5. \A k \in Nat \ {0} : Agree(k)
  <2>1. \A k \in Nat \ {0} : k \in S /\ k \in 1 .. k
    BY <1>4
  <2> HIDE DEF Agree
  <2> QED BY <2>1
<1>6. Len(A) = Len(B)
  <2>1. Len(A) \in Nat /\ Len(B) \in Nat /\ DOMAIN A = 1 .. Len(A) /\ DOMAIN B = 1 .. Len(B)
    BY ListFacts
  <2>2. \A k \in Nat \ {0} : k <= Len(A) <=> k <= Len(B)
    BY <1>5, <2>1
  <2>3. ASSUME NEW a \in Nat, NEW b \in Nat, \A k \in Nat \ {0} : k <= a <=> k <= b
        PROVE  a = b
    <3>1. a + 1 <= b \/ b + 1 <= a \/ a = b
      OBVIOUS
    <3> QED BY <2>3, <3>1
  <2> HIDE DEF Agree
  <2> QED BY <2>1, <2>2, <2>3
<1>7. \A k \in 1 .. Len(A) : A[k] = B[k]
  BY <1>5, ListFacts
<1> QED
  BY <1>6, <1>7 DEF Lists

\* Joining keeps the intervals of a list.
LEMMA JoinType ==
  ASSUME NEW list \in Lists, NEW i \in Intervals PROVE Join(list, i) \in Lists
<1>1. CASE list # <<>>
  <2>1. list[Len(list)] \in Intervals /\ Len(list) \in 1 .. Len(list)
    BY <1>1, ListFacts DEF Lists
  <2>2. <<list[Len(list)][1], i[2]>> \in Intervals
    BY <2>1 DEF Intervals
  <2> QED BY <2>1, <2>2 DEF Join, SetBack, Lists
<1>2. CASE list = <<>>
  BY <1>2 DEF Join, Lists
<1> QED BY <1>1, <1>2

\* An interval that starts and ends no earlier than the last one joins a list in
\* order, and its numbers are added to those of the list.
LEMMA JoinAdds ==
  ASSUME NEW list \in Lists, Apart(list), NEW i \in Intervals, i[1] <= i[2],
         list # <<>> => list[Len(list)][1] <= i[1] /\ list[Len(list)][2] <= i[2],
         NEW J, J = Join(list, i)
  PROVE  /\ J \in Lists /\ Apart(J) /\ J # <<>>
         /\ J[Len(J)][1] <= i[1] /\ J[Len(J)][2] = i[2]
         /\ ListIds(J) = ListIds(list) \cup (i[1] .. i[2])
<1> DEFINE n == Len(list)
<1>1. J \in Lists /\ i[1] \in Nat /\ i[2] \in Nat /\ n \in Nat
  BY JoinType, ListFacts DEF Intervals
<1>2. CASE list # <<>> /\ list[n][2] >= i[1] - 1
  <2>1. n \in DOMAIN list /\ list[n][1] \in Nat /\ list[n][2] \in Nat
    BY <1>2, ListFacts DEF Lists
  <2>2. /\ Len(J) = n /\ DOMAIN J = DOMAIN list /\ J[n] = <<list[n][1], i[2]>>
        /\ \A k \in DOMAIN list : k # n => J[k] = list[k]
    BY <1>2, <2>1 DEF Join, SetBack, Lists
  <2>3. J[n][1] = list[n][1] /\ J[n][2] = i[2]
    BY <2>2
  <2>4. Apart(J)
    <3>1. SUFFICES ASSUME NEW k \in DOMAIN list
                   PROVE  J[k][1] <= J[k][2] /\ (k > 1 => J[k - 1][2] + 1 < J[k][1])
      BY <2>2 DEF Apart
    <3>2. list[k][1] <= list[k][2] /\ (k > 1 => list[k - 1][2] + 1 < list[k][1])
      BY DEF Apart
    <3>3. k \in Nat \ {0} /\ k <= n /\ (k > 1 => k - 1 \in DOMAIN list /\ k - 1 # n)
      BY ListFacts
    <3>4. J[k][1] = list[k][1] /\ (k > 1 => J[k - 1] = list[k - 1])
      BY <2>2, <2>3, <3>3
    <3>5. J[k][1] <= J[k][2]
      <4>1. CASE k = n
        BY <1>1, <1>2, <2>1, <2>3, <4>1
      <4>2. CASE k # n
        BY <2>2, <3>2, <4>2
      <4> QED BY <4>1, <4>2
    <3> QED BY <3>2, <3>4, <3>5
  <2>5. ASSUME NEW m \in Int
        PROVE  m \in ListIds(J) <=> m \in ListIds(list) \cup (i[1] .. i[2])
    <3>1. J[n][1] <= m /\ m <= J[n][2] <=>
            (list[n][1] <= m /\ m <= list[n][2]) \/ m \in i[1] .. i[2]
      BY <1>1, <1>2, <2>1, <2>3
    <3>2. m \in ListIds(J) <=> \E k \in DOMAIN list : J[k][1] <= m /\ m <= J[k][2]
      BY <1>1, <2>2, ListIdsMember
    <3>3. m \in ListIds(list) <=> \E k \in DOMAIN list : list[k][1] <= m /\ m <= list[k][2]
      BY ListIdsMember
    <3> QED BY <2>1, <2>2, <3>1, <3>2, <3>3
  <2>6. ListIds(J) = ListIds(list) \cup (i[1] .. i[2])
    <3>1. ListIds(J) \subseteq Int /\ ListIds(list) \subseteq Int
      BY <1>1, ListIdsMember
    <3> QED BY <1>1, <2>5, <3>1
  <2> QED BY <1>1, <1>2, <2>1, <2>2, <2>3, <2>4, <2>6
<1>3. CASE ~ (list # <<>> /\ list[n][2] >= i[1] - 1)
  <2>1. J = Append(list, i)
    BY <1>3 DEF Join
  <2>2. /\ Len(J) = n + 1 /\ DOMAIN J = 1 .. n + 1 /\ J[n + 1] = i
        /\ DOMAIN list = 1 .. n /\ \A k \in 1 .. n : J[k] = list[k]
    BY <2>1 DEF Lists
  <2>3. Apart(J)
    <3>1. SUFFICES ASSUME NEW k \in 1 .. n + 1
                   PROVE  J[k][1] <= J[k][2] /\ (k > 1 => J[k - 1][2] + 1 < J[k][1])
      BY <2>2 DEF Apart
    <3>2. CASE k \in 1 .. n
      <4>1. list[k][1] <= list[k][2] /\ (k > 1 => list[k - 1][2] + 1 < list[k][1])
        BY <2>2, <3>2 DEF Apart
      <4>2. J[k] = list[k] /\ (k > 1 => J[k - 1] = list[k - 1])
        BY <2>2, <3>2
      <4> QED BY <4>1, <4>2
    <3>3. CASE k = n + 1
      <4>1. J[k] = i /\ (k > 1 => J[k - 1] = list[n] /\ n \in 1 .. n)
        BY <1>1, <2>2, <3>3
      <4>2. k > 1 => list[n][2] \in Nat /\ ~ (list[n][2] >= i[1] - 1)
        BY <1>3, <2>2, <4>1, ListFacts DEF Lists
      <4> QED BY <1>1, <4>1, <4>2
    <3> QED BY <1>1, <3>2, <3>3
  <2>4. ASSUME NEW m \in Int
        PROVE  m \in ListIds(J) <=> m \in ListIds(list) \cup (i[1] .. i[2])
    <3>1. m \in ListIds(J) <=> \E k \in 1 .. n + 1 : J[k][1] <= m /\ m <= J[k][2]
      BY <1>1, <2>2, ListIdsMember
    <3>2. m \in ListIds(list) <=> \E k \in 1 .. n : list[k][1] <= m /\ m <= list[k][2]
      BY <2>2, ListIdsMember
    <3>3. m \in i[1] .. i[2] <=> J[n + 1][1] <= m /\ m <= J[n + 1][2]
      BY <1>1, <2>2
    <3>4. \A k : k \in 1 .. n + 1 <=> k \in 1 .. n \/ k = n + 1
      BY <1>1
    <3> QED BY <2>2, <3>1, <3>2, <3>3, <3>4
  <2>5. ListIds(J) = ListIds(list) \cup (i[1] .. i[2])
    <3>1. ListIds(J) \subseteq Int /\ ListIds(list) \subseteq Int
      BY <1>1, ListIdsMember
    <3> QED BY <1>1, <2>4, <3>1
  <2>6. J # <<>>
    BY <1>1, <2>2
  <2> QED BY <1>1, <2>2, <2>3, <2>5, <2>6
<1> QED BY <1>2, <1>3

\* Intervals in order: neither starts nor ends fall back.
Rising(list) ==
  \A k \in DOMAIN list :
    /\ list[k][1] <= list[k][2]
    /\ k > 1 => list[k - 1][1] <= list[k][1] /\ list[k - 1][2] <= list[k][2]

\* RemoveRedundant brings intervals that rise apart, with the same numbers.
LEMMA RemoveRedundantExact ==
  ASSUME NEW list \in Lists, Rising(list), list # <<>>,
         NEW R, R = RemoveRedundant(list)
  PROVE  R \in Lists /\ Apart(R) /\ R # <<>> /\ ListIds(R) = ListIds(list)
<1> DEFINE n == Len(list)
<1> DEFINE done[k \in 0 .. n] == IF k = 0 THEN <<>> ELSE Join(done[k - 1], list[k])
<1>1. n \in Nat \ {0} /\ DOMAIN list = 1 .. n
  BY ListFacts DEF Lists
<1>2. R = done[n]
  BY DEF RemoveRedundant
<1>3. done = [k \in 0 .. n |-> IF k = 0 THEN <<>> ELSE Join(done[k - 1], list[k])]
  <2> DEFINE step == [x \in (1 .. n) \X Lists |-> Join(x[2], list[x[1]])]
  <2>1. step \in Steps(Lists, n)
    BY <1>1, JoinType, ListFacts DEF Steps
  <2>2. <<>> \in Lists /\ n \in Nat
    BY <1>1 DEF Lists
  <2>3. PICK g : Solves(g, <<>>, step, n, Lists)
    <3> HIDE DEF step, n
    <3> QED BY <2>1, <2>2, RecursionExists
  <2>4. g \in [0 .. n -> Lists] /\ g[0] = <<>>
    BY <2>3 DEF Solves
  <2>5. \A k \in 1 .. n : g[k] = Join(g[k - 1], list[k])
    <3>1. \A k \in 1 .. n : <<k, g[k - 1]>> \in (1 .. n) \X Lists
      BY <1>1, <2>4
    <3> QED BY <2>3, <3>1 DEF Solves
  <2>6. g = [k \in 0 .. n |-> IF k = 0 THEN <<>> ELSE Join(g[k - 1], list[k])]
    <3> HIDE DEF step
    <3> QED BY <2>4, <2>5
  <2> QED BY <2>6
<1> HIDE DEF done
<1>4. done[0] = <<>> /\ \A k \in 1 .. n : done[k] = Join(done[k - 1], list[k])
  BY <1>1, <1>3
<1> DEFINE Good(k) ==
      /\ done[k] \in Lists /\ Apart(done[k])
      /\ k > 0 => /\ done[k] # <<>>
                  /\ done[k][Len(done[k])][1] <= list[k][1]
                  /\ done[k][Len(done[k])][2] = list[k][2]
      /\ \A m \in Int : m \in ListIds(done[k]) <=>
                         \E j \in 1 .. k : list[j][1] <= m /\ m <= list[j][2]
<1>5. Good(0)
  BY <1>4, EmptyList
<1>6. ASSUME NEW k \in 1 .. n, Good(k - 1) PROVE Good(k)
  <2>1. list[k] \in Intervals /\ list[k][1] \in Nat /\ list[k][2] \in Nat
    BY <1>1, ListFacts
  <2>2. list[k][1] <= list[k][2]
    BY <1>1 DEF Rising
  <2> DEFINE prev == done[k - 1]
  <2>3. prev \in Lists /\ Apart(prev) /\ done[k] = Join(prev, list[k])
    BY <1>4, <1>6
  <2>4. prev # <<>> => prev[Len(prev)][1] <= list[k][1] /\ prev[Len(prev)][2] <= list[k][2]
    <3>1. SUFFICES ASSUME prev # <<>>
                   PROVE  prev[Len(prev)][1] <= list[k][1] /\ prev[Len(prev)][2] <= list[k][2]
      OBVIOUS
    <3>2. k > 1
      BY <1>4, <3>1
    <3>3. /\ prev[Len(prev)][1] <= list[k - 1][1] /\ prev[Len(prev)][2] = list[k - 1][2]
          /\ prev[Len(prev)][1] \in Nat
      <4>1. k - 1 > 0 /\ Len(prev) \in DOMAIN prev
        BY <2>3, <3>1, <3>2 DEF Lists
      <4> QED BY <1>6, <2>3, <4>1, ListFacts
    <3>4. list[k - 1][1] <= list[k][1] /\ list[k - 1][2] <= list[k][2]
      BY <1>1, <3>2 DEF Rising
    <3>5. k - 1 \in DOMAIN list /\ list[k - 1][1] \in Nat /\ list[k - 1][2] \in Nat
      BY <1>1, <3>2, ListFacts
    <3> HIDE DEF prev
    <3> QED BY <2>1, <3>3, <3>4, <3>5
  <2>5. /\ done[k] \in Lists /\ Apart(done[k]) /\ done[k] # <<>>
        /\ done[k][Len(done[k])][1] <= list[k][1] /\ done[k][Len(done[k])][2] = list[k][2]
        /\ ListIds(done[k]) = ListIds(prev) \cup (list[k][1] .. list[k][2])
    <3> HIDE DEF prev
    <3> QED BY <2>1, <2>2, <2>3, <2>4, JoinAdds
  <2>6. ASSUME NEW m \in Int
        PROVE  m \in ListIds(done[k]) <=> \E j \in 1 .. k : list[j][1] <= m /\ m <= list[j][2]
    <3>1. m \in ListIds(done[k]) <=>
            (\E j \in 1 .. k - 1 : list[j][1] <= m /\ m <= list[j][2])
            \/ (list[k][1] <= m /\ m <= list[k][2])
      BY <1>6, <2>1, <2>5
    <3>2. \A j : j \in 1 .. k <=> j \in 1 .. k - 1 \/ j = k
      BY <1>1
    <3> QED BY <3>1, <3>2
  <2> QED BY <2>5, <2>6
<1>7. Good(n)
  <2> DEFINE S == {k \in 0 .. n : Good(k)}
  <2> HIDE DEF Good
  <2>1. 0 \in S /\ \A k \in 1 .. n : k - 1 \in S => k \in S
    BY <1>1, <1>5, <1>6
  <2>2. \A k \in 0 .. n : k \in S
    <3> HIDE DEF S
    <3> QED BY <1>1, <2>1, BoundedInduction
  <2> QED BY <1>1, <2>2
<1>8. R \in Lists /\ Apart(R) /\ R # <<>>
  BY <1>1, <1>2, <1>7
<1>9. \A m \in Int : m \in ListIds(R) <=> m \in ListIds(list)
  BY <1>1, <1>2, <1>7, ListIdsMember
<1>10. ListIds(R) \subseteq Int /\ ListIds(list) \subseteq Int
  BY <1>8, ListIdsMember
<1> QED
  BY <1>8, <1>9, <1>10

\* chunkTimerCallback's list of the buffered numbers names them, in order.
LEMMA ListOfExact ==
  ASSUME NEW N \in Nat, NEW ids \in SUBSET (1 .. N), NEW R, R = ListOf(ids)
  PROVE  R \in Lists /\ Apart(R) /\ ListIds(R) = ids
<1> DEFINE n == Max({0} \cup ids)
<1> DEFINE list[k \in 0 .. n] ==
      IF k = 0 THEN <<>> ELSE IF k \in ids THEN Join(list[k - 1], <<k, k>>) ELSE list[k - 1]
<1>1. n \in Nat /\ \A i \in ids : i <= n
  <2>1. {0} \cup ids \in SUBSET (0 .. N) /\ {0} \cup ids # {}
    OBVIOUS
  <2>2. n \in {0} \cup ids /\ \A i \in {0} \cup ids : i <= n
    BY <2>1, MaxOfBounded
  <2>3. n \in 0 .. N
    BY <2>1, <2>2
  <2> HIDE DEF n, list
  <2> QED BY <2>2, <2>3
<1>2. R = list[n]
  BY DEF ListOf
<1> HIDE DEF n
<1>3. list = [k \in 0 .. n |-> IF k = 0 THEN <<>>
                               ELSE IF k \in ids THEN Join(list[k - 1], <<k, k>>) ELSE list[k - 1]]
  <2> DEFINE step == [x \in (1 .. n) \X Lists |->
                        IF x[1] \in ids THEN Join(x[2], <<x[1], x[1]>>) ELSE x[2]]
  <2>1. step \in Steps(Lists, n)
    <3>1. \A k \in 1 .. n : <<k, k>> \in Intervals
      BY DEF Intervals
    <3> QED BY <1>1, <3>1, JoinType DEF Steps
  <2>2. PICK g : Solves(g, <<>>, step, n, Lists)
    <3> HIDE DEF step
    <3> QED BY <1>1, <2>1, EmptyList, RecursionExists
  <2>3. g \in [0 .. n -> Lists] /\ g[0] = <<>>
    BY <2>2 DEF Solves
  <2>4. \A k \in 1 .. n : g[k] = IF k \in ids THEN Join(g[k - 1], <<k, k>>) ELSE g[k - 1]
    <3>1. \A k \in 1 .. n : <<k, g[k - 1]>> \in (1 .. n) \X Lists
      BY <1>1, <2>3
    <3> QED BY <2>2, <3>1 DEF Solves
  <2>5. g = [k \in 0 .. n |-> IF k = 0 THEN <<>>
                              ELSE IF k \in ids THEN Join(g[k - 1], <<k, k>>) ELSE g[k - 1]]
    <3> HIDE DEF step
    <3> QED BY <2>3, <2>4
  <2> QED BY <2>5
<1> HIDE DEF list
<1>4. /\ list[0] = <<>>
      /\ \A k \in 1 .. n : list[k] = IF k \in ids THEN Join(list[k - 1], <<k, k>>) ELSE list[k - 1]
  BY <1>1, <1>3
<1> DEFINE Good(k) ==
      /\ list[k] \in Lists /\ Apart(list[k])
      /\ list[k] # <<>> => list[k][Len(list[k])][1] <= k /\ list[k][Len(list[k])][2] <= k
      /\ \A m \in Int : m \in ListIds(list[k]) <=> m \in ids /\ m <= k
<1>5. Good(0)
  BY <1>4, EmptyList
<1>6. ASSUME NEW k \in 1 .. n, Good(k - 1) PROVE Good(k)
  <2> DEFINE prev == list[k - 1]
  <2>1. prev \in Lists /\ Apart(prev) /\ k \in Nat
    BY <1>1, <1>6
  <2>2. prev # <<>> => prev[Len(prev)][1] <= k /\ prev[Len(prev)][2] <= k
    <3>1. SUFFICES ASSUME prev # <<>>
                   PROVE  prev[Len(prev)][1] <= k /\ prev[Len(prev)][2] <= k
      OBVIOUS
    <3>2. Len(prev) \in DOMAIN prev
      BY <2>1, <3>1 DEF Lists
    <3>3. /\ prev[Len(prev)][1] \in Nat /\ prev[Len(prev)][2] \in Nat
          /\ prev[Len(prev)][1] <= k - 1 /\ prev[Len(prev)][2] <= k - 1
      BY <1>6, <2>1, <3>1, <3>2, ListFacts
    <3> HIDE DEF prev
    <3> QED BY <2>1, <3>3
  <2>3. CASE k \in ids
    <3> DEFINE i == <<k, k>>
    <3>1. i \in Intervals /\ i[1] = k /\ i[2] = k /\ list[k] = Join(prev, i)
      BY <1>4, <2>1, <2>3 DEF Intervals
    <3>2. /\ list[k] \in Lists /\ Apart(list[k])
          /\ list[k][Len(list[k])][1] <= k /\ list[k][Len(list[k])][2] = k
          /\ ListIds(list[k]) = ListIds(prev) \cup (k .. k)
      <4> HIDE DEF prev, i
      <4>1. i[1] <= i[2]
        BY <2>1, <3>1
      <4> QED BY <2>1, <2>2, <3>1, <4>1, JoinAdds
    <3>3. \A m \in Int : m \in ListIds(list[k]) <=> m \in ids /\ m <= k
      BY <1>6, <2>1, <2>3, <3>2
    <3> QED BY <2>1, <3>2, <3>3
  <2>4. CASE k \notin ids
    <3>1. list[k] = prev
      BY <1>4, <2>4
    <3>2. \A m \in Int : m \in ListIds(list[k]) <=> m \in ids /\ m <= k
      BY <1>6, <2>1, <2>4, <3>1
    <3> QED BY <2>1, <2>2, <3>1, <3>2
  <2> QED BY <2>3, <2>4
<1>7. Good(n)
  <2> DEFINE S == {k \in 0 .. n : Good(k)}
  <2> HIDE DEF Good
  <2>1. 0 \in S /\ \A k \in 1 .. n : k - 1 \in S => k \in S
    BY <1>1, <1>5, <1>6
  <2>2. \A k \in 0 .. n : k \in S
    <3> HIDE DEF S
    <3> QED BY <1>1, <2>1, BoundedInduction
  <2> QED BY <1>1, <2>2
<1>8. \A m \in Int : m \in ListIds(R) <=> m \in ids
  BY <1>1, <1>2, <1>7
<1>9. ids \in SUBSET Int
  OBVIOUS
<1> QED
  BY <1>2, <1>7, <1>8, <1>9, SameIds

\* findIntersect is the intersection of two intervals.
LEMMA IntersectionExact ==
  ASSUME NEW a \in Int \X Int, NEW b \in Int \X Int
  PROVE  /\ findIntersect(a, b)[1] = (IF a[1] >= b[1] THEN a[1] ELSE b[1])
         /\ findIntersect(a, b)[2] = (IF a[2] <= b[2] THEN a[2] ELSE b[2])
         /\ a[1] <= a[2] /\ b[1] <= b[2] =>
              (Intersects(a, b) <=> a[1] <= b[2] /\ b[1] <= a[2])
<1>1. a[1] \in Int /\ a[2] \in Int /\ b[1] \in Int /\ b[2] \in Int
  OBVIOUS
<1>2. /\ Max({a[1], b[1]}) = (IF a[1] >= b[1] THEN a[1] ELSE b[1])
      /\ Min({a[2], b[2]}) = (IF a[2] <= b[2] THEN a[2] ELSE b[2])
  BY <1>1, MaxOfTwo, MinOfTwo
<1>3. /\ findIntersect(a, b)[1] = (IF a[1] >= b[1] THEN a[1] ELSE b[1])
      /\ findIntersect(a, b)[2] = (IF a[2] <= b[2] THEN a[2] ELSE b[2])
  BY <1>2 DEF findIntersect
<1> QED
  BY <1>1, <1>3 DEF Intersects

\* The loop over the output list leaves intervals that rise, with the numbers of
\* the one merged added, if it meets any.
LEMMA WidenedExact ==
  ASSUME NEW list \in Lists, Apart(list), NEW i \in Intervals, i[1] <= i[2],
         \E k \in DOMAIN list : Intersects(list[k], i),
         NEW W, W = Widened(list, i)
  PROVE  W \in Lists /\ W # <<>> /\ Rising(W) /\ ListIds(W) = ListIds(list) \cup (i[1] .. i[2])
<1>1. i \in Int \X Int /\ i[1] \in Nat /\ i[2] \in Nat
  BY DEF Intervals
<1>2. ASSUME NEW k \in DOMAIN list
      PROVE  /\ list[k][1] \in Nat /\ list[k][2] \in Nat /\ list[k][1] <= list[k][2]
             /\ Intersects(list[k], i) <=> list[k][1] <= i[2] /\ i[1] <= list[k][2]
             /\ k > 1 => k - 1 \in DOMAIN list /\ list[k - 1][2] + 1 < list[k][1]
  <2>1. list[k] \in Int \X Int /\ list[k][1] \in Nat /\ list[k][2] \in Nat
    BY ListFacts DEF Intervals
  <2>2. list[k][1] <= list[k][2] /\ (k > 1 => k - 1 \in DOMAIN list /\ list[k - 1][2] + 1 < list[k][1])
    BY ListFacts DEF Apart
  <2> QED BY <1>1, <2>1, <2>2, IntersectionExact
<1>3. DOMAIN W = DOMAIN list
  BY DEF Widened
<1>4. ASSUME NEW k \in DOMAIN list
      PROVE  /\ Intersects(list[k], i) =>
                  /\ W[k][1] = IF list[k][1] <= i[1] THEN list[k][1] ELSE i[1]
                  /\ W[k][2] = IF list[k][2] >= i[2] THEN list[k][2] ELSE i[2]
             /\ ~ Intersects(list[k], i) => W[k] = list[k]
             /\ W[k] \in Intervals
  <2>1. CASE Intersects(list[k], i)
    <3>1. W[k] = <<Min({list[k][1], i[1]}), Max({list[k][2], i[2]})>>
      BY <2>1 DEF Widened
    <3>2. /\ Min({list[k][1], i[1]}) = (IF list[k][1] <= i[1] THEN list[k][1] ELSE i[1])
          /\ Max({list[k][2], i[2]}) = (IF list[k][2] >= i[2] THEN list[k][2] ELSE i[2])
      BY <1>1, <1>2, MaxOfTwo, MinOfTwo
    <3>3. /\ W[k][1] = IF list[k][1] <= i[1] THEN list[k][1] ELSE i[1]
          /\ W[k][2] = IF list[k][2] >= i[2] THEN list[k][2] ELSE i[2]
      BY <3>1, <3>2
    <3>4. W[k] \in Intervals
      BY <1>1, <1>2, <3>1, <3>2 DEF Intervals
    <3> QED BY <2>1, <3>3, <3>4
  <2>2. CASE ~ Intersects(list[k], i)
    <3>1. W[k] = list[k]
      BY <2>2 DEF Widened
    <3> QED BY <2>2, <3>1, ListFacts
  <2> QED BY <2>1, <2>2
<1>5. W \in Lists /\ W # <<>>
  <2>1. DOMAIN list = 1 .. Len(list) /\ Len(list) \in Nat
    BY ListFacts
  <2>2. W = [k \in 1 .. Len(list) |-> W[k]]
    BY <2>1 DEF Widened
  <2>3. W \in Lists
    BY <1>4, <2>1, <2>2 DEF Lists
  <2> QED BY <1>3, <2>3
<1>6. Rising(W)
  <2>1. SUFFICES ASSUME NEW k \in DOMAIN list
        PROVE  /\ W[k][1] <= W[k][2]
               /\ k > 1 => W[k - 1][1] <= W[k][1] /\ W[k - 1][2] <= W[k][2]
    BY <1>3 DEF Rising
  <2>2. W[k][1] <= W[k][2]
    BY <1>1, <1>2, <1>4
  <2>3. ASSUME k > 1 PROVE W[k - 1][1] <= W[k][1] /\ W[k - 1][2] <= W[k][2]
    <3>1. PICK j \in DOMAIN list : j = k - 1
      BY <1>2, <2>3
    <3>2. list[j][2] + 1 < list[k][1]
      BY <1>2, <2>3, <3>1
    <3>3. W[j][1] <= W[k][1] /\ W[j][2] <= W[k][2]
      BY <1>1, <1>2, <1>4, <3>2
    <3> QED BY <3>1, <3>3
  <2> QED BY <2>2, <2>3
<1>7. ASSUME NEW m \in Int
      PROVE  m \in ListIds(W) <=> m \in ListIds(list) \cup (i[1] .. i[2])
  <2>1. m \in ListIds(W) <=> \E k \in DOMAIN list : W[k][1] <= m /\ m <= W[k][2]
    BY <1>3, <1>5, ListIdsMember
  <2>2. m \in ListIds(list) <=> \E k \in DOMAIN list : list[k][1] <= m /\ m <= list[k][2]
    BY ListIdsMember
  <2>3. ASSUME NEW k \in DOMAIN list
        PROVE  W[k][1] <= m /\ m <= W[k][2] <=>
                 \/ list[k][1] <= m /\ m <= list[k][2]
                 \/ Intersects(list[k], i) /\ i[1] <= m /\ m <= i[2]
    BY <1>1, <1>2, <1>4
  <2>4. m \in i[1] .. i[2] <=> i[1] <= m /\ m <= i[2]
    BY <1>1
  <2> QED BY <2>1, <2>2, <2>3, <2>4
<1>8. ListIds(list) \cup (i[1] .. i[2]) \in SUBSET Int
  BY <1>1, ListIdsMember
<1> QED BY <1>5, <1>6, <1>7, <1>8, SameIds

\* One that meets none is inserted where the list stays in order.
LEMMA InsertedExact ==
  ASSUME NEW list \in Lists, Apart(list), NEW i \in Intervals, i[1] <= i[2],
         ~ \E k \in DOMAIN list : Intersects(list[k], i),
         NEW W, W = Inserted(list, i)
  PROVE  W \in Lists /\ W # <<>> /\ Rising(W) /\ ListIds(W) = ListIds(list) \cup (i[1] .. i[2])
<1> DEFINE n == Len(list)
<1> DEFINE p == CHOOSE p \in 0 .. n : Fits(list, i, p)
<1>1. i \in Int \X Int /\ i[1] \in Nat /\ i[2] \in Nat
  BY DEF Intervals
<1>2. n \in Nat /\ DOMAIN list = 1 .. n
  BY ListFacts
<1>3. ASSUME NEW k \in 1 .. n
      PROVE  /\ list[k] \in Intervals /\ list[k][1] \in Nat /\ list[k][2] \in Nat
             /\ list[k][1] <= list[k][2]
             /\ list[k][2] < i[1] \/ i[2] < list[k][1]
             /\ k > 1 => list[k - 1][2] + 1 < list[k][1]
  <2>1. list[k] \in Int \X Int /\ list[k][1] \in Nat /\ list[k][2] \in Nat /\ list[k] \in Intervals
    BY <1>2, ListFacts DEF Intervals
  <2>2. list[k][1] <= list[k][2] /\ (k > 1 => list[k - 1][2] + 1 < list[k][1])
    BY <1>2 DEF Apart
  <2>3. ~ Intersects(list[k], i)
    BY <1>2
  <2>4. ~ (list[k][1] <= i[2] /\ i[1] <= list[k][2])
    BY <1>1, <2>1, <2>2, <2>3, IntersectionExact
  <2> QED BY <1>1, <2>1, <2>2, <2>4
<1>4. p \in 0 .. n /\ Fits(list, i, p)
  <2>1. \E q \in 0 .. n : Fits(list, i, q)
    BY <1>2, <1>3, SomePlaceFits
  <2> QED BY <2>1
<1>5. W = [k \in 1 .. n + 1 |-> IF k <= p THEN list[k] ELSE IF k = p + 1 THEN i ELSE list[k - 1]]
  BY DEF Inserted
<1> HIDE DEF p
<1>6. /\ DOMAIN W = 1 .. n + 1
      /\ \A k \in 1 .. p : W[k] = list[k] /\ k \in 1 .. n
      /\ W[p + 1] = i /\ p + 1 \in 1 .. n + 1
      /\ \A k \in p + 2 .. n + 1 : W[k] = list[k - 1] /\ k - 1 \in 1 .. n
  BY <1>2, <1>4, <1>5
<1>7. \A k : k \in 1 .. n + 1 <=> k \in 1 .. p \/ k = p + 1 \/ k \in p + 2 .. n + 1
  BY <1>2, <1>4
<1>8. W \in Lists /\ W # <<>>
  <2>1. \A k \in 1 .. n + 1 : W[k] \in Intervals
    BY <1>3, <1>6, <1>7
  <2> HIDE DEF n
  <2> QED BY <1>2, <1>5, <1>6, <2>1 DEF Lists
<1>9. Rising(W)
  <2>1. SUFFICES ASSUME NEW k \in 1 .. n + 1
        PROVE  /\ W[k][1] <= W[k][2]
               /\ k > 1 => W[k - 1][1] <= W[k][1] /\ W[k - 1][2] <= W[k][2]
    BY <1>6 DEF Rising
  <2>2. CASE k \in 1 .. p
    <3>1. W[k] = list[k] /\ (k > 1 => k - 1 \in 1 .. p /\ k - 1 \in 1 .. n /\ W[k - 1] = list[k - 1])
      <4>1. k > 1 => k - 1 \in 1 .. p
        BY <1>4, <2>2
      <4> QED BY <1>6, <2>2, <4>1
    <3>2. k \in 1 .. n
      BY <1>6, <2>2
    <3>3. list[k][1] <= list[k][2]
      BY <1>3, <3>2
    <3>4. ASSUME k > 1
          PROVE  list[k - 1][1] <= list[k][1] /\ list[k - 1][2] <= list[k][2]
      <4>1. PICK l \in 1 .. n : l = k - 1
        BY <3>1, <3>4
      <4>2. list[l][2] + 1 < list[k][1]
        BY <1>3, <3>2, <3>4, <4>1
      <4>3. /\ list[l][1] \in Nat /\ list[l][2] \in Nat /\ list[k][1] \in Nat
            /\ list[k][2] \in Nat /\ list[l][1] <= list[l][2]
        BY <1>3, <3>2
      <4>4. list[l][1] <= list[k][1] /\ list[l][2] <= list[k][2]
        BY <3>3, <4>2, <4>3, SMTT(30)
      <4> QED BY <4>1, <4>4
    <3> QED BY <3>1, <3>3, <3>4
  <2>3. CASE k = p + 1
    <3>1. k > 1 => k - 1 = p /\ p \in 1 .. p /\ p \in 1 .. n /\ list[p][2] < i[1]
      BY <1>4, <2>3 DEF Fits
    <3>2. W[k] = i /\ (k > 1 => W[k - 1] = list[p])
      BY <1>6, <2>3, <3>1
    <3>3. k > 1 => /\ list[p][1] \in Nat /\ list[p][2] \in Nat /\ list[p][1] <= list[p][2]
                   /\ list[p][2] < i[1]
      BY <1>3, <3>1
    <3>4. k > 1 => list[p][1] <= i[1] /\ list[p][2] <= i[2]
      BY <1>1, <3>3
    <3> QED BY <3>2, <3>4
  <2>4. CASE k \in p + 2 .. n + 1
    <3>1. PICK j \in 1 .. n : j = k - 1 /\ j > p /\ W[k] = list[j]
      BY <1>4, <1>6, <2>4
    <3>2. CASE j = p + 1
      <4>1. i[2] < list[j][1] /\ W[k - 1] = i
        <5>1. k - 1 = p + 1 /\ p # n
          <6> HIDE DEF n
          <6> QED BY <1>2, <1>4, <3>1, <3>2
        <5> QED BY <1>4, <1>6, <3>2, <5>1 DEF Fits
      <4> QED BY <1>1, <1>3, <3>1, <4>1
    <3>3. CASE j # p + 1
      <4>1. W[k - 1] = list[j - 1] /\ j - 1 \in 1 .. n /\ j > 1
        BY <1>4, <1>6, <3>1, <3>3
      <4>2. PICK l \in 1 .. n : l = j - 1
        BY <4>1
      <4>3. /\ list[l][2] + 1 < list[j][1] /\ list[l][1] <= list[l][2] /\ list[j][1] <= list[j][2]
            /\ list[l][1] \in Nat /\ list[l][2] \in Nat /\ list[j][1] \in Nat /\ list[j][2] \in Nat
        BY <1>3, <4>1, <4>2
      <4> QED BY <3>1, <4>1, <4>2, <4>3, SMTT(30)
    <3> QED BY <3>2, <3>3
  <2> QED BY <1>7, <2>2, <2>3, <2>4
<1>10. ASSUME NEW m \in Int
       PROVE  m \in ListIds(W) <=> m \in ListIds(list) \cup (i[1] .. i[2])
  <2> DEFINE In(x) == x[1] <= m /\ m <= x[2]
  <2>1. m \in ListIds(W) <=> \E k \in 1 .. n + 1 : In(W[k])
    BY <1>6, <1>8, ListIdsMember
  <2>2. m \in ListIds(list) <=> \E k \in 1 .. n : In(list[k])
    BY <1>2, ListIdsMember
  <2>3. m \in i[1] .. i[2] <=> In(i)
    BY <1>1
  <2> HIDE DEF In, n
  <2>4. ASSUME NEW k \in 1 .. n PROVE \E j \in 1 .. n + 1 : W[j] = list[k]
    <3>1. CASE k <= p
      BY <1>2, <1>4, <1>6, <3>1
    <3>2. CASE k > p
      <4>1. k + 1 \in p + 2 .. n + 1 /\ (k + 1) - 1 = k /\ k + 1 \in 1 .. n + 1
        BY <1>2, <1>4, <3>2
      <4> QED BY <1>6, <4>1
    <3> QED BY <1>4, <3>1, <3>2
  <2>5. ASSUME NEW k \in 1 .. n + 1 PROVE W[k] = i \/ \E j \in 1 .. n : W[k] = list[j]
    BY <1>6, <1>7
  <2> QED BY <1>6, <2>1, <2>2, <2>3, <2>4, <2>5
<1>11. ListIds(list) \cup (i[1] .. i[2]) \in SUBSET Int
  BY <1>1, ListIdsMember
<1> QED BY <1>8, <1>9, <1>10, <1>11, SameIds

\* Merging one interval adds its numbers, and leaves the intervals apart.
LEMMA MergeIntervalExact ==
  ASSUME NEW list \in Lists, Apart(list), NEW i \in Intervals, i[1] <= i[2],
         NEW R, R = MergeInterval(list, i)
  PROVE  R \in Lists /\ R # <<>> /\ Apart(R) /\ ListIds(R) = ListIds(list) \cup (i[1] .. i[2])
<1>1. CASE \E k \in DOMAIN list : Intersects(list[k], i)
  <2>1. R = RemoveRedundant(Widened(list, i))
    BY <1>1 DEF MergeInterval
  <2> QED BY <1>1, <2>1, WidenedExact, RemoveRedundantExact
<1>2. CASE ~ \E k \in DOMAIN list : Intersects(list[k], i)
  <2>1. R = RemoveRedundant(Inserted(list, i))
    BY <1>2 DEF MergeInterval
  <2> QED BY <1>2, <2>1, InsertedExact, RemoveRedundantExact
<1> QED BY <1>1, <1>2

\* Lists whose intervals are apart, and not empty.
ApartLists == {list \in Lists : Apart(list) /\ list # <<>>}

\* Merging two lists gives the list of the numbers of both.
LEMMA MergeExact ==
  ASSUME NEW list1 \in Lists, Apart(list1), NEW list2 \in Lists, Apart(list2),
         NEW R, R = mergeChunkIds(list1, list2)
  PROVE  R \in Lists /\ Apart(R) /\ ListIds(R) = ListIds(list1) \cup ListIds(list2)
<1>1. CASE list1 = <<>>
  BY <1>1, EmptyList DEF mergeChunkIds
<1>2. CASE list1 # <<>>
  <2> DEFINE n == Len(list2)
  <2> DEFINE output[k \in 0 .. n] ==
        IF k = 0 THEN list1 ELSE MergeInterval(output[k - 1], list2[k])
  <2>1. R = output[n]
    BY <1>2 DEF mergeChunkIds
  <2>2. n \in Nat /\ DOMAIN list2 = 1 .. n
    BY ListFacts
  <2>3. ASSUME NEW k \in 1 .. n
        PROVE  list2[k] \in Intervals /\ list2[k][1] <= list2[k][2] /\ list2[k][1] \in Nat /\ list2[k][2] \in Nat
    BY <2>2, ListFacts DEF Apart
  <2>4. output = [k \in 0 .. n |-> IF k = 0 THEN list1 ELSE MergeInterval(output[k - 1], list2[k])]
    <3> DEFINE step == [x \in (1 .. n) \X ApartLists |-> MergeInterval(x[2], list2[x[1]])]
    <3>1. step \in Steps(ApartLists, n)
      <4>1. ASSUME NEW k \in 1 .. n, NEW l \in ApartLists
            PROVE  MergeInterval(l, list2[k]) \in ApartLists
        BY <2>3, MergeIntervalExact DEF ApartLists
      <4> QED BY <4>1 DEF Steps
    <3>2. list1 \in ApartLists
      BY <1>2 DEF ApartLists
    <3>3. PICK g : Solves(g, list1, step, n, ApartLists)
      <4> HIDE DEF step, n
      <4> QED BY <2>2, <3>1, <3>2, RecursionExists
    <3>4. g \in [0 .. n -> ApartLists] /\ g[0] = list1
      BY <3>3 DEF Solves
    <3>5. \A k \in 1 .. n : g[k] = MergeInterval(g[k - 1], list2[k])
      <4>1. \A k \in 1 .. n : <<k, g[k - 1]>> \in (1 .. n) \X ApartLists
        BY <2>2, <3>4
      <4> QED BY <3>3, <4>1 DEF Solves
    <3>6. g = [k \in 0 .. n |-> IF k = 0 THEN list1 ELSE MergeInterval(g[k - 1], list2[k])]
      <4> HIDE DEF step
      <4> QED BY <3>4, <3>5
    <3> QED BY <3>6
  <2> HIDE DEF output
  <2>5. output[0] = list1 /\ \A k \in 1 .. n : output[k] = MergeInterval(output[k - 1], list2[k])
    BY <2>2, <2>4
  <2> DEFINE Good(k) ==
        /\ output[k] \in Lists /\ Apart(output[k])
        /\ \A m \in Int : m \in ListIds(output[k]) <=>
              \/ m \in ListIds(list1)
              \/ \E j \in 1 .. k : list2[j][1] <= m /\ m <= list2[j][2]
  <2>6. Good(0)
    BY <2>5
  <2>7. ASSUME NEW k \in 1 .. n, Good(k - 1) PROVE Good(k)
    <3> DEFINE prev == output[k - 1]
    <3>1. prev \in Lists /\ Apart(prev) /\ output[k] = MergeInterval(prev, list2[k])
      BY <2>5, <2>7
    <3>2. /\ output[k] \in Lists /\ Apart(output[k])
          /\ ListIds(output[k]) = ListIds(prev) \cup (list2[k][1] .. list2[k][2])
      <4> HIDE DEF prev
      <4> QED BY <2>3, <3>1, MergeIntervalExact
    <3>3. ASSUME NEW m \in Int
          PROVE  m \in ListIds(output[k]) <=>
                   \/ m \in ListIds(list1)
                   \/ \E j \in 1 .. k : list2[j][1] <= m /\ m <= list2[j][2]
      <4>1. m \in ListIds(output[k]) <=>
              \/ m \in ListIds(list1)
              \/ \E j \in 1 .. k - 1 : list2[j][1] <= m /\ m <= list2[j][2]
              \/ list2[k][1] <= m /\ m <= list2[k][2]
        BY <2>3, <2>7, <3>2
      <4>2. \A j : j \in 1 .. k <=> j \in 1 .. k - 1 \/ j = k
        BY <2>2
      <4> QED BY <4>1, <4>2
    <3> QED BY <3>2, <3>3
  <2>8. Good(n)
    <3> DEFINE S == {k \in 0 .. n : Good(k)}
    <3> HIDE DEF Good
    <3>1. 0 \in S /\ \A k \in 1 .. n : k - 1 \in S => k \in S
      BY <2>2, <2>6, <2>7
    <3>2. \A k \in 0 .. n : k \in S
      <4> HIDE DEF S
      <4> QED BY <2>2, <3>1, BoundedInduction
    <3> QED BY <2>2, <3>2
  <2>9. \A m \in Int : m \in ListIds(R) <=> m \in ListIds(list1) \cup ListIds(list2)
    BY <2>1, <2>2, <2>8, ListIdsMember
  <2>10. ListIds(list1) \cup ListIds(list2) \in SUBSET Int
    BY ListIdsMember
  <2> QED BY <2>1, <2>8, <2>9, <2>10, SameIds
<1> QED BY <1>1, <1>2

\* The largest int is a number; this is all the proofs use of its value.
LEMMA InfiniteType == Infinite \in Nat
BY SMT DEF Infinite

\* The complement of a list names, up to the largest int, what the list does not.
LEMMA ComplementExact ==
  ASSUME NEW other \in Lists, Apart(other), other # <<>>, NEW m \in 1 .. Infinite
  PROVE  (\E b \in NotInOther(other) : b[1] <= m /\ m <= b[2]) <=> m \notin ListIds(other)
<1> DEFINE n == Len(other)
<1>1. n \in Nat \ {0} /\ DOMAIN other = 1 .. n
  BY ListFacts DEF Lists
<1>2. ASSUME NEW k \in 1 .. n
      PROVE  /\ other[k][1] \in Nat /\ other[k][2] \in Nat /\ other[k][1] <= other[k][2]
             /\ \A j \in 1 .. n : j < k => other[j][2] + 1 < other[k][1]
  BY <1>1, ListFacts, ApartInOrder DEF Apart
<1>3. m \in Int
  OBVIOUS
<1>4. m \in ListIds(other) <=> \E k \in 1 .. n : other[k][1] <= m /\ m <= other[k][2]
  BY <1>1, <1>3, ListIdsMember
<1> DEFINE After(k) == <<other[k][2] + 1, IF k = n THEN Infinite ELSE other[k + 1][1] - 1>>
<1>5. ASSUME NEW b \in NotInOther(other), b[1] <= m, m <= b[2] PROVE m \notin ListIds(other)
  <2>1. SUFFICES ASSUME NEW j \in 1 .. n, other[j][1] <= m, m <= other[j][2] PROVE FALSE
    BY <1>4
  <2>2. CASE \E k \in 1 .. n : b = After(k)
    <3>1. PICK k \in 1 .. n : b = After(k)
      BY <2>2
    <3>2. other[k][2] + 1 <= m /\ (k # n => m <= other[k + 1][1] - 1)
      BY <1>5, <3>1
    <3>3. CASE j <= k
      <4>1. other[j][2] <= other[k][2]
        <5>1. CASE j = k
          BY <1>2, <5>1
        <5>2. CASE j < k
          <6>1. other[j][2] + 1 < other[k][1] /\ other[k][1] <= other[k][2]
            BY <1>2, <5>2
          <6> QED BY <1>2, <6>1
        <5> QED BY <3>3, <5>1, <5>2
      <4> QED BY <1>2, <2>1, <3>2, <4>1
    <3>4. CASE j > k
      <4>1. PICK l \in 1 .. n : l = k + 1
        BY <1>1, <3>4
      <4>2. m <= other[l][1] - 1
        BY <3>2, <4>1
      <4>3. other[l][1] <= other[j][1]
        <5>1. CASE j = l
          BY <1>2, <5>1
        <5>2. CASE j > l
          <6>1. other[l][2] + 1 < other[j][1] /\ other[l][1] <= other[l][2]
            BY <1>2, <5>2
          <6> QED BY <1>2, <6>1
        <5> QED BY <3>4, <4>1, <5>1, <5>2
      <4> QED BY <1>2, <2>1, <4>2, <4>3
    <3> QED BY <3>3, <3>4
  <2>3. CASE b = <<1, other[1][1] - 1>>
    <3>1. 1 \in 1 .. n /\ m <= other[1][1] - 1
      BY <1>1, <1>5, <2>3
    <3>2. j = 1 \/ other[1][2] + 1 < other[j][1]
      BY <1>2, <3>1
    <3> QED BY <1>2, <2>1, <3>1, <3>2
  <2> QED BY <1>1, <1>5, <2>2, <2>3 DEF NotInOther
<1>6. ASSUME m \notin ListIds(other)
      PROVE  \E b \in NotInOther(other) : b[1] <= m /\ m <= b[2]
  <2>1. \A k \in DOMAIN other : other[k][2] < m \/ m < other[k][1]
    BY <1>1, <1>2, <1>4, <1>6
  <2> DEFINE i == <<m, m>>
  <2>2. i \in Intervals /\ i[1] = m /\ i[2] = m /\ m <= m
    BY DEF Intervals
  <2>3. PICK p \in 0 .. n : Fits(other, i, p)
    <3> HIDE DEF i
    <3> QED BY <2>1, <2>2, SomePlaceFits
  <2>4. (p = 0 \/ other[p][2] < m) /\ (p = n \/ m < other[p + 1][1])
    BY <2>2, <2>3 DEF Fits
  <2>5. CASE p = 0
    <3>1. m < other[1][1] /\ 1 \in 1 .. n
      BY <1>1, <2>4, <2>5
    <3> DEFINE b == <<1, other[1][1] - 1>>
    <3>2. b \in NotInOther(other)
      BY <1>2, <3>1 DEF NotInOther
    <3>3. b[1] <= m /\ m <= b[2]
      BY <1>2, <3>1
    <3> HIDE DEF b
    <3> QED BY <3>2, <3>3
  <2>6. CASE p # 0
    <3>1. p \in 1 .. n /\ other[p][2] < m /\ (p # n => p + 1 \in 1 .. n /\ m < other[p + 1][1])
      <4> HIDE DEF n
      <4>1. p \in 1 .. n /\ (p # n => p + 1 \in 1 .. n)
        BY <1>1, <2>6
      <4> QED BY <2>4, <2>6, <4>1
    <3> DEFINE b == After(p)
    <3>2. b \in NotInOther(other)
      BY <1>1, <3>1 DEF NotInOther
    <3>3. b[1] <= m /\ m <= b[2]
      <4>1. CASE p = n
        BY <1>2, <3>1, <4>1
      <4>2. CASE p # n
        BY <1>2, <3>1, <4>2
      <4> QED BY <4>1, <4>2
    <3> HIDE DEF b
    <3> QED BY <3>2, <3>3
  <2> QED BY <2>5, <2>6
<1> QED BY <1>5, <1>6

\* The complement consists of pairs of integers.
LEMMA ComplementType ==
  ASSUME NEW other \in Lists, other # <<>> PROVE NotInOther(other) \subseteq Int \X Int
<1> DEFINE n == Len(other)
<1>1. n \in Nat \ {0} /\ DOMAIN other = 1 .. n
  BY ListFacts DEF Lists
<1>2. \A k \in 1 .. n : other[k][1] \in Nat /\ other[k][2] \in Nat
  BY <1>1, ListFacts
<1>3. ASSUME NEW k \in 1 .. n
      PROVE  <<other[k][2] + 1, IF k = n THEN Infinite ELSE other[k + 1][1] - 1>> \in Int \X Int
  <2>1. k # n => k + 1 \in 1 .. n
    <3> HIDE DEF n
    <3> QED BY <1>1
  <2> QED BY <1>2, <2>1, InfiniteType
<1>4. <<1, other[1][1] - 1>> \in Int \X Int
  BY <1>1, <1>2
<1> QED BY <1>1, <1>3, <1>4 DEF NotInOther

\* The intervals that are found missing name the difference of two lists.
LEMMA MissedExact ==
  ASSUME NEW self \in Lists, Apart(self), ListIds(self) \subseteq 1 .. Infinite,
         NEW other \in Lists, Apart(other)
  PROVE  IdsOf(findMissedChunkIds(self, other)) = ListIds(self) \ ListIds(other)
<1>1. CASE other = <<>>
  BY <1>1, EmptyList DEF findMissedChunkIds, ListIds
<1>2. CASE other # <<>>
  <2> DEFINE gaps == NotInOther(other)
  <2> DEFINE missed == {i \in {findIntersect(a, b) : a \in Range(self), b \in gaps} : i[1] <= i[2]}
  <2>1. findMissedChunkIds(self, other) = missed
    BY <1>2 DEF findMissedChunkIds
  <2>2. \A a \in Range(self) : a \in Int \X Int /\ a[1] \in Int /\ a[2] \in Int
    BY ListFacts DEF Range, Intervals
  <2>3. \A b \in gaps : b \in Int \X Int /\ b[1] \in Int /\ b[2] \in Int
    BY <1>2, ComplementType
  <2>4. ASSUME NEW a \in Range(self), NEW b \in gaps, NEW m \in Int
        PROVE  /\ findIntersect(a, b)[1] \in Int /\ findIntersect(a, b)[2] \in Int
               /\ findIntersect(a, b)[1] <= m /\ m <= findIntersect(a, b)[2] <=>
                    a[1] <= m /\ m <= a[2] /\ b[1] <= m /\ m <= b[2]
    <3>1. /\ findIntersect(a, b)[1] = (IF a[1] >= b[1] THEN a[1] ELSE b[1])
          /\ findIntersect(a, b)[2] = (IF a[2] <= b[2] THEN a[2] ELSE b[2])
      BY <2>2, <2>3, IntersectionExact
    <3> HIDE DEF gaps
    <3> QED BY <2>2, <2>3, <3>1
  <2>5. ASSUME NEW m \in IdsOf(missed) PROVE m \in ListIds(self) /\ m \notin ListIds(other)
    <3>1. PICK a \in Range(self), b \in gaps : m \in findIntersect(a, b)[1] .. findIntersect(a, b)[2]
      BY <2>5 DEF IdsOf
    <3>2. m \in Int /\ a[1] <= m /\ m <= a[2] /\ b[1] <= m /\ m <= b[2]
      BY <2>4, <3>1
    <3>3. m \in ListIds(self)
      BY <3>2, ListIdsMember DEF Range
    <3>4. m \in 1 .. Infinite
      BY <3>3
    <3> QED BY <1>2, <3>2, <3>3, <3>4, ComplementExact
  <2>6. ASSUME NEW m \in ListIds(self), m \notin ListIds(other) PROVE m \in IdsOf(missed)
    <3>1. m \in 1 .. Infinite /\ m \in Int
      BY InfiniteType
    <3>2. PICK b \in gaps : b[1] <= m /\ m <= b[2]
      BY <1>2, <2>6, <3>1, ComplementExact
    <3>3. PICK a \in Range(self) : a[1] <= m /\ m <= a[2]
      BY <2>6, ListIdsMember DEF Range
    <3> DEFINE i == findIntersect(a, b)
    <3>4. i[1] \in Int /\ i[2] \in Int /\ i[1] <= m /\ m <= i[2]
      BY <2>4, <3>1, <3>2, <3>3
    <3>5. i[1] <= i[2] /\ m \in i[1] .. i[2]
      <4> HIDE DEF i
      <4> QED BY <3>1, <3>4
    <3>6. i \in missed
      BY <3>5
    <3> QED BY <3>5, <3>6 DEF IdsOf
  <2> HIDE DEF missed
  <2> QED BY <2>1, <2>5, <2>6
<1> QED BY <1>1, <1>2

\* The interval arithmetic agrees with sets of numbers, whatever the lists.
LEMMA OpsExactOnLists ==
  ASSUME NEW N \in 0 .. Infinite, NEW self \in Lists, NEW other \in Lists, Apart(self), Apart(other),
         ListIds(self) \subseteq 1 .. N, ListIds(other) \subseteq 1 .. N
  PROVE  OpsExact(self, other)
<1> DEFINE ids == ListIds(self) \cup ListIds(other)
<1>1. N \in Nat /\ ids \in SUBSET (1 .. N) /\ ListIds(self) \subseteq 1 .. Infinite
  BY InfiniteType
<1>2. IdsOf(findMissedChunkIds(self, other)) = ListIds(self) \ ListIds(other)
  BY <1>1, MissedExact
<1>3. /\ mergeChunkIds(self, other) \in Lists /\ Apart(mergeChunkIds(self, other))
      /\ ListIds(mergeChunkIds(self, other)) = ids
  BY MergeExact
<1>4. ListOf(ids) \in Lists /\ Apart(ListOf(ids)) /\ ListIds(ListOf(ids)) = ids
  <2> HIDE DEF ids
  <2> QED BY <1>1, ListOfExact
<1>5. mergeChunkIds(self, other) = ListOf(ids)
  <2> HIDE DEF ids
  <2> QED BY <1>3, <1>4, SameIdsSameList
<1> QED
  BY <1>2, <1>5 DEF OpsExact
-----------------------------------------------------------------------------
(***************************************************************************)
(* The inductive invariant.                                                 *)
(***************************************************************************)
\* What a chunk may be, and a buffered one.
Contents == Occ \cup {Empty, NeedQuery}
Buffered == [idx : ChunkIds, occ : Occ]

\* Types.
TypeInv ==
  /\ up \subseteq Drones
  /\ adr_buffer \in [Drones -> 0 .. ChunkSize]
  /\ chunks \in [Drones -> [Drones -> Seq(Contents)]]
  /\ idx_list \in [Drones -> [Drones -> Lists]]
  /\ stamp \in [Drones -> [Drones -> Lists]]
  /\ chunk_buffer \in [Drones -> [Drones -> SUBSET Buffered]]
  /\ net \subseteq Messages
  /\ \A d, s \in Drones : Len(chunks[d][s]) <= MaxChunks[s]

\* The lists are exact, and those that were sent are in order too.
ListsInv ==
  /\ ListsExact
  /\ \A d, s \in Drones : Apart(stamp[d][s]) /\ ListIds(stamp[d][s]) \subseteq 1 .. MaxChunks[s]

\* There are no placeholders among the own chunks.
OwnInv == \A d \in Drones : \A i \in DOMAIN chunks[d][d] : chunks[d][d][i] # Empty

\* The owner s has settled chunk i, as occ.
Settled(s, i, occ) == occ \in Occ /\ i \in DOMAIN chunks[s][s] /\ chunks[s][s][i] = occ

\* Every copy, buffered, on its way or held by another, is settled.
CopiesInv ==
  /\ \A d, s \in Drones : d # s => \A i \in Held(d, s) : Settled(s, i, chunks[d][s][i])
  /\ \A d, s \in Drones : \A b \in chunk_buffer[d][s] : Settled(s, b.idx, b.occ)
  /\ \A m \in net : Settled(m.chunk_drone, m.idx, m.occ)

IInv == TypeInv /\ ListsInv /\ OwnInv /\ CopiesInv

\* A list that names 1 .. n without a gap is one interval.
LEMMA SolidList ==
  ASSUME NEW n \in Nat \ {0}
  PROVE  /\ << <<1, n>> >> \in Lists /\ Apart(<< <<1, n>> >>) /\ ListIds(<< <<1, n>> >>) = 1 .. n
         /\ \A list \in Lists : Apart(list) /\ ListIds(list) = 1 .. n => list = << <<1, n>> >>
<1> DEFINE solid == << <<1, n>> >>
<1>1. solid \in Lists
  BY DEF Lists, Intervals
<1>2. DOMAIN solid = {1} /\ solid[1][1] = 1 /\ solid[1][2] = n
  OBVIOUS
<1> HIDE DEF solid
<1>3. Apart(solid)
  BY <1>2 DEF Apart
<1>4. ListIds(solid) = 1 .. n
  <2>1. \A m \in Int : m \in ListIds(solid) <=> m \in 1 .. n
    BY <1>1, <1>2, ListIdsMember
  <2> QED BY <1>1, <2>1, SameIds
<1> QED
  BY <1>1, <1>3, <1>4, SameIdsSameList DEF solid

\* The numbers of the chunks that are no placeholders.
HeldOf(list) == {i \in DOMAIN list : list[i] # Empty}

\* What is there is kept, what is in the buffer is there afterwards, and nothing else.
Filled(held, buffer, N, R) ==
  /\ R \in Seq(Contents) /\ Len(R) <= N
  /\ \A i \in HeldOf(held) : i \in DOMAIN R /\ R[i] = held[i]
  /\ \A i \in HeldOf(R) : i \notin HeldOf(held) => \E b \in buffer : b.idx = i /\ R[i] = b.occ
  /\ HeldOf(R) = HeldOf(held) \cup {b.idx : b \in buffer}

\* chunkTimerCallback's resize and fill, for any chunks held and any buffer.
LEMMA InsertExact ==
  ASSUME NEW N \in Nat, NEW held \in Seq(Contents), Len(held) <= N,
         NEW buffer \in SUBSET Buffered, \A b \in buffer : b.idx \in 1 .. N,
         \A b, c \in buffer : b.idx = c.idx => b.occ = c.occ,
         Empty \notin Occ
  PROVE  Filled(held, buffer, N, Insert(held, buffer))
<1> DEFINE R == Insert(held, buffer)
<1> DEFINE ids == {b.idx : b \in buffer}
<1> DEFINE n == Max({Len(held)} \cup ids)
<1>1. Len(held) \in Nat /\ DOMAIN held = 1 .. Len(held) /\ \A i \in DOMAIN held : held[i] \in Contents
  OBVIOUS
<1>2. n \in 0 .. N /\ Len(held) <= n /\ \A i \in ids : i <= n
  <2> DEFINE S == {Len(held)} \cup ids
  <2>1. S \in SUBSET (0 .. N) /\ S # {}
    BY <1>1
  <2>2. Max(S) \in S /\ \A i \in S : i <= Max(S)
    <3> HIDE DEF S
    <3> QED BY <2>1, MaxOfBounded
  <2> QED BY <2>1, <2>2
<1>3. R = [i \in 1 .. n |->
             IF i <= Len(held) /\ held[i] # Empty THEN held[i]
             ELSE IF i \in ids THEN (CHOOSE b \in buffer : b.idx = i).occ
             ELSE Empty]
  BY DEF Insert
<1> HIDE DEF n, R
<1>4. ASSUME NEW i \in ids
      PROVE  \E b \in buffer : b.idx = i /\ b.occ = (CHOOSE c \in buffer : c.idx = i).occ
  OBVIOUS
<1>5. \A b \in buffer : b.occ \in Occ
  BY DEF Buffered
<1>6. ASSUME NEW i \in 1 .. n
      PROVE  /\ i \in HeldOf(held) => R[i] = held[i]
             /\ i \notin HeldOf(held) /\ i \in ids => \E b \in buffer : b.idx = i /\ R[i] = b.occ /\ b.occ \in Occ
             /\ i \notin HeldOf(held) /\ i \notin ids => R[i] = Empty
  <2>1. i \in HeldOf(held) <=> i <= Len(held) /\ held[i] # Empty
    BY <1>1 DEF HeldOf
  <2> QED BY <1>3, <1>4, <1>5, <2>1
<1>7. \A i \in 1 .. n : R[i] \in Contents
  <2>1. \A i \in HeldOf(held) : held[i] \in Contents
    BY <1>1 DEF HeldOf
  <2> QED BY <1>6, <2>1 DEF Contents
<1>8. R \in Seq(Contents) /\ Len(R) = n /\ DOMAIN R = 1 .. n
  <2>1. n \in Nat /\ R \in [1 .. n -> Contents]
    BY <1>2, <1>3, <1>7
  <2> QED BY <2>1
<1>9. \A i \in HeldOf(held) : i \in 1 .. n
  BY <1>1, <1>2 DEF HeldOf
<1>10. \A i \in ids : i \in 1 .. n
  BY <1>2
<1>11. HeldOf(R) = HeldOf(held) \cup ids
  <2>1. \A i \in 1 .. n : i \in HeldOf(R) <=> R[i] # Empty
    BY <1>8 DEF HeldOf
  <2>2. \A i \in HeldOf(R) : i \in 1 .. n
    BY <1>8 DEF HeldOf
  <2>3. \A i \in HeldOf(held) : held[i] # Empty
    BY DEF HeldOf
  <2> HIDE DEF ids
  <2> QED BY <1>6, <1>9, <1>10, <2>1, <2>2, <2>3
<1>12. ASSUME NEW i \in HeldOf(R), i \notin HeldOf(held)
       PROVE  \E b \in buffer : b.idx = i /\ R[i] = b.occ
  BY <1>6, <1>10, <1>11, <1>12
<1> QED
  BY <1>2, <1>6, <1>8, <1>9, <1>11, <1>12 DEF Filled, R
-----------------------------------------------------------------------------
(***************************************************************************)
(* Its proof: the initial state, then one lemma per action.                 *)
(***************************************************************************)
\* What the assumption says of the constants.
LEMMA ConstantFacts ==
  /\ ChunkSize \in Nat \ {0} /\ MaxAdrs \in Nat
  /\ \A s \in Drones : /\ MaxChunks[s] \in 0 .. Infinite /\ MaxChunks[s] \in Nat
                       /\ 1 .. MaxChunks[s] \subseteq ChunkIds
  /\ ChunkIds \subseteq Nat \ {0}
  /\ Empty # NeedQuery /\ Empty \notin Occ /\ NeedQuery \notin Occ
<1>1. \A s \in Drones : MaxChunks[s] \in 0 .. Infinite
  BY MultiMapAssumption DEF Drones
<1>2. \A s \in Drones : MaxChunks[s] \in Nat
  BY <1>1, InfiniteType
<1> QED
  BY <1>1, <1>2, MultiMapAssumption DEF ChunkIds

\* The invariant holds at first.
LEMMA InitInv == Init => IInv
<1> SUFFICES ASSUME Init PROVE IInv
  OBVIOUS
<1>1. \A d, s \in Drones : /\ chunks[d][s] = <<>> /\ idx_list[d][s] = <<>>
                           /\ stamp[d][s] = <<>> /\ chunk_buffer[d][s] = {}
  BY DEF Init
<1>2. TypeInv
  <2>1. \A s \in Drones : 0 <= MaxChunks[s]
    BY ConstantFacts
  <2> QED BY <1>1, <2>1, EmptyList, ConstantFacts DEF Init, TypeInv
<1>3. \A d, s \in Drones : Held(d, s) = {}
  BY <1>1 DEF Held
<1>4. ListsInv
  BY <1>1, <1>3, EmptyList DEF ListsInv, ListsExact
<1>5. OwnInv
  BY <1>1 DEF OwnInv
<1>6. CopiesInv
  BY <1>1, <1>3 DEF CopiesInv, Init
<1> QED BY <1>2, <1>4, <1>5, <1>6 DEF IInv

\* What the invariant says of the held chunks.
LEMMA HeldFacts ==
  ASSUME IInv, NEW d \in Drones, NEW s \in Drones
  PROVE  /\ chunks[d][s] \in Seq(Contents) /\ Len(chunks[d][s]) <= MaxChunks[s]
         /\ DOMAIN chunks[d][s] = 1 .. Len(chunks[d][s])
         /\ DOMAIN chunks[d][s] \subseteq 1 .. MaxChunks[s]
         /\ Held(d, s) = HeldOf(chunks[d][s])
         /\ Held(d, s) \subseteq 1 .. MaxChunks[s] /\ Held(d, s) \subseteq ChunkIds
         /\ idx_list[d][s] \in Lists /\ Apart(idx_list[d][s]) /\ ListIds(idx_list[d][s]) = Held(d, s)
<1>1. chunks[d][s] \in Seq(Contents) /\ Len(chunks[d][s]) <= MaxChunks[s] /\ idx_list[d][s] \in Lists
  BY DEF IInv, TypeInv
<1>2. DOMAIN chunks[d][s] = 1 .. Len(chunks[d][s]) /\ Len(chunks[d][s]) \in Nat
  BY <1>1
<1>3. DOMAIN chunks[d][s] \subseteq 1 .. MaxChunks[s]
  BY <1>1, <1>2, ConstantFacts
<1>4. Held(d, s) \subseteq 1 .. MaxChunks[s] /\ Held(d, s) \subseteq ChunkIds
  BY <1>3, ConstantFacts DEF Held
<1>5. Apart(idx_list[d][s]) /\ ListIds(idx_list[d][s]) = Held(d, s)
  BY DEF IInv, ListsInv, ListsExact
<1> QED BY <1>1, <1>2, <1>3, <1>4, <1>5 DEF Held, HeldOf

\* Chunks are appended, still to be queried.
Grows(old, own, k) ==
  /\ own \in Seq(Contents) /\ Len(own) = Len(old) + k /\ DOMAIN own = 1 .. Len(own)
  /\ DOMAIN old = 1 .. Len(old) /\ Len(old) \in Nat
  /\ \A i \in DOMAIN old : i \in DOMAIN own /\ own[i] = old[i]
  /\ \A i \in DOMAIN own : own[i] = NeedQuery \/ (i \in DOMAIN old /\ own[i] = old[i])

\* Appending chunks is such a step.
LEMMA OwnGrows ==
  ASSUME NEW old \in Seq(Contents), NEW k \in Nat
  PROVE  Grows(old, old \o [j \in 1 .. k |-> NeedQuery], k)
<1> DEFINE new == [j \in 1 .. k |-> NeedQuery]
<1> DEFINE own == old \o new
<1>1. new \in Seq(Contents) /\ Len(new) = k /\ \A j \in 1 .. k : new[j] = NeedQuery
  BY DEF Contents
<1> HIDE DEF new
<1>2. own \in Seq(Contents) /\ Len(own) = Len(old) + k
      /\ \A i \in 1 .. Len(own) : own[i] = IF i <= Len(old) THEN old[i] ELSE NeedQuery
  BY <1>1
<1>3. DOMAIN own = 1 .. Len(own) /\ DOMAIN old = 1 .. Len(old) /\ Len(old) \in Nat
  BY <1>2
<1> HIDE DEF own
<1>4. Grows(old, own, k)
  BY <1>2, <1>3 DEF Grows
<1> QED BY <1>4 DEF own, new

\* What is cut from the buffer of addresses leaves at most one chunk of them.
LEMMA BufferBounded ==
  ASSUME NEW size \in Nat
  PROVE  /\ CompleteChunks(size) \in Nat /\ (size < ChunkSize => CompleteChunks(size) = 0)
         /\ size - CompleteChunks(size) * ChunkSize \in 0 .. ChunkSize
<1> DEFINE inserted == CompleteChunks(size)
<1>1. ChunkSize \in Nat \ {0}
  BY ConstantFacts
<1>2. CASE size >= ChunkSize
  <2>1. (size - 1) \div ChunkSize \in Nat
        /\ size - ((size - 1) \div ChunkSize) * ChunkSize \in 1 .. ChunkSize
    BY <1>1, <1>2
  <2>2. inserted = (size - 1) \div ChunkSize
    BY <1>2 DEF CompleteChunks
  <2> HIDE DEF inserted
  <2>3. inserted \in Nat /\ size - inserted * ChunkSize \in 0 .. ChunkSize
    BY <1>1, <2>1, <2>2
  <2> QED BY <1>1, <1>2, <2>3 DEF inserted
<1>3. CASE size < ChunkSize
  <2>1. inserted = 0
    BY <1>1, <1>3 DEF CompleteChunks
  <2> QED BY <1>1, <1>3, <2>1
<1> QED BY <1>1, <1>2, <1>3

\* The map of d grows, or its process ends.
LEMMA UpdateInv ==
  ASSUME IInv, NEW d \in Drones, NEW n \in 1 .. MaxAdrs, updateMapChunk(d, n)
  PROVE  IInv'
<1> DEFINE size == adr_buffer[d] + n
<1> DEFINE inserted == CompleteChunks(size)
<1> DEFINE own == chunks[d][d] \o [k \in 1 .. inserted |-> NeedQuery]
<1>1. UNCHANGED <<chunk_buffer, stamp, net>>
  BY DEF updateMapChunk
<1>2. CASE size >= ChunkSize /\ own = <<>>
  <2>1. up' = up \ {d} /\ UNCHANGED <<adr_buffer, chunks, idx_list>>
    BY <1>2 DEF updateMapChunk
  <2> QED
    BY <1>1, <2>1 DEF IInv, TypeInv, ListsInv, ListsExact, OwnInv, CopiesInv, Held, Settled
<1>3. CASE ~ (size >= ChunkSize /\ own = <<>>)
  <2>1. /\ adr_buffer' = [adr_buffer EXCEPT ![d] = size - inserted * ChunkSize]
        /\ chunks' = [chunks EXCEPT ![d][d] = own]
        /\ idx_list' = [idx_list EXCEPT ![d][d] =
                          IF size < ChunkSize THEN @
                          ELSE IF @ = <<>> THEN << <<1, Len(own)>> >>
                          ELSE SetBack(@, Len(own))]
        /\ UNCHANGED up /\ Len(own) <= MaxChunks[d]
    BY <1>3 DEF updateMapChunk
  <2>2. size \in Nat /\ inserted \in Nat /\ size - inserted * ChunkSize \in 0 .. ChunkSize
        /\ (size < ChunkSize => inserted = 0)
    <3>1. size \in Nat
      BY ConstantFacts DEF IInv, TypeInv
    <3> HIDE DEF size
    <3> QED BY <3>1, BufferBounded
  <2> DEFINE old == chunks[d][d]
  <2>3. /\ own \in Seq(Contents) /\ Len(own) = Len(old) + inserted /\ DOMAIN own = 1 .. Len(own)
        /\ DOMAIN old = 1 .. Len(old) /\ Len(old) \in Nat
        /\ \A i \in DOMAIN old : i \in DOMAIN own /\ own[i] = old[i]
        /\ \A i \in DOMAIN own : own[i] = NeedQuery \/ (i \in DOMAIN old /\ own[i] = old[i])
    <3>1. old \in Seq(Contents) /\ inserted \in Nat
      BY <2>2, HeldFacts
    <3>2. Grows(old, own, inserted)
      <4> HIDE DEF old, inserted
      <4> QED BY <3>1, OwnGrows DEF old
    <3> HIDE DEF own, inserted
    <3> QED BY <3>2 DEF Grows
  <2> HIDE DEF own, inserted, size
  <2>4. ASSUME NEW e \in Drones, NEW s \in Drones
        PROVE  chunks'[e][s] = IF e = d /\ s = d THEN own ELSE chunks[e][s]
    BY <2>1 DEF IInv, TypeInv
  <2>5. \A i \in DOMAIN own : own[i] # Empty
    BY <2>3, ConstantFacts DEF IInv, OwnInv
  <2> DEFINE l == idx_list[d][d]
  <2>6. idx_list'[d][d] = IF size < ChunkSize THEN l
                          ELSE IF l = <<>> THEN << <<1, Len(own)>> >> ELSE SetBack(l, Len(own))
    BY <2>1 DEF IInv, TypeInv
  <2>7. \A e, s \in Drones : ~ (e = d /\ s = d) => idx_list'[e][s] = idx_list[e][s]
    BY <2>1 DEF IInv, TypeInv
  <2>8. /\ idx_list'[d][d] \in Lists /\ Apart(idx_list'[d][d])
        /\ ListIds(idx_list'[d][d]) = 1 .. Len(own)
    <3>1. l \in Lists /\ Apart(l) /\ ListIds(l) = 1 .. Len(old)
      <4>1. Held(d, d) = DOMAIN old
        BY DEF Held, IInv, OwnInv
      <4> QED BY <2>3, <4>1, HeldFacts
    <3>2. CASE size < ChunkSize
      BY <2>2, <2>3, <2>6, <3>1, <3>2
    <3>3. CASE ~ (size < ChunkSize)
      <4>1. Len(own) \in Nat \ {0}
        <5>1. own # <<>>
          BY <1>3, <2>2, <3>3, ConstantFacts DEF own, inserted, size
        <5> QED BY <2>2, <2>3, <5>1
      <4>2. idx_list'[d][d] = << <<1, Len(own)>> >>
        <5>1. CASE l = <<>>
          BY <2>6, <3>3, <5>1
        <5>2. CASE l # <<>>
          <6>1. Len(old) \in Nat \ {0}
            <7>1. 1 \in DOMAIN l /\ l[1][1] \in Nat /\ l[1][1] <= l[1][2] /\ l[1][2] \in Nat
              BY <3>1, <5>2, ListFacts DEF Lists, Apart
            <7>2. l[1][1] \in ListIds(l)
              BY <3>1, <7>1, ListIdsMember
            <7> QED BY <2>3, <3>1, <7>2
          <6>2. l = << <<1, Len(old)>> >>
            BY <3>1, <6>1, SolidList
          <6>3. SetBack(l, Len(own)) = << <<1, Len(own)>> >>
            BY <6>2 DEF SetBack
          <6> QED BY <2>6, <3>3, <5>2, <6>3
        <5> QED BY <5>1, <5>2
      <4> QED BY <4>1, <4>2, SolidList
    <3> QED BY <3>2, <3>3
  <2>9. TypeInv'
    <3>1. chunks' \in [Drones -> [Drones -> Seq(Contents)]]
      BY <2>1, <2>3 DEF IInv, TypeInv
    <3>2. idx_list' \in [Drones -> [Drones -> Lists]]
      BY <2>1, <2>6, <2>8 DEF IInv, TypeInv
    <3>3. \A e, s \in Drones : Len(chunks'[e][s]) <= MaxChunks[s]
      BY <2>1, <2>4 DEF IInv, TypeInv
    <3>4. adr_buffer' \in [Drones -> 0 .. ChunkSize]
      BY <2>1, <2>2 DEF IInv, TypeInv
    <3> QED BY <1>1, <2>1, <3>1, <3>2, <3>3, <3>4 DEF IInv, TypeInv
  <2>10. /\ Held(d, d)' = 1 .. Len(own)
         /\ \A e, s \in Drones : ~ (e = d /\ s = d) => Held(e, s)' = Held(e, s)
    BY <2>3, <2>4, <2>5 DEF Held
  <2>11. ListsInv'
    BY <1>1, <2>7, <2>8, <2>10 DEF IInv, ListsInv, ListsExact
  <2>12. OwnInv'
    BY <2>4, <2>5 DEF IInv, OwnInv
  <2>13. \A s \in Drones : \A i, occ : Settled(s, i, occ) => Settled(s, i, occ)'
    BY <2>3, <2>4 DEF Settled
  <2>14. CopiesInv'
    <3>1. ASSUME NEW e \in Drones, NEW s \in Drones, e # s, NEW i \in Held(e, s)'
          PROVE  Settled(s, i, chunks[e][s][i])'
      BY <2>4, <2>10, <2>13, <3>1 DEF IInv, CopiesInv
    <3>2. ASSUME NEW e \in Drones, NEW s \in Drones, NEW b \in chunk_buffer'[e][s]
          PROVE  Settled(s, b.idx, b.occ)'
      BY <1>1, <2>13 DEF IInv, CopiesInv
    <3>3. ASSUME NEW m \in net' PROVE Settled(m.chunk_drone, m.idx, m.occ)'
      <4>1. m \in net /\ m.chunk_drone \in Drones
        BY <1>1 DEF IInv, TypeInv, Messages
      <4> QED BY <2>13, <4>1 DEF IInv, CopiesInv
    <3> QED BY <3>1, <3>2, <3>3 DEF CopiesInv
  <2> QED BY <2>9, <2>11, <2>12, <2>14 DEF IInv
<1> QED BY <1>2, <1>3

\* What an owner has settled stays settled, and as it is.
Kept ==
  \A s \in Drones : \A i, occ : Settled(s, i, occ) => Settled(s, i, occ)'

\* d sends its lists: they were in order, so those that were sent are.
LEMMA StampInv ==
  ASSUME IInv, NEW d \in Drones, stampTimerCallback(d) PROVE IInv'
<1>1. UNCHANGED <<up, adr_buffer, chunks, idx_list, chunk_buffer, net>>
  BY DEF stampTimerCallback
<1>2. stamp' = [stamp EXCEPT ![d] = [idx_list[d] EXCEPT ![d] = <<>>]]
  BY DEF stampTimerCallback
<1>3. ASSUME NEW e \in Drones, NEW s \in Drones
      PROVE  stamp'[e][s] \in Lists /\ Apart(stamp'[e][s]) /\ ListIds(stamp'[e][s]) \subseteq 1 .. MaxChunks[s]
  <2>1. CASE e = d /\ s = d
    <3>1. stamp'[e][s] = <<>>
      BY <1>2, <2>1 DEF IInv, TypeInv
    <3> QED BY <3>1, EmptyList
  <2>2. CASE e = d /\ s # d
    <3>1. stamp'[e][s] = idx_list[d][s]
      BY <1>2, <2>2 DEF IInv, TypeInv
    <3> QED BY <3>1, HeldFacts
  <2>3. CASE e # d
    <3>1. stamp'[e][s] = stamp[e][s]
      BY <1>2, <2>3 DEF IInv, TypeInv
    <3> QED BY <3>1 DEF IInv, TypeInv, ListsInv
  <2> QED BY <2>1, <2>2, <2>3
<1>4. stamp' \in [Drones -> [Drones -> Lists]]
  BY <1>2, EmptyList DEF IInv, TypeInv
<1>5. TypeInv' /\ ListsInv'
  <2>1. TypeInv'
    BY <1>1, <1>4 DEF IInv, TypeInv
  <2>2. ListsExact'
    BY <1>1 DEF IInv, ListsInv, ListsExact, Held
  <2> QED BY <1>3, <2>1, <2>2 DEF ListsInv
<1> QED
  BY <1>1, <1>5 DEF IInv, OwnInv, CopiesInv, Held, Settled

\* What is sent is held by the sender, and missed by the other.
LEMMA SendsHeld ==
  ASSUME IInv, NEW d \in Drones, NEW from \in Drones, NEW p \in Sends(d, from)
  PROVE  p[1] \in Drones \ {from} /\ p[2] \in ChunkIds /\ p[2] \in Held(d, p[1])
<1>1. /\ p[1] \in Drones \ {from} /\ p[2] \in ChunkIds
      /\ p[2] \in IdsOf(findMissedChunkIds(idx_list[d][p[1]], stamp[from][p[1]]))
  BY DEF Sends
<1> DEFINE s == p[1]
<1>2. /\ idx_list[d][s] \in Lists /\ Apart(idx_list[d][s]) /\ ListIds(idx_list[d][s]) = Held(d, s)
      /\ Held(d, s) \subseteq 1 .. Infinite
  <2>1. Held(d, s) \subseteq 1 .. MaxChunks[s] /\ MaxChunks[s] \in 0 .. Infinite
    BY <1>1, HeldFacts, ConstantFacts
  <2> QED BY <1>1, <2>1, HeldFacts, InfiniteType
<1>3. stamp[from][s] \in Lists /\ Apart(stamp[from][s])
  BY <1>1 DEF IInv, TypeInv, ListsInv
<1>4. IdsOf(findMissedChunkIds(idx_list[d][s], stamp[from][s])) \subseteq Held(d, s)
  <2>1. IdsOf(findMissedChunkIds(idx_list[d][s], stamp[from][s]))
          = ListIds(idx_list[d][s]) \ ListIds(stamp[from][s])
    BY <1>2, <1>3, MissedExact
  <2> QED BY <1>2, <2>1
<1> QED BY <1>1, <1>4

\* Some chunks of d are queried, the others are left.
Queries(d, from, own) ==
  /\ chunks' = [chunks EXCEPT ![d][d] = own]
  /\ own \in Seq(Contents) /\ Len(own) = Len(chunks[d][d]) /\ DOMAIN own = DOMAIN chunks[d][d]
  /\ \A i \in DOMAIN own :
       /\ own[i] # Empty
       /\ i \in Queried(d, from) => chunks[d][d][i] = NeedQuery /\ own[i] \in Occ
       /\ i \notin Queried(d, from) => own[i] = chunks[d][d][i]

\* stampMsgCallback changes the chunks of d so, whatever the queries return.
LEMMA AnswerChunks ==
  ASSUME IInv, NEW d \in Drones, NEW from \in Drones, stampMsgCallback(d, from)
  PROVE  \E own : Queries(d, from, own)
<1>1. PICK occ \in [Queried(d, from) -> Occ] :
        chunks' = [chunks EXCEPT ![d][d] =
          [i \in DOMAIN @ |-> IF i \in DOMAIN occ THEN occ[i] ELSE @[i]]]
  BY DEF stampMsgCallback
<1> DEFINE old == chunks[d][d]
<1> DEFINE own == [i \in DOMAIN old |-> IF i \in DOMAIN occ THEN occ[i] ELSE old[i]]
<1>2. old \in Seq(Contents) /\ Len(old) \in Nat /\ DOMAIN old = 1 .. Len(old)
  BY HeldFacts
<1>3. chunks' = [chunks EXCEPT ![d][d] = own]
  BY <1>1 DEF IInv, TypeInv
<1>4. ASSUME NEW i \in DOMAIN old
      PROVE  /\ own[i] \in Contents /\ own[i] # Empty
             /\ i \in Queried(d, from) => old[i] = NeedQuery /\ own[i] \in Occ
             /\ i \notin Queried(d, from) => own[i] = old[i]
  <2>1. i \in Queried(d, from) => old[i] = NeedQuery
    BY DEF Queried
  <2>2. own[i] = IF i \in Queried(d, from) THEN occ[i] ELSE old[i]
    OBVIOUS
  <2>3. old[i] \in Contents /\ old[i] # Empty
    BY <1>2 DEF IInv, OwnInv
  <2> QED BY <2>1, <2>2, <2>3, ConstantFacts DEF Contents
<1>5. own \in Seq(Contents) /\ Len(own) = Len(old) /\ DOMAIN own = DOMAIN old
  <2>1. own \in [1 .. Len(old) -> Contents] /\ DOMAIN own = DOMAIN old
    BY <1>2, <1>4
  <2> HIDE DEF own
  <2> QED BY <1>2, <2>1
<1> HIDE DEF own
<1> QED BY <1>3, <1>4, <1>5 DEF Queries

\* d answers a stamp: own chunks are queried, chunks are on their way.
LEMMA AnswerInv ==
  ASSUME IInv, NEW d \in Drones, NEW from \in Drones, stampMsgCallback(d, from) PROVE IInv'
<1>1. UNCHANGED <<up, adr_buffer, idx_list, chunk_buffer, stamp>>
  BY DEF stampMsgCallback
<1> DEFINE old == chunks[d][d]
<1>2. PICK own : Queries(d, from, own)
  BY AnswerChunks
<1>3. old \in Seq(Contents) /\ Len(old) \in Nat /\ DOMAIN old = 1 .. Len(old) /\ Len(old) <= MaxChunks[d]
  BY HeldFacts
<1>4. \A e, s \in Drones : chunks'[e][s] = IF e = d /\ s = d THEN own ELSE chunks[e][s]
  BY <1>2 DEF IInv, TypeInv, Queries
<1>5. \A i \in DOMAIN old : /\ i \in Queried(d, from) => old[i] = NeedQuery /\ own[i] \in Occ
                            /\ i \notin Queried(d, from) => own[i] = old[i]
  BY <1>2 DEF Queries
<1>6. own \in Seq(Contents) /\ Len(own) = Len(old) /\ DOMAIN own = DOMAIN old
  BY <1>2 DEF Queries
<1>7. \A i \in DOMAIN own : own[i] # Empty
  BY <1>2 DEF Queries
<1>8. \A e, s \in Drones : Held(e, s)' = Held(e, s)
  <2>1. Held(d, d)' = Held(d, d)
    BY <1>4, <1>6, <1>7 DEF Held, IInv, OwnInv
  <2>2. \A e, s \in Drones : ~ (e = d /\ s = d) => Held(e, s)' = Held(e, s)
    BY <1>4 DEF Held
  <2> QED BY <2>1, <2>2
<1>9. Kept
  BY <1>4, <1>5, <1>6, ConstantFacts DEF Kept, Settled
<1>10. ASSUME NEW m \in net'
       PROVE  m \in Messages /\ Settled(m.chunk_drone, m.idx, m.occ)'
  <2>1. m \in net \/ \E p \in Sends(d, from) :
          m = [from |-> d, chunk_drone |-> p[1], idx |-> p[2], occ |-> chunks'[d][p[1]][p[2]]]
    BY DEF stampMsgCallback
  <2>2. CASE m \in net
    <3>1. m \in Messages /\ m.chunk_drone \in Drones
      BY <2>2 DEF IInv, TypeInv, Messages
    <3> QED BY <1>9, <2>2, <3>1 DEF IInv, CopiesInv, Kept
  <2>3. CASE \E p \in Sends(d, from) :
          m = [from |-> d, chunk_drone |-> p[1], idx |-> p[2], occ |-> chunks'[d][p[1]][p[2]]]
    <3>1. PICK p \in Sends(d, from) :
            m = [from |-> d, chunk_drone |-> p[1], idx |-> p[2], occ |-> chunks'[d][p[1]][p[2]]]
      BY <2>3
    <3>2. p[1] \in Drones /\ p[2] \in ChunkIds /\ p[2] \in Held(d, p[1])
      BY SendsHeld
    <3>0. PICK c : c = chunks'[d][p[1]][p[2]]
      OBVIOUS
    <3>3. Settled(p[1], p[2], c)'
      <4>1. CASE p[1] = d
        <5>1. p[2] \in DOMAIN old /\ old[p[2]] \in Contents
          BY <1>3, <3>2, <4>1 DEF Held
        <5>2. own[p[2]] \in Occ
          <6>1. CASE old[p[2]] = NeedQuery
            <7>1. p = <<p[1], p[2]>>
              BY DEF Sends
            <7>2. p[2] \in Queried(d, from)
              BY <3>2, <4>1, <6>1, <7>1 DEF Queried
            <7> QED BY <1>5, <5>1, <7>2
          <6>2. CASE old[p[2]] # NeedQuery
            <7>1. own[p[2]] = old[p[2]] /\ own[p[2]] # Empty
              BY <1>5, <1>6, <1>7, <5>1, <6>2
            <7> QED BY <5>1, <6>2, <7>1 DEF Contents
          <6> QED BY <6>1, <6>2
        <5>3. chunks'[d][d] = own /\ c = own[p[2]]
          BY <1>4, <3>0, <4>1
        <5> QED BY <1>6, <4>1, <5>1, <5>2, <5>3 DEF Settled
      <4>2. CASE p[1] # d
        <5>1. Settled(p[1], p[2], chunks[d][p[1]][p[2]])
          BY <3>2, <4>2 DEF IInv, CopiesInv
        <5>2. c = chunks[d][p[1]][p[2]]
          BY <1>4, <3>2, <3>0, <4>2
        <5> QED BY <1>9, <3>2, <5>1, <5>2 DEF Kept
      <4> QED BY <4>1, <4>2
    <3>4. c \in Occ
      BY <3>3 DEF Settled
    <3>5. m = [from |-> d, chunk_drone |-> p[1], idx |-> p[2], occ |-> c]
      BY <3>0, <3>1
    <3> QED BY <3>2, <3>3, <3>4, <3>5 DEF Messages
  <2> QED BY <2>1, <2>2, <2>3
<1>11. TypeInv'
  <2>1. chunks' \in [Drones -> [Drones -> Seq(Contents)]]
    BY <1>2, <1>6 DEF IInv, TypeInv, Queries
  <2>2. \A e, s \in Drones : Len(chunks'[e][s]) <= MaxChunks[s]
    BY <1>3, <1>4, <1>6 DEF IInv, TypeInv
  <2> QED BY <1>1, <1>10, <2>1, <2>2 DEF IInv, TypeInv
<1>12. ListsInv'
  BY <1>1, <1>8 DEF IInv, ListsInv, ListsExact
<1>13. OwnInv'
  BY <1>4, <1>7 DEF IInv, OwnInv
<1>14. CopiesInv'
  <2>1. ASSUME NEW e \in Drones, NEW s \in Drones, e # s, NEW i \in Held(e, s)'
        PROVE  Settled(s, i, chunks[e][s][i])'
    BY <1>4, <1>8, <1>9, <2>1 DEF IInv, CopiesInv, Kept
  <2>2. ASSUME NEW e \in Drones, NEW s \in Drones, NEW b \in chunk_buffer'[e][s]
        PROVE  Settled(s, b.idx, b.occ)'
    BY <1>1, <1>9 DEF IInv, CopiesInv, Kept
  <2> QED BY <1>10, <2>1, <2>2 DEF CopiesInv
<1> QED BY <1>11, <1>12, <1>13, <1>14 DEF IInv

\* A chunk arrives and is buffered: what was on its way was settled.
LEMMA ReceiveInv ==
  ASSUME IInv, NEW d \in Drones, NEW m \in net, chunkCallback(d, m) PROVE IInv'
<1>1. UNCHANGED <<up, adr_buffer, chunks, idx_list, stamp, net>>
  BY DEF chunkCallback
<1>2. chunk_buffer' = [chunk_buffer EXCEPT ![d][m.chunk_drone] =
        @ \cup {[idx |-> m.idx, occ |-> m.occ]}]
  BY DEF chunkCallback
<1>3. m.chunk_drone \in Drones /\ [idx |-> m.idx, occ |-> m.occ] \in Buffered
  BY DEF IInv, TypeInv, Messages, Buffered
<1>4. chunk_buffer' \in [Drones -> [Drones -> SUBSET Buffered]]
  BY <1>2, <1>3 DEF IInv, TypeInv
<1>5. ASSUME NEW e \in Drones, NEW s \in Drones, NEW b \in chunk_buffer'[e][s]
      PROVE  Settled(s, b.idx, b.occ)
  <2>1. b \in chunk_buffer[e][s] \/ (s = m.chunk_drone /\ b = [idx |-> m.idx, occ |-> m.occ])
    BY <1>2, <1>3 DEF IInv, TypeInv
  <2> QED BY <2>1 DEF IInv, CopiesInv
<1> QED
  BY <1>1, <1>4, <1>5 DEF IInv, TypeInv, ListsInv, ListsExact, OwnInv, CopiesInv, Held, Settled

\* A message is lost.
LEMMA LoseInv ==
  ASSUME IInv, NEW m \in net, Lose(m) PROVE IInv'
BY DEF Lose, IInv, TypeInv, ListsInv, ListsExact, OwnInv, CopiesInv, Held, Settled

\* What d holds of s after its buffer is processed: what it held, and settled
\* chunks; its own chunks are not touched.
Processed(d, s, R) ==
  /\ R \in Seq(Contents) /\ Len(R) <= MaxChunks[s]
  /\ \A i \in Held(d, s) : i \in DOMAIN R /\ R[i] = chunks[d][s][i]
  /\ \A i \in HeldOf(R) : i \notin Held(d, s) => Settled(s, i, R[i])
  /\ HeldOf(R) = Held(d, s) \cup {b.idx : b \in chunk_buffer[d][s]}
  /\ s = d => R = chunks[d][d]

\* Insert changes what d holds so.
LEMMA ProcessedChunks ==
  ASSUME IInv, NEW d \in Drones, NEW s \in Drones
  PROVE  Processed(d, s, Insert(chunks[d][s], chunk_buffer[d][s]))
<1> DEFINE buffer == chunk_buffer[d][s]
<1> DEFINE R == Insert(chunks[d][s], buffer)
<1> DEFINE N == MaxChunks[s]
<1>1. /\ buffer \in SUBSET Buffered /\ N \in Nat
      /\ \A b \in buffer : Settled(s, b.idx, b.occ)
  BY ConstantFacts DEF IInv, TypeInv, CopiesInv
<1>2. \A b \in buffer : b.idx \in 1 .. N
  BY <1>1, HeldFacts DEF Settled
<1>3. \A b, c \in buffer : b.idx = c.idx => b.occ = c.occ
  BY <1>1 DEF Settled
<1>4. /\ R \in Seq(Contents) /\ Len(R) <= N
      /\ \A i \in Held(d, s) : i \in DOMAIN R /\ R[i] = chunks[d][s][i]
      /\ \A i \in HeldOf(R) : i \notin Held(d, s) => \E b \in buffer : b.idx = i /\ R[i] = b.occ
      /\ HeldOf(R) = Held(d, s) \cup {b.idx : b \in buffer}
  <2> HIDE DEF buffer, N, R
  <2>1. /\ chunks[d][s] \in Seq(Contents) /\ Len(chunks[d][s]) <= N
        /\ Held(d, s) = HeldOf(chunks[d][s]) /\ R = Insert(chunks[d][s], buffer)
    BY HeldFacts DEF N, R
  <2>2. Filled(chunks[d][s], buffer, N, R)
    BY <1>1, <1>2, <1>3, <2>1, ConstantFacts, InsertExact
  <2> QED BY <2>1, <2>2 DEF Filled
<1> HIDE DEF R
<1>5. \A i \in HeldOf(R) : i \notin Held(d, s) => Settled(s, i, R[i])
  BY <1>1, <1>4
<1>6. ASSUME s = d PROVE R = chunks[d][d]
  <2>1. PICK own, ids : own = chunks[d][d] /\ ids = {b.idx : b \in buffer}
    OBVIOUS
  <2>2. own \in Seq(Contents) /\ DOMAIN own = 1 .. Len(own) /\ Len(own) \in Nat
    BY <2>1, HeldFacts
  <2>3. Held(d, d) = DOMAIN own /\ ids \subseteq DOMAIN own
    BY <1>1, <1>6, <2>1 DEF Settled, Held, IInv, OwnInv
  <2>4. \A i \in DOMAIN own : R[i] = own[i]
    BY <1>4, <1>6, <2>1, <2>3
  <2>5. {Len(own)} \cup ids \in SUBSET (0 .. Len(own)) /\ Len(own) \in {Len(own)} \cup ids
    BY <2>2, <2>3
  <2>6. Max({Len(own)} \cup ids) = Len(own)
    BY <2>2, <2>5, MaxIsBound
  <2>7. DOMAIN R = 1 .. Max({Len(own)} \cup ids)
    BY <1>6, <2>1 DEF Insert, R
  <2>8. DOMAIN R = 1 .. Len(own)
    BY <2>6, <2>7
  <2> HIDE DEF buffer
  <2>9. R = own
    BY <1>4, <2>2, <2>4, <2>8
  <2> QED BY <2>1, <2>9
<1> QED BY <1>4, <1>5, <1>6 DEF Processed, R

\* The list of known chunks of s after d's buffer is processed.
LEMMA ProcessedList ==
  ASSUME IInv, NEW d \in Drones, NEW s \in Drones,
         NEW R, R = mergeChunkIds(ListOf({b.idx : b \in chunk_buffer[d][s]}), idx_list[d][s])
  PROVE  /\ R \in Lists /\ Apart(R)
         /\ ListIds(R) = Held(d, s) \cup {b.idx : b \in chunk_buffer[d][s]}
<1> DEFINE ids == {b.idx : b \in chunk_buffer[d][s]}
<1> DEFINE L == ListOf(ids)
<1>1. MaxChunks[s] \in Nat /\ ids \in SUBSET (1 .. MaxChunks[s])
  <2>1. \A b \in chunk_buffer[d][s] : b.idx \in DOMAIN chunks[s][s]
    BY DEF IInv, CopiesInv, Settled
  <2> QED BY <2>1, HeldFacts, ConstantFacts
<1> HIDE DEF ids
<1>2. L \in Lists /\ Apart(L) /\ ListIds(L) = ids
  BY <1>1, ListOfExact
<1>3. R = mergeChunkIds(L, idx_list[d][s])
  BY DEF ids
<1> HIDE DEF L
<1>4. R \in Lists /\ Apart(R) /\ ListIds(R) = ids \cup Held(d, s)
  <2>1. /\ idx_list[d][s] \in Lists /\ Apart(idx_list[d][s])
        /\ ListIds(idx_list[d][s]) = Held(d, s)
    BY HeldFacts
  <2>2. PICK K : K = idx_list[d][s]
    OBVIOUS
  <2>3. R \in Lists /\ Apart(R) /\ ListIds(R) = ListIds(L) \cup ListIds(K)
    BY <1>2, <1>3, <2>1, <2>2, MergeExact
  <2> QED BY <1>2, <2>1, <2>2, <2>3
<1> QED BY <1>4 DEF ids

\* The buffers of d are processed: chunks and lists change alike.
LEMMA ProcessInv ==
  ASSUME IInv, NEW d \in Drones, chunkTimerCallback(d) PROVE IInv'
<1> DEFINE new(s) == Insert(chunks[d][s], chunk_buffer[d][s])
<1> DEFINE list(s) == IF chunk_buffer[d][s] = {} THEN idx_list[d][s]
                      ELSE mergeChunkIds(ListOf({b.idx : b \in chunk_buffer[d][s]}), idx_list[d][s])
<1>1. UNCHANGED <<up, adr_buffer, stamp, net>>
  BY DEF chunkTimerCallback
<1>2. /\ chunks' = [chunks EXCEPT ![d] = [s \in Drones |-> new(s)]]
      /\ idx_list' = [idx_list EXCEPT ![d] = [s \in Drones |-> list(s)]]
      /\ chunk_buffer' = [chunk_buffer EXCEPT ![d] = [s \in Drones |-> {}]]
  BY DEF chunkTimerCallback, IInv, TypeInv
<1>3. ASSUME NEW s \in Drones PROVE Processed(d, s, new(s))
  BY ProcessedChunks
<1>4. ASSUME NEW s \in Drones
      PROVE  list(s) \in Lists /\ Apart(list(s)) /\ ListIds(list(s)) = HeldOf(new(s))
  <2>1. CASE chunk_buffer[d][s] = {}
    <3>1. list(s) = idx_list[d][s] /\ {b.idx : b \in chunk_buffer[d][s]} = {}
      BY <2>1
    <3>2. HeldOf(new(s)) = Held(d, s) \cup {b.idx : b \in chunk_buffer[d][s]}
      BY <1>3 DEF Processed
    <3> HIDE DEF new, list
    <3> QED BY <3>1, <3>2, HeldFacts
  <2>2. CASE chunk_buffer[d][s] # {}
    <3>1. list(s) = mergeChunkIds(ListOf({b.idx : b \in chunk_buffer[d][s]}), idx_list[d][s])
      BY <2>2
    <3>2. HeldOf(new(s)) = Held(d, s) \cup {b.idx : b \in chunk_buffer[d][s]}
      BY <1>3 DEF Processed
    <3> HIDE DEF new, list
    <3> QED BY <3>1, <3>2, ProcessedList
  <2> QED BY <2>1, <2>2
<1> HIDE DEF new, list
<1>5. ASSUME NEW e \in Drones, NEW s \in Drones
      PROVE  /\ chunks'[e][s] = IF e = d THEN new(s) ELSE chunks[e][s]
             /\ idx_list'[e][s] = IF e = d THEN list(s) ELSE idx_list[e][s]
             /\ chunk_buffer'[e][s] = IF e = d THEN {} ELSE chunk_buffer[e][s]
  BY <1>2 DEF IInv, TypeInv
<1>6. ASSUME NEW e \in Drones, NEW s \in Drones
      PROVE  Held(e, s)' = IF e = d THEN HeldOf(new(s)) ELSE Held(e, s)
  BY <1>5 DEF Held, HeldOf
<1>7. \A s \in Drones : chunks'[s][s] = chunks[s][s]
  BY <1>3, <1>5 DEF Processed
<1>8. \A s \in Drones : \A i, occ : Settled(s, i, occ)' <=> Settled(s, i, occ)
  BY <1>7 DEF Settled
<1>9. TypeInv'
  <2>1. chunks' \in [Drones -> [Drones -> Seq(Contents)]]
    <3>1. \A s \in Drones : new(s) \in Seq(Contents)
      BY <1>3 DEF Processed
    <3> QED BY <1>2, <3>1 DEF IInv, TypeInv
  <2>2. idx_list' \in [Drones -> [Drones -> Lists]]
    BY <1>2, <1>4 DEF IInv, TypeInv
  <2>3. chunk_buffer' \in [Drones -> [Drones -> SUBSET Buffered]]
    BY <1>2 DEF IInv, TypeInv
  <2>4. \A e, s \in Drones : Len(chunks'[e][s]) <= MaxChunks[s]
    <3>1. ASSUME NEW e \in Drones, NEW s \in Drones PROVE Len(chunks'[e][s]) <= MaxChunks[s]
      <4>1. CASE e = d
        <5>1. chunks'[e][s] = new(s) /\ Len(new(s)) <= MaxChunks[s]
          BY <1>3, <1>5, <4>1 DEF Processed
        <5> QED BY <5>1
      <4>2. CASE e # d
        <5>1. chunks'[e][s] = chunks[e][s]
          BY <1>5, <4>2
        <5> QED BY <5>1 DEF IInv, TypeInv
      <4> QED BY <4>1, <4>2
    <3> QED BY <3>1
  <2> QED BY <1>1, <2>1, <2>2, <2>3, <2>4 DEF IInv, TypeInv
<1>10. ListsInv'
  <2>1. \A e, s \in Drones : (ListIds(idx_list[e][s]) = Held(e, s) /\ Apart(idx_list[e][s]))'
    BY <1>4, <1>5, <1>6, HeldFacts
  <2> QED BY <1>1, <2>1 DEF IInv, ListsInv, ListsExact
<1>11. OwnInv'
  BY <1>7 DEF IInv, OwnInv
<1>12. CopiesInv'
  <2>1. ASSUME NEW e \in Drones, NEW s \in Drones, e # s, NEW i \in Held(e, s)'
        PROVE  Settled(s, i, chunks[e][s][i])'
    <3>1. PICK c : c = chunks'[e][s][i]
      OBVIOUS
    <3>2. Settled(s, i, c)
      <4>1. CASE e = d
        <5>1. i \in HeldOf(new(s)) /\ c = new(s)[i]
          BY <1>5, <1>6, <3>1, <4>1
        <5>2. CASE i \in Held(d, s)
          BY <1>3, <2>1, <4>1, <5>1, <5>2 DEF IInv, CopiesInv, Processed
        <5>3. CASE i \notin Held(d, s)
          BY <1>3, <5>1, <5>3 DEF Processed
        <5> QED BY <5>2, <5>3
      <4>2. CASE e # d
        BY <1>5, <1>6, <2>1, <3>1, <4>2 DEF IInv, CopiesInv
      <4> QED BY <4>1, <4>2
    <3> QED BY <1>8, <3>1, <3>2
  <2>2. ASSUME NEW e \in Drones, NEW s \in Drones, NEW b \in chunk_buffer'[e][s]
        PROVE  Settled(s, b.idx, b.occ)'
    BY <1>5, <1>8 DEF IInv, CopiesInv
  <2>3. ASSUME NEW m \in net' PROVE Settled(m.chunk_drone, m.idx, m.occ)'
    <3>1. m \in net /\ m.chunk_drone \in Drones
      BY <1>1 DEF IInv, TypeInv, Messages
    <3> QED BY <1>8, <3>1 DEF IInv, CopiesInv
  <2> QED BY <2>1, <2>2, <2>3 DEF CopiesInv
<1> QED BY <1>9, <1>10, <1>11, <1>12 DEF IInv

\* Every step preserves the invariant.
LEMMA NextInv == IInv /\ [Next]_vars => IInv'
<1>1. ASSUME IInv, Next PROVE IInv'
  BY <1>1, UpdateInv, StampInv, AnswerInv, ReceiveInv, ProcessInv, LoseInv DEF Next
<1>2. ASSUME IInv, UNCHANGED vars PROVE IInv'
  BY <1>2 DEF vars, IInv, TypeInv, ListsInv, ListsExact, OwnInv, CopiesInv, Held, Settled
<1> QED BY <1>1, <1>2

\* The inductive invariant holds in every reachable state.
THEOREM InductiveInv == Spec => []IInv
BY InitInv, NextInv, PTL DEF Spec
-----------------------------------------------------------------------------
(***************************************************************************)
(* What follows from it.                                                    *)
(***************************************************************************)
\* The ends of the intervals of a list are among its numbers.
LEMMA EndsNamed ==
  ASSUME NEW list \in Lists, Apart(list), NEW S, ListIds(list) \subseteq S
  PROVE  Range(list) \subseteq S \X S
<1>1. ASSUME NEW k \in DOMAIN list PROVE list[k] \in S \X S
  <2>1. /\ list[k] = <<list[k][1], list[k][2]>> /\ list[k][1] \in Nat /\ list[k][2] \in Nat
        /\ list[k][1] <= list[k][2]
    BY ListFacts DEF Apart
  <2>2. list[k][1] \in ListIds(list) /\ list[k][2] \in ListIds(list)
    BY <2>1, ListIdsMember
  <2> QED BY <2>1, <2>2
<1> QED BY <1>1 DEF Range

\* Types, and bounds: no list reaches beyond the chunks there can be.
THEOREM TypeCorrect == Spec => []TypeOK
<1>1. IInv => TypeOK
  <2> SUFFICES ASSUME IInv PROVE TypeOK
    OBVIOUS
  <2>1. ASSUME NEW d \in Drones, NEW s \in Drones
        PROVE  /\ Range(chunks[d][s]) \subseteq Occ \cup {Empty, NeedQuery}
               /\ Len(chunks[d][s]) <= MaxChunks[s]
               /\ Range(idx_list[d][s]) \subseteq ChunkIds \X ChunkIds
               /\ Range(stamp[d][s]) \subseteq ChunkIds \X ChunkIds
               /\ chunk_buffer[d][s] \subseteq [idx : ChunkIds, occ : Occ]
    <3>1. Range(chunks[d][s]) \subseteq Occ \cup {Empty, NeedQuery} /\ Len(chunks[d][s]) <= MaxChunks[s]
      BY HeldFacts DEF Range, Contents
    <3>2. Range(idx_list[d][s]) \subseteq ChunkIds \X ChunkIds
      BY HeldFacts, EndsNamed
    <3>3. stamp[d][s] \in Lists /\ Apart(stamp[d][s]) /\ ListIds(stamp[d][s]) \subseteq ChunkIds
      <4>1. /\ stamp[d][s] \in Lists /\ Apart(stamp[d][s])
            /\ ListIds(stamp[d][s]) \subseteq 1 .. MaxChunks[s]
        BY DEF IInv, TypeInv, ListsInv
      <4>2. 1 .. MaxChunks[s] \subseteq ChunkIds
        BY ConstantFacts
      <4> QED BY <4>1, <4>2
    <3>4. chunk_buffer[d][s] \subseteq [idx : ChunkIds, occ : Occ]
      BY DEF IInv, TypeInv, Buffered
    <3> QED BY <3>1, <3>2, <3>3, <3>4, EndsNamed
  <2> QED BY <2>1 DEF IInv, TypeInv, TypeOK
<1> QED BY <1>1, InductiveInv, PTL

\* The lists of known chunks name exactly the chunks that are there, in intervals
\* that are in order and apart.
THEOREM ListsExactCorrect == Spec => []ListsExact
<1>1. IInv => ListsExact
  BY DEF IInv, ListsInv
<1> QED BY <1>1, InductiveInv, PTL

\* On all lists of numbers, and on those that are held, findMissedChunkIds is the
\* difference and mergeChunkIds the union.
THEOREM ListOpsExactCorrect == Spec => []ListOpsExact
<1>1. OpsExactUpTo
  <2>1. MaxListId \in 0 .. Infinite /\ MaxListId \in Nat
    BY MultiMapAssumption, InfiniteType
  <2>2. ASSUME NEW S \in SUBSET (1 .. MaxListId), NEW T \in SUBSET (1 .. MaxListId)
        PROVE  OpsExact(ListOf(S), ListOf(T))
    <3>1. ListOf(S) \in Lists /\ Apart(ListOf(S)) /\ ListIds(ListOf(S)) = S
      BY <2>1, ListOfExact
    <3>2. ListOf(T) \in Lists /\ Apart(ListOf(T)) /\ ListIds(ListOf(T)) = T
      BY <2>1, ListOfExact
    <3> QED BY <2>1, <3>1, <3>2, OpsExactOnLists
  <2> QED BY <2>2 DEF OpsExactUpTo
<1>2. IInv => ListOpsExact
  <2> SUFFICES ASSUME IInv, NEW from \in Drones, NEW d \in Drones, NEW s \in Drones
               PROVE  OpsExact(idx_list[d][s], stamp[from][s])
    BY <1>1 DEF ListOpsExact
  <2>1. MaxChunks[s] \in 0 .. Infinite
    BY ConstantFacts
  <2>2. /\ idx_list[d][s] \in Lists /\ Apart(idx_list[d][s])
        /\ ListIds(idx_list[d][s]) \subseteq 1 .. MaxChunks[s]
    BY HeldFacts
  <2>3. /\ stamp[from][s] \in Lists /\ Apart(stamp[from][s])
        /\ ListIds(stamp[from][s]) \subseteq 1 .. MaxChunks[s]
    BY DEF IInv, TypeInv, ListsInv
  <2> QED BY <2>1, <2>2, <2>3, OpsExactOnLists
<1> QED BY <1>2, InductiveInv, PTL

\* All copies of a chunk have the contents its owner has.
THEOREM SameContentsCorrect == Spec => []SameContents
<1>1. IInv => SameContents
  <2> SUFFICES ASSUME IInv, NEW d \in Drones, NEW s \in Drones, NEW i \in Held(d, s), d # s
               PROVE  i \in Held(s, s) /\ chunks[d][s][i] = chunks[s][s][i]
    BY DEF SameContents
  <2>1. Settled(s, i, chunks[d][s][i])
    BY DEF IInv, CopiesInv
  <2> QED BY <2>1, ConstantFacts DEF Settled, Held
<1> QED BY <1>1, InductiveInv, PTL
-----------------------------------------------------------------------------
(***************************************************************************)
(* The exchange implements ChunkGossip.                                     *)
(***************************************************************************)
\* What ChunkGossip sees of the chunks c.
View(c) ==
  [d \in Drones |-> [s \in Drones |-> [i \in ChunkIds |->
     IF i \in DOMAIN c[d][s] THEN c[d][s][i] ELSE Empty]]]

\* The view of chunks of the right type is one ChunkGossip knows.
LEMMA ViewTyped ==
  ASSUME NEW c \in [Drones -> [Drones -> Seq(Contents)]]
  PROVE  View(c) \in Gossip!Maps
<1>1. ASSUME NEW d \in Drones, NEW s \in Drones, NEW i \in ChunkIds
      PROVE  (IF i \in DOMAIN c[d][s] THEN c[d][s][i] ELSE Empty) \in Occ \cup {Empty, NeedQuery}
  <2>1. c[d][s] \in Seq(Contents)
    OBVIOUS
  <2> QED BY <2>1 DEF Contents
<1> QED BY <1>1 DEF View, Gossip!Maps

\* A step that changes what d holds, and is seen, is seen at d alone.
LEMMA OnlyHolder ==
  ASSUME TypeInv', NEW d \in Drones, View(chunks') # View(chunks),
         \A e \in Drones \ {d} : chunks'[e] = chunks[e]
  PROVE  Gossip!Only(d)
<1>1. View(chunks') \in Gossip!Maps
  <2>1. PICK c : c = chunks'
    OBVIOUS
  <2>2. c \in [Drones -> [Drones -> Seq(Contents)]]
    BY <2>1 DEF TypeInv
  <2> QED BY <2>1, <2>2, ViewTyped
<1>2. \A e \in Drones \ {d} : View(chunks')[e] = View(chunks)[e]
  BY DEF View
<1>3. View(chunks')[d] # View(chunks)[d]
  BY <1>2 DEF View
<1> QED BY <1>1, <1>2, <1>3 DEF View, Gossip!Only, Gossip!Maps

\* The map of a drone grows: unseen, or its owner inserts.
LEMMA UpdateSeen ==
  ASSUME IInv, IInv', NEW d \in Drones, NEW n \in 1 .. MaxAdrs, updateMapChunk(d, n)
  PROVE  View(chunks') = View(chunks) \/ Gossip!Insert(d)
<1> DEFINE k == CompleteChunks(adr_buffer[d] + n)
<1> DEFINE old == chunks[d][d]
<1> DEFINE own == old \o [j \in 1 .. k |-> NeedQuery]
<1>1. CASE UNCHANGED chunks
  BY <1>1
<1>2. CASE chunks' = [chunks EXCEPT ![d][d] = own] /\ View(chunks') # View(chunks)
  <2>1. Grows(old, own, k)
    <3>1. old \in Seq(Contents)
      BY HeldFacts
    <3>2. adr_buffer[d] + n \in Nat
      BY ConstantFacts DEF IInv, TypeInv
    <3>3. k \in Nat
      <4>1. PICK size \in Nat : size = adr_buffer[d] + n
        BY <3>2
      <4> QED BY <4>1, BufferBounded
    <3> HIDE DEF old, k
    <3> QED BY <3>1, <3>3, OwnGrows DEF old
  <2> HIDE DEF own, k
  <2>2. \A e, s \in Drones : chunks'[e][s] = IF e = d /\ s = d THEN own ELSE chunks[e][s]
    BY <1>2 DEF IInv, TypeInv
  <2>3. Gossip!Only(d)
    <3>1. TypeInv' /\ \A e \in Drones \ {d} : chunks'[e] = chunks[e]
      BY <1>2 DEF IInv, TypeInv
    <3> QED BY <1>2, <3>1, OnlyHolder
  <2>4. \A s \in Drones \ {d} : Gossip!Changed(d, s) = {}
    BY <2>2 DEF Gossip!Changed
  <2>5. ASSUME NEW i \in Gossip!Changed(d, d)
        PROVE  View(chunks)[d][d][i] = Empty /\ View(chunks')[d][d][i] = NeedQuery
    <3>1. i \in ChunkIds /\ View(chunks)[d][d][i] # View(chunks')[d][d][i]
      BY DEF Gossip!Changed, View
    <3>2. i \notin DOMAIN old
      BY <2>1, <2>2, <3>1 DEF Grows, View
    <3>3. i \in DOMAIN own
      BY <2>2, <3>1, <3>2 DEF View
    <3> QED BY <2>1, <2>2, <3>1, <3>2, <3>3 DEF Grows, View
  <2>6. ASSUME NEW i \in ChunkIds, NEW j \in ChunkIds, i <= j, View(chunks')[d][d][j] # Empty
        PROVE  View(chunks')[d][d][i] # Empty
    <3>1. j \in DOMAIN own /\ i \in Nat \ {0} /\ j \in Nat
      BY <2>2, <2>6, ConstantFacts DEF View
    <3>2. i \in DOMAIN own
      BY <2>1, <2>6, <3>1 DEF Grows
    <3>3. own[i] # Empty
      BY <2>1, <3>2, ConstantFacts DEF Grows, IInv, OwnInv
    <3> QED BY <2>2, <3>2, <3>3 DEF View
  <2> QED BY <2>3, <2>4, <2>5, <2>6 DEF Gossip!Insert, View
<1> QED BY <1>1, <1>2 DEF updateMapChunk

\* An answer to a stamp: unseen, or the owner settles what it queries.
LEMMA AnswerSeen ==
  ASSUME IInv, IInv', NEW d \in Drones, NEW from \in Drones, stampMsgCallback(d, from)
  PROVE  View(chunks') = View(chunks) \/ Gossip!Settle(d)
<1>1. PICK own : Queries(d, from, own)
  BY AnswerChunks
<1> SUFFICES ASSUME View(chunks') # View(chunks) PROVE Gossip!Settle(d)
  OBVIOUS
<1>2. \A e, s \in Drones : chunks'[e][s] = IF e = d /\ s = d THEN own ELSE chunks[e][s]
  BY <1>1 DEF IInv, TypeInv, Queries
<1>3. Gossip!Only(d)
  <2>1. TypeInv' /\ \A e \in Drones \ {d} : chunks'[e] = chunks[e]
    BY <1>1 DEF IInv, TypeInv, Queries
  <2> QED BY <2>1, OnlyHolder
<1>4. \A s \in Drones \ {d} : Gossip!Changed(d, s) = {}
  BY <1>2 DEF Gossip!Changed
<1>5. ASSUME NEW i \in Gossip!Changed(d, d)
      PROVE  View(chunks)[d][d][i] = NeedQuery /\ View(chunks')[d][d][i] \in Occ
  <2>1. i \in ChunkIds /\ View(chunks)[d][d][i] # View(chunks')[d][d][i]
    BY DEF Gossip!Changed, View
  <2>2. i \in DOMAIN own /\ DOMAIN own = DOMAIN chunks[d][d]
    BY <1>1, <1>2, <2>1 DEF Queries, View
  <2>3. i \in Queried(d, from)
    BY <1>1, <1>2, <2>1, <2>2 DEF Queries, View
  <2> QED BY <1>1, <1>2, <2>1, <2>2, <2>3 DEF Queries, View
<1> QED BY <1>3, <1>4, <1>5 DEF Gossip!Settle, View

\* The processing of the buffers: unseen, or d learns settled chunks.
LEMMA ProcessSeen ==
  ASSUME IInv, IInv', NEW d \in Drones, chunkTimerCallback(d)
  PROVE  View(chunks') = View(chunks) \/ Gossip!Learn(d)
<1> DEFINE new(s) == Insert(chunks[d][s], chunk_buffer[d][s])
<1>1. ASSUME NEW s \in Drones PROVE Processed(d, s, new(s))
  BY ProcessedChunks
<1>2. chunks' = [chunks EXCEPT ![d] = [s \in Drones |-> new(s)]]
  BY DEF chunkTimerCallback, IInv, TypeInv
<1> HIDE DEF new
<1> SUFFICES ASSUME View(chunks') # View(chunks) PROVE Gossip!Learn(d)
  OBVIOUS
<1>3. \A e, s \in Drones : chunks'[e][s] = IF e = d THEN new(s) ELSE chunks[e][s]
  BY <1>2 DEF IInv, TypeInv
<1>4. Gossip!Only(d)
  <2>1. TypeInv' /\ \A e \in Drones \ {d} : chunks'[e] = chunks[e]
    BY <1>2 DEF IInv, TypeInv
  <2> QED BY <2>1, OnlyHolder
<1>5. Gossip!Changed(d, d) = {}
  <2>1. chunks'[d][d] = chunks[d][d]
    BY <1>1, <1>3 DEF Processed
  <2> QED BY <2>1 DEF Gossip!Changed
<1>6. ASSUME NEW s \in Drones \ {d}, NEW i \in Gossip!Changed(d, s)
      PROVE  /\ View(chunks)[d][s][i] = Empty
             /\ View(chunks)[s][s][i] \in Occ
             /\ View(chunks')[d][s][i] = View(chunks)[s][s][i]
  <2>1. i \in ChunkIds /\ View(chunks)[d][s][i] # View(chunks')[d][s][i]
    BY DEF Gossip!Changed, View
  <2>2. i \notin Held(d, s)
    BY <1>1, <1>3, <2>1 DEF Processed, View, Held
  <2>3. View(chunks)[d][s][i] = Empty
    BY <2>1, <2>2 DEF View, Held
  <2>4. i \in HeldOf(new(s))
    BY <1>3, <2>1, <2>3 DEF View, HeldOf
  <2>5. Settled(s, i, new(s)[i])
    BY <1>1, <2>2, <2>4 DEF Processed
  <2> QED BY <1>3, <2>1, <2>3, <2>4, <2>5 DEF View, HeldOf, Settled
<1> QED BY <1>4, <1>5, <1>6 DEF Gossip!Learn, View

\* Every step is one of ChunkGossip's, or is not seen there.
LEMMA StepSeen ==
  IInv /\ IInv' /\ [Next]_vars => (View(chunks') = View(chunks) \/ Gossip!Next)
<1> SUFFICES ASSUME IInv, IInv', [Next]_vars PROVE View(chunks') = View(chunks) \/ Gossip!Next
  OBVIOUS
<1>1. CASE \E d \in Drones, n \in 1 .. MaxAdrs : updateMapChunk(d, n)
  BY <1>1, UpdateSeen DEF Gossip!Next
<1>2. CASE \E d, from \in Drones : stampMsgCallback(d, from)
  BY <1>2, AnswerSeen DEF Gossip!Next
<1>3. CASE \E d \in Drones : chunkTimerCallback(d)
  BY <1>3, ProcessSeen DEF Gossip!Next
<1>4. CASE UNCHANGED chunks
  BY <1>4
<1> QED
  BY <1>1, <1>2, <1>3, <1>4 DEF Next, stampTimerCallback, chunkCallback, Lose, vars

\* The exchange keeps the promise of ChunkGossip: chunks are inserted and settled
\* by their owners alone, and the others learn them as their owners settled them.
THEOREM GossipCorrect == Spec => GossipImplemented
<1>1. Init => Gossip!Init
  BY DEF Init, Gossip!Init
<1>2. IInv /\ IInv' /\ [Next]_vars => [Gossip!Next]_(View(chunks))
  BY StepSeen DEF View
<1> QED
  BY <1>1, <1>2, InductiveInv, PTL DEF Spec, GossipImplemented, Gossip!Spec, View

\* What ChunkGossip_proofs shows of every implementation of the promise.
Promise == INSTANCE ChunkGossip_proofs WITH
  Ids <- ChunkIds,
  Nothing <- Empty,
  Unsettled <- NeedQuery,
  held <- View(chunks)

\* So no step of the exchange takes a chunk from a drone, or changes a settled one.
THEOREM ExchangeLosesNothing == Spec => [][Promise!NothingLost]_(View(chunks))
<1>1. Promise!GossipAssumption
  BY ConstantFacts DEF Promise!GossipAssumption
<1>2. Gossip!Init => Promise!Init
  BY DEF Gossip!Init, Promise!Init, View
<1>3. Gossip!Next => Promise!Next
  <2>1. ASSUME NEW d \in Drones PROVE Gossip!Only(d) => Promise!Only(d)
    BY DEF View, Gossip!Only, Promise!Only, Gossip!Maps, Promise!Maps
  <2>2. ASSUME NEW d \in Drones, NEW s \in Drones PROVE Gossip!Changed(d, s) = Promise!Changed(d, s)
    BY DEF View, Gossip!Changed, Promise!Changed
  <2>3. ASSUME NEW d \in Drones, Gossip!Insert(d) PROVE Promise!Insert(d)
    BY <2>1, <2>2, <2>3 DEF View, Gossip!Insert, Promise!Insert
  <2>4. ASSUME NEW d \in Drones, Gossip!Settle(d) PROVE Promise!Settle(d)
    BY <2>1, <2>2, <2>4 DEF View, Gossip!Settle, Promise!Settle
  <2>5. ASSUME NEW d \in Drones, Gossip!Learn(d) PROVE Promise!Learn(d)
    BY <2>1, <2>2, <2>5 DEF View, Gossip!Learn, Promise!Learn
  <2> QED BY <2>3, <2>4, <2>5 DEF Gossip!Next, Promise!Next
<1>4. IInv /\ IInv' /\ [Next]_vars => [Promise!Next]_(View(chunks))
  BY <1>3, StepSeen
<1>5. Init => Promise!Init
  BY <1>2 DEF Init, Gossip!Init
<1>6. Spec => Promise!Spec
  BY <1>4, <1>5, InductiveInv, PTL DEF Spec, Promise!Spec
<1>7. Promise!Spec => [][Promise!NothingLost]_(View(chunks))
  BY <1>1, Promise!NothingLostCorrect
<1> QED BY <1>6, <1>7
==============================================================================
