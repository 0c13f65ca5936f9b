--------------------------- MODULE ChordId_proofs ---------------------------
(***************************************************************************)
(* Lemmas about the identifier circle and the choice of the next hop.      *)
(***************************************************************************)
EXTENDS ChordId, WellFoundedInduction, TLAPS

\* Identifiers are natural numbers, the arithmetic on them stays in range.
LEMMA IdArithmetic ==
  ASSUME NEW a \in Id, NEW i \in 0 .. Bits
  PROVE  Plus(a, 2^i) \in Id
<1>1. 2^i \in Nat /\ 2^Bits \in Nat \ {0}
  BY WidthAssumption
<1>2. a + 2^i \in Nat
  BY <1>1 DEF Id
<1> DEFINE R == 2^Bits
           s == a + 2^i
<1>3. s % R \in 0 .. (R - 1)
  <2>1. R \in Nat \ {0} /\ s \in Nat
    BY <1>1, <1>2
  <2> HIDE DEF R, s
  <2> QED
    BY <2>1
<1> QED
  BY <1>3 DEF Plus, Id

\* Adding one on the circle stays on it.
LEMMA PlusOneInId ==
  ASSUME NEW a \in Id
  PROVE  Plus(a, 1) \in Id
<1> DEFINE R == 2^Bits
           s == a + 1
<1>1. R \in Nat \ {0} /\ s \in Nat
  BY WidthAssumption DEF Id
<1>2. s % R \in 0 .. (R - 1)
  <2> HIDE DEF R, s
  <2> QED
    BY <1>1
<1> QED
  BY <1>2 DEF Plus, Id

\* The distance round the circle is between one step and a full turn.
LEMMA DistRange ==
  ASSUME NEW a \in Id, NEW b \in Id
  PROVE  Dist(a, b) \in 1 .. 2^Bits
<1> DEFINE R == 2^Bits
<1>1. R \in Nat \ {0}
  BY WidthAssumption
<1>2. a \in 0 .. (R - 1) /\ b \in 0 .. (R - 1)
  BY DEF Id
<1> HIDE DEF R
<1>3. (IF a < b THEN b - a ELSE R - (a - b)) \in 1 .. R
  BY <1>1, <1>2
<1> QED
  BY <1>3 DEF Dist, R

\* A node strictly between another and a key is closer to the key.
LEMMA BetweenIsCloser ==
  ASSUME NEW n \in Id, NEW key \in Id, NEW x \in Id, RangeOpen(x, n, key)
  PROVE  Dist(x, key) < Dist(n, key)
<1> DEFINE R == 2^Bits
<1>1. R \in Nat \ {0}
  BY WidthAssumption
<1>2. n \in 0 .. (R - 1) /\ key \in 0 .. (R - 1) /\ x \in 0 .. (R - 1)
  BY DEF Id
<1>3. \/ n < key /\ x > n /\ x < key
      \/ n > key /\ (x > n \/ x < key)
  BY DEF RangeOpen
<1> HIDE DEF R
<1>4. (IF x < key THEN key - x ELSE R - (x - key))
        < (IF n < key THEN key - n ELSE R - (n - key))
  BY <1>1, <1>2, <1>3
<1> QED
  BY <1>4 DEF Dist, R

\* A successor that does not own a key is closer to it than its predecessor.
LEMMA SuccessorIsCloser ==
  ASSUME NEW n \in Id, NEW key \in Id, NEW s \in Id,
         s # n, ~RangeOpenClosed(key, n, s)
  PROVE  Dist(s, key) < Dist(n, key)
<1> DEFINE R == 2^Bits
<1>1. R \in Nat \ {0}
  BY WidthAssumption
<1>2. n \in 0 .. (R - 1) /\ key \in 0 .. (R - 1) /\ s \in 0 .. (R - 1)
  BY DEF Id
<1>3. /\ ~(n < s /\ key > n /\ key <= s)
      /\ ~(n > s /\ (key > n \/ key <= s))
  BY DEF RangeOpenClosed
<1> HIDE DEF R
<1>4. (IF s < key THEN key - s ELSE R - (s - key))
        < (IF n < key THEN key - n ELSE R - (n - key))
  BY <1>1, <1>2, <1>3
<1> QED
  BY <1>4 DEF Dist, R

----------------------------------------------------------------------------
\* A nonempty set of natural numbers has a least element: the library's
\* well-founded induction gives a minimal one.
LEMMA NatOrder ==
  IsWellFoundedOn({p \in Nat \X Nat : p[1] < p[2]}, Nat)
BY NatLessThanWellFounded DEF OpToRel

\* A set of natural numbers that is not empty has a least one.
LEMMA LeastExists ==
  ASSUME NEW T \in SUBSET Nat, T # {}
  PROVE  \E x \in T : \A y \in T : x <= y
<1>1. PICK x \in T : \A y \in T : ~(<<y, x>> \in {p \in Nat \X Nat : p[1] < p[2]})
  BY NatOrder, WFMin
<1>2. ASSUME NEW y \in T
      PROVE  x <= y
  <2>1. /\ <<y, x>> \in Nat \X Nat
        /\ ~(<<y, x>> \in {p \in Nat \X Nat : p[1] < p[2]})
    BY <1>1
  <2>2. ~(y < x)
    BY <2>1
  <2> QED
    BY <2>2
<1> QED
  BY <1>2

\* The neighbours of an identifier in a nonempty set exist: members, and the nearest.
LEMMA NeighboursExist ==
  ASSUME NEW a \in Id, NEW M \in SUBSET Id, M # {}
  PROVE  /\ NextAfter(a, M) \in M /\ NextBefore(a, M) \in M
         /\ \A k \in M : Dist(a, NextAfter(a, M)) <= Dist(a, k)
         /\ \A k \in M : Dist(NextBefore(a, M), a) <= Dist(k, a)
<1> DEFINE After == {Dist(a, m) : m \in M}
           Before == {Dist(m, a) : m \in M}
<1>1. \A m \in M : Dist(a, m) \in Nat /\ Dist(m, a) \in Nat
  <2> SUFFICES ASSUME NEW m \in M
               PROVE  Dist(a, m) \in Nat /\ Dist(m, a) \in Nat
    OBVIOUS
  <2>1. Dist(a, m) \in 1 .. 2^Bits /\ Dist(m, a) \in 1 .. 2^Bits
    BY DistRange
  <2> QED
    BY <2>1, WidthAssumption
<1>2. After \in SUBSET Nat /\ After # {} /\ Before \in SUBSET Nat /\ Before # {}
  BY <1>1
<1>3. \E m \in M : \A k \in M : Dist(a, m) <= Dist(a, k)
  <2> HIDE DEF After
  <2>1. PICK x \in After : \A y \in After : x <= y
    BY <1>2, LeastExists
  <2>2. PICK m \in M : x = Dist(a, m)
    BY DEF After
  <2>3. \A k \in M : Dist(a, k) \in After
    BY DEF After
  <2> QED
    BY <2>1, <2>2, <2>3
<1>4. \E m \in M : \A k \in M : Dist(m, a) <= Dist(k, a)
  <2> HIDE DEF Before
  <2>1. PICK x \in Before : \A y \in Before : x <= y
    BY <1>2, LeastExists
  <2>2. PICK m \in M : x = Dist(m, a)
    BY DEF Before
  <2>3. \A k \in M : Dist(k, a) \in Before
    BY DEF Before
  <2> QED
    BY <2>1, <2>2, <2>3
<1> QED
  BY <1>3, <1>4 DEF NextAfter, NextBefore

\* Distances from one identifier, and to one, tell the others apart; and the way
\* from a to c by way of a nearer b is the sum of its parts.
LEMMA DistApart ==
  ASSUME NEW a \in Id, NEW b \in Id, NEW c \in Id
  PROVE  /\ Dist(a, b) = Dist(a, c) => b = c
         /\ Dist(b, a) = Dist(c, a) => b = c
         /\ b # a /\ Dist(a, b) < Dist(a, c) => Dist(b, c) = Dist(a, c) - Dist(a, b)
         /\ b # c /\ Dist(a, b) <= Dist(a, c) => Dist(a, b) <= Dist(c, b)
         /\ Dist(a, b) \in Nat
<1> DEFINE R == 2^Bits
<1>1. R \in Nat \ {0}
  BY WidthAssumption
<1>2. a \in 0..R - 1 /\ b \in 0..R - 1 /\ c \in 0..R - 1
  BY DEF Id
<1> HIDE DEF R
<1> QED
  BY <1>1, <1>2 DEF Dist, R

\* The nearest member is the only one.
LEMMA NearestIsNext ==
  ASSUME NEW a \in Id, NEW M \in SUBSET Id, NEW m \in M
  PROVE  /\ (\A k \in M : Dist(a, m) <= Dist(a, k)) => NextAfter(a, M) = m
         /\ (\A k \in M : Dist(m, a) <= Dist(k, a)) => NextBefore(a, M) = m
<1>1. /\ NextAfter(a, M) \in M /\ NextBefore(a, M) \in M
      /\ Dist(a, NextAfter(a, M)) <= Dist(a, m)
      /\ Dist(NextBefore(a, M), a) <= Dist(m, a)
  BY NeighboursExist
<1>2. /\ Dist(a, NextAfter(a, M)) \in Nat /\ Dist(a, m) \in Nat
      /\ Dist(NextBefore(a, M), a) \in Nat /\ Dist(m, a) \in Nat
  BY <1>1, DistApart
<1>3. ASSUME \A k \in M : Dist(a, m) <= Dist(a, k)
      PROVE  Dist(a, NextAfter(a, M)) = Dist(a, m)
  BY <1>1, <1>2, <1>3
<1>4. ASSUME \A k \in M : Dist(m, a) <= Dist(k, a)
      PROVE  Dist(NextBefore(a, M), a) = Dist(m, a)
  BY <1>1, <1>2, <1>4
<1> QED
  BY <1>1, <1>3, <1>4, DistApart

\* The member after d is the same with and without d, if there is another one.
LEMMA NextWithout ==
  ASSUME NEW M \in SUBSET Id, M # {}, NEW d \in Id \ M
  PROVE  NextAfter(d, M \cup {d}) = NextAfter(d, M)
<1> DEFINE s == NextAfter(d, M)
<1>1. s \in M /\ \A k \in M : Dist(d, s) <= Dist(d, k)
  BY NeighboursExist
<1>2. Dist(d, s) <= Dist(d, d)
  <2>1. Dist(d, s) \in 1 .. 2^Bits
    BY <1>1, DistRange
  <2>2. Dist(d, d) = 2^Bits
    <3> DEFINE R == 2^Bits
    <3>1. R \in Nat /\ d \in 0..R - 1
      BY WidthAssumption DEF Id
    <3> HIDE DEF R
    <3> QED
      BY <3>1 DEF Dist, R
  <2> QED
    BY <2>1, <2>2, WidthAssumption
<1> QED
  BY <1>1, <1>2, NearestIsNext

\* The member before the one after d is d, if there is another one.
LEMMA BackAgain ==
  ASSUME NEW M \in SUBSET Id, M # {}, NEW d \in Id \ M
  PROVE  NextBefore(NextAfter(d, M), M \cup {d}) = d
<1> DEFINE s == NextAfter(d, M)
<1>1. s \in M /\ \A k \in M \cup {d} : Dist(d, s) <= Dist(d, k)
  <2>1. NextAfter(d, M \cup {d}) = s
    BY NextWithout
  <2> QED
    BY <2>1, NeighboursExist
<1>2. \A k \in M \cup {d} : Dist(d, s) <= Dist(k, s)
  <2> SUFFICES ASSUME NEW k \in M \cup {d} PROVE Dist(d, s) <= Dist(k, s)
    OBVIOUS
  <2>1. CASE k = s
    <3>1. Dist(d, s) \in 1 .. 2^Bits
      BY <1>1, DistRange
    <3>2. Dist(s, s) = 2^Bits
      <4> DEFINE R == 2^Bits
      <4>0. s \in Id
        BY <1>1
      <4> HIDE DEF s
      <4>1. R \in Nat /\ s \in 0..R - 1
        BY <4>0, WidthAssumption DEF Id
      <4> HIDE DEF R
      <4> QED
        BY <4>1 DEF Dist, R
    <3> QED
      BY <2>1, <3>1, <3>2, WidthAssumption
  <2>2. CASE k # s
    BY <1>1, <2>2, DistApart
  <2> QED
    BY <2>1, <2>2
<1> QED
  BY <1>1, <1>2, NearestIsNext

\* When d is not there any more, the member after it owns what d owned, and all
\* others own what they owned before.
LEMMA OwnerWithout ==
  ASSUME NEW M \in SUBSET Id, M # {}, NEW d \in Id \ M, NEW key \in Id
  PROVE  Owner(key, M) = IF Owner(key, M \cup {d}) = d THEN NextAfter(d, M)
                         ELSE Owner(key, M \cup {d})
<1> DEFINE N == M \cup {d}
           o == NextAfter(key, N)
           s == NextAfter(d, M)
<1>1. CASE key \in N
  BY <1>1 DEF Owner
<1>2. CASE key \notin N
  <2>1. o \in N /\ \A k \in N : Dist(key, o) <= Dist(key, k)
    BY NeighboursExist
  <2>2. CASE o # d
    BY <1>2, <2>1, <2>2, NearestIsNext DEF Owner
  <2>3. CASE o = d
    <3>1. s \in M /\ \A k \in M : Dist(d, s) <= Dist(d, k)
      BY NeighboursExist
    <3>2. \A k \in M : Dist(d, k) = Dist(key, k) - Dist(key, d)
      <4> SUFFICES ASSUME NEW k \in M PROVE Dist(d, k) = Dist(key, k) - Dist(key, d)
        OBVIOUS
      <4>1. Dist(key, d) <= Dist(key, k) /\ Dist(key, d) # Dist(key, k)
        BY <2>1, <2>3, DistApart
      <4>2. Dist(key, d) \in Nat /\ Dist(key, k) \in Nat
        BY DistApart
      <4>3. Dist(key, d) < Dist(key, k)
        BY <4>1, <4>2
      <4> QED
        BY <1>2, <4>3, DistApart
    <3>3. \A k \in M : Dist(key, s) <= Dist(key, k)
      <4> SUFFICES ASSUME NEW k \in M PROVE Dist(key, s) <= Dist(key, k)
        OBVIOUS
      <4>1. Dist(d, s) <= Dist(d, k)
        BY <3>1
      <4>2. /\ Dist(key, d) \in Nat /\ Dist(key, k) \in Nat /\ Dist(key, s) \in Nat
            /\ Dist(d, k) = Dist(key, k) - Dist(key, d)
            /\ Dist(d, s) = Dist(key, s) - Dist(key, d)
        BY <3>1, <3>2, DistApart
      <4> QED
        BY <4>1, <4>2
    <3>4. NextAfter(key, M) = s
      BY <3>1, <3>3, NearestIsNext
    <3> QED
      BY <1>2, <2>3, <3>4 DEF Owner
  <2> QED
    BY <2>2, <2>3
<1> QED
  BY <1>1, <1>2

\* A nonempty set of slots has a highest one.
LEMMA GreatestExists ==
  ASSUME NEW N \in Nat, NEW S \in SUBSET (0 .. N), S # {}
  PROVE  \E x \in S : \A y \in S : y <= x
<1> DEFINE T == {N - i : i \in S}
<1>1. T \in SUBSET Nat
  BY \A i \in S : i \in 0 .. N
<1>2. T # {}
  OBVIOUS
<1> HIDE DEF T
<1>3. PICK x \in T : \A y \in T : x <= y
  BY <1>1, <1>2, LeastExists
<1>4. N - x \in S /\ \A y \in S : y <= N - x
  BY <1>3 DEF T
<1> QED
  BY <1>4

\* findSuccessor returns the successor, or another finger strictly between the
\* node and the key.
LEMMA NextHop ==
  ASSUME NEW table, NEW id, NEW key
  PROVE  \/ FindSuccessor(table, id, key) = table[0]
         \/ \E i \in Finger : /\ FindSuccessor(table, id, key) = table[i]
                              /\ RangeOpen(table[i], id, key)
<1> DEFINE C == PrecedingFingers(table, id, key)
<1>1. CASE C = {}
  BY <1>1 DEF FindSuccessor
<1>2. CASE C # {}
  <2>1. Bits - 1 \in Nat /\ C \in SUBSET (0 .. (Bits - 1))
    BY WidthAssumption DEF PrecedingFingers, Finger
  <2>2. \E i \in C : \A j \in C : j <= i
    <3> HIDE DEF C
    <3> QED
      BY <1>2, <2>1, GreatestExists
  <2> DEFINE h == CHOOSE i \in C : \A j \in C : j <= i
  <2>3. h \in C
    BY <2>2
  <2>4. FindSuccessor(table, id, key) = table[h]
    BY <1>2 DEF FindSuccessor
  <2>5. h \in Finger /\ RangeOpen(table[h], id, key)
    <3> HIDE DEF h
    <3> QED
      BY <2>3 DEF PrecedingFingers
  <2> QED
    BY <2>4, <2>5
<1> QED
  BY <1>1, <1>2

\* The next hop is an entry of the finger table.
LEMMA NextHopType ==
  ASSUME NEW M, NEW table \in [Finger -> M], NEW id, NEW key
  PROVE  FindSuccessor(table, id, key) \in M
<1>1. 0 \in Finger
  BY WidthAssumption DEF Finger
<1> QED
  BY <1>1, NextHop

\* A request that is neither answered nor kept moves closer to its key: the
\* next hop of a node is closer to the key than the node, unless the successor
\* owns the key or the node would send the request to itself.
LEMMA NextHopIsCloser ==
  ASSUME NEW table \in [Finger -> Id], NEW id \in Id, NEW key \in Id,
         ~RangeOpenClosed(key, id, table[0]),
         FindSuccessor(table, id, key) # id
  PROVE  Dist(FindSuccessor(table, id, key), key) < Dist(id, key)
<1>1. 0 \in Finger
  BY WidthAssumption DEF Finger
<1>2. CASE FindSuccessor(table, id, key) = table[0]
  BY <1>1, <1>2, SuccessorIsCloser
<1>3. ASSUME NEW i \in Finger, FindSuccessor(table, id, key) = table[i],
             RangeOpen(table[i], id, key)
      PROVE  Dist(FindSuccessor(table, id, key), key) < Dist(id, key)
  BY <1>3, BetweenIsCloser
<1> QED
  BY <1>2, <1>3, NextHop

----------------------------------------------------------------------------
(***************************************************************************)
(* Ranges and distances.                                                   *)
(***************************************************************************)

\* A range holds what is met before its end; only a full turn leads back.
LEMMA RangesAreNear ==
  ASSUME NEW a \in Id, NEW b \in Id, NEW x \in Id
  PROVE  /\ RangeOpen(x, a, b) => x # a /\ Dist(a, x) < Dist(a, b)
         /\ a # b /\ x # a /\ Dist(a, x) < Dist(a, b) => RangeOpen(x, a, b)
         /\ RangeOpenClosed(x, a, b) /\ x # b => x # a /\ Dist(a, x) < Dist(a, b)
         /\ Dist(a, a) = 2^Bits
         /\ Dist(a, b) >= 2^Bits => a = b
         /\ Dist(a, b) \in Nat /\ Dist(a, b) <= 2^Bits
<1> DEFINE R == 2^Bits
<1>1. R \in Nat \ {0}
  BY WidthAssumption
<1>2. a \in 0..R - 1 /\ b \in 0..R - 1 /\ x \in 0..R - 1
  BY DEF Id
<1>3. /\ RangeOpen(x, a, b) <=> \/ a < b /\ x > a /\ x < b
                                \/ a > b /\ (x > a \/ x < b)
      /\ RangeOpenClosed(x, a, b) <=> \/ a < b /\ x > a /\ x <= b
                                      \/ a > b /\ (x > a \/ x <= b)
  BY DEF RangeOpen, RangeOpenClosed
<1> HIDE DEF R
<1>4. /\ Dist(a, x) = IF a < x THEN x - a ELSE R - (a - x)
      /\ Dist(a, b) = IF a < b THEN b - a ELSE R - (a - b)
      /\ Dist(a, a) = R
  BY <1>1, <1>2 DEF Dist, R
<1>5. /\ RangeOpen(x, a, b) => x # a /\ Dist(a, x) < Dist(a, b)
      /\ a # b /\ x # a /\ Dist(a, x) < Dist(a, b) => RangeOpen(x, a, b)
  BY <1>1, <1>2, <1>3, <1>4
<1>6. RangeOpenClosed(x, a, b) /\ x # b => x # a /\ Dist(a, x) < Dist(a, b)
  BY <1>1, <1>2, <1>3, <1>4
<1>7. /\ Dist(a, b) >= R => a = b
      /\ Dist(a, b) \in Nat /\ Dist(a, b) <= R
  BY <1>1, <1>2, <1>4
<1> QED
  BY <1>4, <1>5, <1>6, <1>7 DEF R

\* On the way round to b: what lies between a and c is nearer to b than a and
\* further from it than c, when c is not past b.
LEMMA BetweenOnTheWay ==
  ASSUME NEW a \in Id, NEW b \in Id, NEW c \in Id, NEW m \in Id, a # c,
         Dist(a, c) <= Dist(a, b)
  PROVE  RangeOpen(m, a, c) <=>
           Dist(m, b) < Dist(a, b) /\ (c = b \/ Dist(c, b) < Dist(m, b))
<1> DEFINE R == 2^Bits
<1>1. R \in Nat \ {0}
  BY WidthAssumption
<1>2. a \in 0..R - 1 /\ b \in 0..R - 1 /\ c \in 0..R - 1 /\ m \in 0..R - 1
  BY DEF Id
<1>3. RangeOpen(m, a, c) <=> \/ a < c /\ m > a /\ m < c
                             \/ a > c /\ (m > a \/ m < c)
  BY DEF RangeOpen
<1> HIDE DEF R
<1>4. /\ Dist(a, c) = IF a < c THEN c - a ELSE R - (a - c)
      /\ Dist(a, b) = IF a < b THEN b - a ELSE R - (a - b)
      /\ Dist(c, b) = IF c < b THEN b - c ELSE R - (c - b)
      /\ Dist(m, b) = IF m < b THEN b - m ELSE R - (m - b)
  BY DEF Dist, R
<1> QED
  BY <1>1, <1>2, <1>3, <1>4

\* A hop that does not skip b arrives at it or comes nearer.
LEMMA NearerOrThere ==
  ASSUME NEW a \in Id, NEW b \in Id, NEW c \in Id, Dist(a, c) <= Dist(a, b)
  PROVE  c = b \/ (c # a /\ Dist(c, b) < Dist(a, b))
<1> DEFINE R == 2^Bits
<1>1. R \in Nat \ {0}
  BY WidthAssumption
<1>2. a \in 0..R - 1 /\ b \in 0..R - 1 /\ c \in 0..R - 1
  BY DEF Id
<1> HIDE DEF R
<1> QED
  BY <1>1, <1>2 DEF Dist, R

----------------------------------------------------------------------------
(***************************************************************************)
(* Powers of two and owners.                                               *)
(***************************************************************************)

\* A higher power of two is no smaller.
LEMMA PowersGrow ==
  ASSUME NEW i \in 0 .. Bits, NEW j \in 0 .. Bits, i <= j
  PROVE  2^i <= 2^j
<1> DEFINE p == [k \in 0 .. Bits |-> 2^k]
           T == {k \in 0 .. Bits : i <= k /\ p[k] < p[i]}
<1>1. /\ Bits \in Nat
      /\ \A k \in 0 .. Bits : p[k] \in Nat
      /\ \A k \in 0 .. Bits : k + 1 \in 0 .. Bits => p[k + 1] = 2 * p[k]
  BY WidthAssumption, PowerAssumption
<1> HIDE DEF p
<1>2. ASSUME T # {}
      PROVE  FALSE
  <2>1. T \in SUBSET Nat
    BY <1>1
  <2>2. PICK k \in T : \A l \in T : k <= l
    BY <1>2, <2>1, LeastExists
  <2>3. k - 1 \in 0 .. Bits /\ i <= k - 1 /\ k = (k - 1) + 1
    BY <1>1, <2>2
  <2>4. k - 1 \notin T
    BY <1>1, <2>2
  <2>5. p[k - 1] >= p[i] /\ p[k] = 2 * p[k - 1]
    BY <1>1, <2>2, <2>3, <2>4
  <2> QED
    BY <1>1, <2>2, <2>3, <2>5
<1>3. p[i] <= p[j]
  BY <1>1, <1>2
<1> QED
  BY <1>3 DEF p

\* The most significant bit of a number.
LEMMA TopBit ==
  ASSUME NEW d \in Nat \ {0}, d < 2^Bits
  PROVE  /\ \E i \in Finger : 2^i <= d /\ d < 2^(i + 1)
         /\ P2Index(d) \in Finger
         /\ 2^P2Index(d) <= d /\ d < 2^(P2Index(d) + 1)
<1> DEFINE p == [k \in 0 .. Bits |-> 2^k]
           T == {k \in 0 .. Bits : d < p[k]}
<1>1. Bits \in Nat /\ \A k \in 0 .. Bits : p[k] \in Nat
  BY WidthAssumption
<1>2. p[0] = 1 /\ d < p[Bits]
  BY <1>1, PowerAssumption
<1> HIDE DEF p
<1>3. T \in SUBSET Nat /\ Bits \in T
  BY <1>1, <1>2
<1>4. PICK k \in T : \A l \in T : k <= l
  BY <1>3, LeastExists
<1>5. k - 1 \in 0 .. (Bits - 1) /\ (k - 1) + 1 = k
  BY <1>1, <1>2, <1>4
<1>6. p[k - 1] <= d /\ d < p[(k - 1) + 1]
  BY <1>1, <1>4, <1>5
<1>7. \E i \in Finger : 2^i <= d /\ d < 2^(i + 1)
  <2>1. p[k - 1] = 2^(k - 1) /\ p[(k - 1) + 1] = 2^((k - 1) + 1)
    BY <1>1, <1>5 DEF p
  <2> QED
    BY <1>5, <1>6, <2>1 DEF Finger
<1> QED
  BY <1>7 DEF P2Index

\* A power of two that is no greater than a number is no higher than its top bit.
LEMMA TopBitIsTop ==
  ASSUME NEW d \in Nat \ {0}, d < 2^Bits, NEW i \in Finger, 2^i <= d
  PROVE  i <= P2Index(d)
<1> DEFINE t == P2Index(d)
<1>1. t \in Finger /\ d < 2^(t + 1)
  BY TopBit
<1> HIDE DEF t
<1>2. t \in 0 .. (Bits - 1) /\ i \in 0 .. (Bits - 1) /\ Bits \in Nat
  BY <1>1, WidthAssumption DEF Finger
<1>3. CASE i > t
  <2>1. 2^(t + 1) <= 2^i
    BY <1>2, <1>3, PowersGrow
  <2>2. 2^i \in Nat /\ 2^(t + 1) \in Nat
    BY <1>2, WidthAssumption
  <2> QED
    BY <1>1, <2>1, <2>2
<1> QED
  BY <1>2, <1>3 DEF t

\* Unsigned subtraction counts the steps between two identifiers.
LEMMA MinusIsDist ==
  ASSUME NEW a \in Id, NEW b \in Id, a # b
  PROVE  Minus(b, a) = Dist(a, b) /\ Dist(a, b) \in Nat \ {0} /\ Dist(a, b) < 2^Bits
<1> DEFINE R == 2^Bits
<1>1. R \in Nat \ {0}
  BY WidthAssumption
<1>2. a \in 0 .. (R - 1) /\ b \in 0 .. (R - 1)
  BY DEF Id
<1> HIDE DEF R
<1>3. (b - a) % R = IF a < b THEN b - a ELSE R - (a - b)
  BY <1>1, <1>2
<1> QED
  BY <1>1, <1>2, <1>3 DEF Minus, Dist, R

\* Steps up from an identifier.
LEMMA StepsUp ==
  ASSUME NEW a \in Id, NEW i \in Finger
  PROVE  Plus(a, 2^i) \in Id /\ Plus(a, 2^i) # a /\ Dist(a, Plus(a, 2^i)) = 2^i
<1> DEFINE R == 2^Bits
           d == 2^i
           s == Plus(a, d)
<1>1. R \in Nat \ {0} /\ d \in Nat \ {0} /\ i + 1 \in 0 .. Bits /\ i \in 0 .. (Bits - 1)
      /\ Bits \in 0 .. Bits
  BY WidthAssumption DEF Finger
<1>2. 2 * d <= R
  <2>1. 2^(i + 1) <= R
    BY <1>1, PowersGrow
  <2> QED
    BY <1>1, <2>1, PowerAssumption
<1>3. a \in 0 .. (R - 1)
  BY DEF Id
<1>4. s = (a + d) % R /\ Dist(a, s) = IF a < s THEN s - a ELSE R - (a - s)
  BY DEF Plus, Dist
<1> HIDE DEF R, d, s
<1>5. (a + d) % R = IF a + d < R THEN a + d ELSE a + d - R
  BY <1>1, <1>2, <1>3
<1>6. s \in 0 .. (R - 1) /\ s # a /\ Dist(a, s) = d
  BY <1>1, <1>2, <1>3, <1>4, <1>5
<1> QED
  BY <1>6 DEF Id, d, R, s

\* Of all that lie on the way from a member to the next one, the next one is the
\* owner.
LEMMA NextOwns ==
  ASSUME NEW M \in SUBSET Id, NEW n \in M, NEW key \in Id,
         RangeOpenClosed(key, n, NextAfter(n, M))
  PROVE  Owner(key, M) = NextAfter(n, M)
<1> DEFINE s == NextAfter(n, M)
<1>1. s \in M /\ s \in Id /\ n \in Id /\ \A k \in M : Dist(n, s) <= Dist(n, k)
  BY NeighboursExist
<1> HIDE DEF s
<1>2. RangeOpenClosed(key, n, s)
  BY DEF s
<1>3. \A k \in M : Dist(n, k) \in Nat /\ Dist(n, s) \in Nat /\ Dist(n, key) \in Nat
  BY <1>1, DistApart
<1>4. CASE key \in M
  <2>1. key = s
    BY <1>1, <1>2, <1>3, <1>4, RangesAreNear
  <2> QED
    BY <1>4, <2>1 DEF Owner, s
<1>5. CASE key \notin M
  <2>1. key # n /\ Dist(n, key) < Dist(n, s)
    BY <1>1, <1>2, <1>5, RangesAreNear
  <2>2. ASSUME NEW k \in M
        PROVE  Dist(key, s) <= Dist(key, k)
    <3>1. Dist(n, key) < Dist(n, k) /\ k \in Id
      BY <1>1, <1>3, <2>1
    <3>2. Dist(key, s) = Dist(n, s) - Dist(n, key) /\ Dist(key, k) = Dist(n, k) - Dist(n, key)
      BY <1>1, <2>1, <3>1, DistApart
    <3> QED
      BY <1>1, <1>3, <3>2
  <2>3. NextAfter(key, M) = s
    BY <1>1, <2>2, NearestIsNext
  <2> QED
    BY <1>5, <2>3 DEF Owner, s
<1> QED
  BY <1>4, <1>5

\* A member that is its own neighbour is alone.
LEMMA AloneIsAll ==
  ASSUME NEW M \in SUBSET Id, NEW n \in M, NextAfter(n, M) = n \/ NextBefore(n, M) = n
  PROVE  M = {n}
<1> SUFFICES ASSUME NEW k \in M PROVE k = n
  OBVIOUS
<1>1. n \in Id /\ k \in Id /\ (Dist(n, n) <= Dist(n, k) \/ Dist(n, n) <= Dist(k, n))
  BY NeighboursExist
<1>2. Dist(n, n) = 2^Bits
  BY <1>1, RangesAreNear
<1> QED
  BY <1>1, <1>2, RangesAreNear

\* Slot i of a finger table that is in order is at least 2^i steps away.
LEMMA SlotsReachOut ==
  ASSUME NEW M \in SUBSET Id, NEW x \in M, NEW i \in Finger
  PROVE  /\ Owner(Plus(x, 2^i), M) \in M
         /\ Dist(x, Owner(Plus(x, 2^i), M)) >= 2^i
         /\ \A q \in M : q # x /\ Dist(x, q) >= 2^i =>
              Dist(x, Owner(Plus(x, 2^i), M)) <= Dist(x, q)
<1> DEFINE R == 2^Bits
           d == 2^i
           s == Plus(x, d)
           y == Owner(s, M)
<1>1. R \in Nat \ {0} /\ d \in Nat \ {0}
  BY WidthAssumption DEF Finger
<1>2. s \in Id /\ s # x /\ Dist(x, s) = d /\ x \in Id
  BY StepsUp
<1> HIDE DEF s, d
<1>3. CASE s \in M
  <2>1. y = s
    BY <1>3 DEF Owner
  <2>2. Dist(x, s) >= d /\ \A q \in M : q # x /\ Dist(x, q) >= d => Dist(x, s) <= Dist(x, q)
    BY <1>1, <1>2
  <2> HIDE DEF y
  <2>3. y \in M /\ Dist(x, y) >= d /\ \A q \in M : q # x /\ Dist(x, q) >= d => Dist(x, y) <= Dist(x, q)
    BY <1>3, <2>1, <2>2
  <2> QED
    BY <2>3 DEF y, s, d
<1>4. CASE s \notin M
  <2>1. y = NextAfter(s, M)
    BY <1>4 DEF Owner
  <2> HIDE DEF y
  <2>2. y \in M /\ \A k \in M : Dist(s, y) <= Dist(s, k)
    BY <1>2, <2>1, NeighboursExist
  <2>3. x \in 0 .. R - 1 /\ s \in 0 .. R - 1 /\ y \in 0 .. R - 1 /\ y # s /\ M \subseteq 0 .. R - 1
    BY <1>2, <1>4, <2>2 DEF Id
  <2> HIDE DEF R
  <2>4. Dist(x, y) >= d
    BY <1>1, <1>2, <2>2, <2>3 DEF Dist, R
  <2>5. ASSUME NEW q \in M, q # x, Dist(x, q) >= d
        PROVE  Dist(x, y) <= Dist(x, q)
    <3>1. Dist(s, y) <= Dist(s, q) /\ Dist(s, y) <= Dist(s, x) /\ q \in 0 .. R - 1 /\ q # s
      BY <1>4, <2>2, <2>3
    <3> QED
      BY <1>1, <1>2, <2>3, <2>5, <3>1 DEF Dist, R
  <2> QED
    BY <2>2, <2>4, <2>5 DEF y, s, d
<1> QED
  BY <1>3, <1>4

\* The member after the one before is the member itself, and the other way round.
LEMMA NextIsBack ==
  ASSUME NEW M \in SUBSET Id, NEW x \in M, NEW y \in M
  PROVE  NextAfter(x, M) = y <=> NextBefore(y, M) = x
<1>1. /\ x \in Id /\ y \in Id
      /\ \A k \in M : Dist(x, NextAfter(x, M)) <= Dist(x, k)
      /\ \A k \in M : Dist(NextBefore(y, M), y) <= Dist(k, y)
  BY NeighboursExist
<1>2. \A a, b \in M : Dist(a, b) \in Nat /\ Dist(a, b) <= Dist(a, a) /\ Dist(a, a) = Dist(b, b)
  <2> SUFFICES ASSUME NEW a \in M, NEW b \in M
               PROVE  Dist(a, b) \in Nat /\ Dist(a, b) <= Dist(a, a) /\ Dist(a, a) = Dist(b, b)
    OBVIOUS
  <2>1. a \in Id /\ b \in Id
    OBVIOUS
  <2> QED
    BY <2>1, RangesAreNear
<1>3. ASSUME NextAfter(x, M) = y
      PROVE  NextBefore(y, M) = x
  <2>1. ASSUME NEW k \in M
        PROVE  Dist(x, y) <= Dist(k, y)
    <3>1. CASE k = y
      BY <1>2, <3>1
    <3>2. CASE k # y
      <4>1. Dist(x, y) <= Dist(x, k) /\ k \in Id
        BY <1>1, <1>3
      <4> QED
        BY <1>1, <3>2, <4>1, DistApart
    <3> QED
      BY <3>1, <3>2
  <2> QED
    BY <1>1, <2>1, NearestIsNext
<1>4. ASSUME NextBefore(y, M) = x
      PROVE  NextAfter(x, M) = y
  <2>1. ASSUME NEW k \in M
        PROVE  Dist(x, y) <= Dist(x, k)
    <3> SUFFICES ASSUME Dist(x, k) < Dist(x, y) PROVE FALSE
      BY <1>2
    <3>1. k # x
      BY <1>2
    <3>2. Dist(k, y) = Dist(x, y) - Dist(x, k) /\ k \in Id
      BY <1>1, <3>1, DistApart
    <3>3. Dist(x, y) <= Dist(k, y)
      BY <1>1, <1>4
    <3>4. Dist(x, k) \in 1 .. 2^Bits
      BY <1>1, <3>2, DistRange
    <3>5. Dist(x, k) >= 1
      BY <3>4, WidthAssumption
    <3> QED
      BY <1>2, <3>2, <3>3, <3>5
  <2> QED
    BY <1>1, <2>1, NearestIsNext
<1> QED
  BY <1>3, <1>4

\* Where d is not there: the member before it and the one after it become neighbours,
\* the others keep theirs.
LEMMA GapCloses ==
  ASSUME NEW M \in SUBSET Id, M # {}, NEW d \in Id \ M
  PROVE  LET a == NextAfter(d, M)
             b == NextBefore(d, M)
         IN  /\ NextBefore(d, M \cup {d}) = b
             /\ NextBefore(a, M \cup {d}) = d
             /\ NextBefore(a, M) = b
             /\ \A x \in M \ {a} : NextBefore(x, M \cup {d}) = NextBefore(x, M)
<1>0. PICK a, b : a = NextAfter(d, M) /\ b = NextBefore(d, M)
  OBVIOUS
<1> DEFINE R == 2^Bits
<1>1. /\ a \in M /\ b \in M /\ a \in Id /\ b \in Id
      /\ \A k \in M : Dist(d, a) <= Dist(d, k) /\ Dist(b, d) <= Dist(k, d)
  BY <1>0, NeighboursExist
<1>2. R \in Nat \ {0} /\ d \in 0 .. R - 1 /\ \A k \in M : k \in 0 .. R - 1 /\ k # d
  BY WidthAssumption DEF Id
<1> HIDE DEF R
<1>3. \A x, y : Dist(x, y) = IF x < y THEN y - x ELSE R - (x - y)
  BY DEF Dist, R
<1>4. NextBefore(d, M \cup {d}) = b
  <2>1. \A k \in M \cup {d} : Dist(b, d) <= Dist(k, d)
    <3>1. Dist(b, d) <= Dist(d, d)
      BY <1>1, <1>2, <1>3
    <3> QED
      BY <1>1, <3>1
  <2> QED
    BY <1>1, <2>1, NearestIsNext
<1>5. NextBefore(a, M \cup {d}) = d
  BY <1>0, BackAgain
<1>6. NextBefore(a, M) = b
  <2>1. ASSUME NEW k \in M
        PROVE  Dist(k, a) = Dist(k, d) + Dist(d, a)
    <3>1. Dist(d, a) <= Dist(d, k) /\ k \in 0 .. R - 1 /\ k # d /\ a \in 0 .. R - 1 /\ a # d
      BY <1>1, <1>2
    <3> QED
      BY <1>2, <1>3, <3>1
  <2>2. ASSUME NEW k \in M
        PROVE  Dist(b, a) <= Dist(k, a)
    <3>1. /\ Dist(b, d) <= Dist(k, d)
          /\ Dist(k, a) = Dist(k, d) + Dist(d, a) /\ Dist(b, a) = Dist(b, d) + Dist(d, a)
      BY <1>1, <2>1
    <3>2. k \in Id /\ Dist(b, d) \in Nat /\ Dist(k, d) \in Nat /\ Dist(d, a) \in Nat
      <4>1. k \in Id
        OBVIOUS
      <4> QED
        BY <1>1, <4>1, DistApart
    <3> QED
      BY <3>1, <3>2
  <2> QED
    BY <1>1, <2>2, NearestIsNext
<1>7. ASSUME NEW x \in M \ {a}
      PROVE  NextBefore(x, M \cup {d}) = NextBefore(x, M)
  <2>0. PICK y : y = NextBefore(x, M)
    OBVIOUS
  <2>1. x \in Id /\ y \in M /\ \A k \in M : Dist(y, x) <= Dist(k, x)
    <3>1. x \in Id
      OBVIOUS
    <3> QED
      BY <2>0, <3>1, NeighboursExist
  <2>2. Dist(y, x) <= Dist(d, x)
    <3>1. Dist(y, x) <= Dist(a, x) /\ Dist(d, a) <= Dist(d, x)
      BY <1>1, <2>1
    <3>2. x \in 0 .. R - 1 /\ a \in 0 .. R - 1 /\ a # d /\ x # d /\ y \in 0 .. R - 1
      BY <1>1, <1>2, <2>1
    <3> QED
      BY <1>2, <1>3, <3>1, <3>2
  <2>3. \A k \in M \cup {d} : Dist(y, x) <= Dist(k, x)
    BY <2>1, <2>2
  <2> QED
    BY <2>0, <2>1, <2>3, NearestIsNext
<1> QED
  BY <1>0, <1>4, <1>5, <1>6, <1>7
=============================================================================
